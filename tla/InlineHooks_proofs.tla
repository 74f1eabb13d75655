------------------------- MODULE InlineHooks_proofs -------------------------
(***************************************************************************)
(* Theorems about InlineHooks, for every number of threads, hooks and      *)
(* functions and every layout of functions.  For every client and every    *)
(* pattern of refused writes: type correctness, and that the ranges of     *)
(* published hooks never overlap.  For disciplined clients, and while the  *)
(* writes of a rollback are not refused: every patch has an owner, holds   *)
(* the original bytes and overlaps no other; a gateway outlives the hooks  *)
(* chained on it; no trampoline is lost or retired twice; a failed commit  *)
(* leaves no trace.                                                        *)
(***************************************************************************)
EXTENDS InlineHooks, TLAPS

-----------------------------------------------------------------------------
(***************************************************************************)
(* Facts about the helpers                                                 *)
(***************************************************************************)

\* The parts of a trampoline, detours and functions are code addresses.
LEMMA Sites ==
    /\ \A h \in Hooks : /\ Gateway(h) \in Site /\ Body(h) \in Site
                        /\ Detour(h) \in Site
    /\ Funcs \subseteq Site
  BY DEF Site, Gateways, Bodies, Detours

\* Taking a sequence apart and extending it.
LEMMA SeqParts ==
    ASSUME NEW S, NEW s \in Seq(S)
    PROVE  /\ \A i \in 1 .. Len(s) : s[i] \in S
           /\ \A x \in S : Append(s, x) \in Seq(S)
           /\ s # << >> => /\ Head(s) \in S /\ Tail(s) \in Seq(S)
                           /\ s[Len(s)] \in S
                           /\ SubSeq(s, 1, Len(s) - 1) \in Seq(S)
  <1>1. \A i \in 1 .. Len(s) : s[i] \in S
    OBVIOUS
  <1>2. \A x \in S : Append(s, x) \in Seq(S)
    OBVIOUS
  <1>3. ASSUME s # << >>
        PROVE  Head(s) \in S /\ Tail(s) \in Seq(S)
    BY <1>3
  <1>4. ASSUME s # << >>
        PROVE  s[Len(s)] \in S
    <2>1. Len(s) \in 1 .. Len(s)
      BY <1>4
    <2> QED
      BY <2>1, <1>1
  <1>5. ASSUME s # << >>
        PROVE  SubSeq(s, 1, Len(s) - 1) \in Seq(S)
    <2>1. \A i \in 1 .. Len(s) - 1 : s[i] \in S
      BY <1>1
    <2> QED
      BY <2>1
  <1> QED
    BY <1>1, <1>2, <1>3, <1>4, <1>5

\* Reading code yields a content, whatever covers the bytes.
LEMMA ReadBytesType ==
    ASSUME TypeOK, NEW s \in Site
    PROVE  ReadBytes(s) \in Content
  <1>1. CASE Patches(s) = {}
    BY <1>1 DEF ReadBytes, Content
  <1>2. CASE Patches(s) # {}
    <2>1. PICK t \in Patches(s) : t = CHOOSE u \in Patches(s) : TRUE
      BY <1>2
    <2>2. t \in Site
      BY <2>1 DEF Patches
    <2>3. code[t] \in Content /\ code[s] \in Content
      BY <2>2 DEF TypeOK
    <2> QED
      BY <1>2, <2>1, <2>3 DEF ReadBytes
  <1> QED
    BY <1>1, <1>2

\* Dropping a queue keeps the variables it touches well typed.
LEMMA DropQueueType ==
    ASSUME TypeOK, NEW p \in Procs, DropQueue(p)
    PROVE  /\ stage' \in [Hooks -> Stage]
           /\ retired' \in [Hooks -> Nat]
           /\ queue' \in [Procs -> Seq(Ops)]
  <1>1. stage \in [Hooks -> Stage] /\ retired \in [Hooks -> Nat]
        /\ queue \in [Procs -> Seq(Ops)]
    BY DEF TypeOK
  <1>2. stage' \in [Hooks -> Stage]
    BY <1>1 DEF DropQueue, Stage
  <1>3. retired' \in [Hooks -> Nat]
    BY <1>1 DEF DropQueue
  <1>4. queue' \in [Procs -> Seq(Ops)]
    BY <1>1 DEF DropQueue
  <1> QED
    BY <1>2, <1>3, <1>4

\* So does releasing a hook: a dependency count never goes below zero.
LEMMA ReleaseType ==
    ASSUME TypeOK, NEW p \in Procs, NEW h \in Hooks, Release(p, h)
    PROVE  /\ published' \in [Hooks -> BOOLEAN]
           /\ livePatches' \in SUBSET Site
           /\ dependents' \in [Hooks -> Nat]
           /\ orphan' \in SUBSET Hooks
           /\ link' \in [Procs -> {"none", "alive", "orphan"}]
  <1>1. /\ published \in [Hooks -> BOOLEAN] /\ livePatches \in SUBSET Site
        /\ dependents \in [Hooks -> Nat] /\ orphan \in SUBSET Hooks
        /\ link \in [Procs -> {"none", "alive", "orphan"}]
    BY DEF TypeOK
  <1>2. published' \in [Hooks -> BOOLEAN]
    BY <1>1 DEF Release
  <1>3. livePatches' \in SUBSET Site
    BY <1>1 DEF Release
  <1> DEFINE chainedOn == {g \in Hooks : /\ published[h]
                                         /\ kind[h] = "ManagedGateway"
                                         /\ target[h] = Gateway(g)}
             last == {g \in chainedOn : dependents[g] <= 1}
  <1>4. dependents' \in [Hooks -> Nat]
    <2>1. dependents' = [g \in Hooks |-> IF g \in last THEN 0
                                         ELSE IF g \in chainedOn
                                         THEN dependents[g] - 1
                                         ELSE dependents[g]]
      BY DEF Release
    <2>2. ASSUME NEW g \in Hooks, g \in chainedOn, g \notin last
          PROVE  dependents[g] - 1 \in Nat
      BY <1>1, <2>2
    <2> QED
      BY <1>1, <2>1, <2>2
  <1>5. orphan' \in SUBSET Hooks
    BY <1>1 DEF Release
  <1>6. link' \in [Procs -> {"none", "alive", "orphan"}]
    BY <1>1 DEF Release
  <1> QED
    BY <1>2, <1>3, <1>4, <1>5, <1>6

\* The second half of a release keeps gateways and retirements well typed.
LEMMA RelinkType ==
    ASSUME TypeOK, NEW p \in Procs
    PROVE  RelinkManaged(p) \in SUBSET Hooks /\ RelinkRetired(p) \in [Hooks -> Nat]
  <1>1. managed \in SUBSET Hooks /\ retired \in [Hooks -> Nat]
    BY DEF TypeOK
  <1>2. RelinkManaged(p) \in SUBSET Hooks
    BY <1>1 DEF RelinkManaged, Linked
  <1>3. RelinkRetired(p) \in [Hooks -> Nat]
    BY <1>1 DEF RelinkRetired
  <1> QED
    BY <1>2, <1>3

-----------------------------------------------------------------------------
(***************************************************************************)
(* Type correctness                                                        *)
(***************************************************************************)

\* The initial state, before any thread has called the library, is well typed.
LEMMA InitType == Init => TypeOK
  BY Sites DEF Init, TypeOK, Content, Stage, NoHook, Pcs, HookPcs, AttachPcs

\* Opening, extending and aborting a transaction, and queueing a detach.
LEMMA TransactionType ==
    ASSUME TypeOK, NEW p \in Procs, Transaction(p)
    PROVE  TypeOK'
  <1> USE DEF TypeOK, hookVars, regVars, lockVars, txVars, callVars
  <1>1. CASE Begin(p)
    BY <1>1 DEF Begin
  <1>2. CASE update_thread(p)
    BY <1>2 DEF update_thread
  <1>3. CASE abort(p)
    <2>1. DropQueue(p)
      BY <1>3 DEF abort
    <2>2. /\ stage' \in [Hooks -> Stage] /\ retired' \in [Hooks -> Nat]
          /\ queue' \in [Procs -> Seq(Ops)]
      BY <2>1, DropQueueType
    <2> QED
      BY <1>3, <2>2 DEF abort, ReleaseTx
  <1>4. ASSUME NEW h \in Hooks, detach(p, h)
        PROVE  TypeOK'
    <2>1. [op |-> "detach", hook |-> h] \in Ops
      BY DEF Ops
    <2>2. queue' \in [Procs -> Seq(Ops)]
      BY <1>4, <2>1 DEF detach
    <2>3. stage' \in [Hooks -> Stage]
      BY <1>4 DEF detach, Stage
    <2> QED
      BY <1>4, <2>2, <2>3 DEF detach
  <1> QED
    BY <1>1, <1>2, <1>3, <1>4 DEF Transaction

\* A rejected attach.
LEMMA RejectType ==
    ASSUME TypeOK, NEW p \in Procs, pc[p] \in AttachPcs, Reject(p)
    PROVE  TypeOK'
  BY Sites DEF TypeOK, Reject, Goto, Stage, Pcs, HookPcs, AttachPcs, NoHook,
     hookVars, regVars, lockVars, txVars, callVars

\* Every step of attach.
LEMMA AttachType ==
    ASSUME TypeOK, NEW p \in Procs, Attach(p)
    PROVE  TypeOK'
  <1> USE DEF TypeOK, hookVars, regVars, lockVars, txVars, callVars,
              Goto, Pcs, HookPcs, AttachPcs
  <1>1. ASSUME NEW h \in Hooks, NEW s \in Funcs \cup Gateways,
               NEW follow \in BOOLEAN, attach(p, h, s, follow)
        PROVE  TypeOK'
    BY <1>1, Sites DEF attach, Stage, Site
  <1>2. CASE attach_managed(p)
    <2>1. CASE Reject(p)
      BY <1>2, <2>1, RejectType DEF attach_managed
    <2>2. CASE ~Reject(p)
      BY <1>2, <2>2 DEF attach_managed
    <2> QED
      BY <2>1, <2>2
  <1>3. CASE attach_stub(p)
    <2>1. CASE Reject(p)
      BY <1>3, <2>1, RejectType DEF attach_stub
    <2>2. CASE ~Reject(p)
      <3>1. PICK s \in Site : /\ leads' = [leads EXCEPT ![arg[p]] = s]
                              /\ Goto(p, "att_snapshot")
        BY <1>3, <2>2 DEF attach_stub
      <3>2. UNCHANGED <<code, stage, target, kind, orig, body, active, enabled,
                        published, retired, regVars, lockVars, txVars, arg,
                        link, how>>
        BY <1>3, <2>2 DEF attach_stub
      <3>3. leads' \in [Hooks -> Site]
        BY <3>1
      <3> QED
        BY <1>3, <3>1, <3>2, <3>3 DEF attach_stub
    <2> QED
      BY <2>1, <2>2
  <1>4. CASE attach_follow(p)
    BY <1>4 DEF attach_follow
  <1>5. CASE attach_check(p)
    BY <1>5, RejectType DEF attach_check
  <1>6. CASE attach_relocate(p)
    <2>1. arg[p] \in Hooks /\ target[arg[p]] \in Site
      BY <1>6 DEF attach_relocate
    <2>2. ReadBytes(target[arg[p]]) \in Content
      BY <2>1, ReadBytesType
    <2> QED
      BY <1>6, <2>1, <2>2, Sites DEF attach_relocate
  <1>7. CASE attach_snapshot(p)
    <2>1. arg[p] \in Hooks /\ target[arg[p]] \in Site
      BY <1>7 DEF attach_snapshot
    <2>2. ReadBytes(target[arg[p]]) \in Content
      BY <2>1, ReadBytesType
    <2> QED
      BY <1>7, <2>1, <2>2 DEF attach_snapshot, Stage, Ops, NoHook
  <1> QED
    BY <1>1, <1>2, <1>3, <1>4, <1>5, <1>6, <1>7 DEF Attach

(***************************************************************************)
(* The loops of commit index sequences that steps of the same call filled: *)
(* publishing counts from 1, the rollback counts down from the last        *)
(* installed hook, and a relink belongs to the first applied detach.       *)
(***************************************************************************)
CursorOK ==
    \A p \in Procs :
        /\ pc[p] = "com_publish" => idx[p] > 0
        /\ pc[p] = "com_undo_install" => idx[p] <= Len(installed[p])
        /\ pc[p] = "com_relink" => detached[p] # << >>

\* Every step of commit, of its success and of its failure path.
LEMMA CommitType ==
    ASSUME TypeOK, CursorOK, NEW p \in Procs, Commit(p)
    PROVE  TypeOK'
  <1> DEFINE Detached == [hook : Hooks, was : BOOLEAN]
  <1> USE DEF hookVars, regVars, lockVars, txVars, callVars,
              Goto, Pcs, HookPcs, AttachPcs, CommitPcs, CodePcs
  <1>1. ASSUME CommitFails(p)
        PROVE  /\ stage' \in [Hooks -> Stage] /\ retired' \in [Hooks -> Nat]
               /\ queue' \in [Procs -> Seq(Ops)]
               /\ txOwner' \in Procs \cup {NoProc}
    <2>1. DropQueue(p) /\ ReleaseTx(p)
      BY <1>1 DEF CommitFails
    <2>2. txOwner' \in Procs \cup {NoProc}
      BY <2>1 DEF ReleaseTx, TypeOK
    <2> QED
      BY <2>1, <2>2, DropQueueType
  <1>2. CASE commit(p)
    <2>1. CASE CommitFails(p)
      BY <1>1, <1>2, <2>1 DEF commit, CommitFails, TypeOK
    <2>2. CASE ~CommitFails(p)
      <3>1. /\ txOwner' = p /\ pc' = [pc EXCEPT ![p] = "com_code"]
            /\ UNCHANGED <<stage, retired, queue>>
        BY <1>2, <2>2 DEF commit
      <3>2. UNCHANGED <<code, target, kind, leads, orig, body, active, enabled,
                        published, regVars, codeOwner, txOpen, installed,
                        detached, idx, before, arg, link, how>>
        BY <1>2 DEF commit
      <3> QED
        BY <3>1, <3>2 DEF TypeOK
    <2> QED
      BY <2>1, <2>2
  <1>3. CASE commit_lock(p)
    <2>1. CASE CommitFails(p) /\ UNCHANGED <<codeOwner, before>>
      BY <1>1, <1>3, <2>1 DEF commit_lock, CommitFails, TypeOK
    <2>2. CASE ~(CommitFails(p) /\ UNCHANGED <<codeOwner, before>>)
      <3>1. /\ codeOwner' = p /\ before' = [before EXCEPT ![p] = code]
            /\ Goto(p, "com_install")
            /\ UNCHANGED <<stage, retired, queue, txOwner>>
        BY <1>3, <2>2 DEF commit_lock
      <3>2. before' \in [Procs -> [Site -> Content]]
        BY <3>1 DEF TypeOK
      <3> QED
        BY <1>3, <3>1, <3>2 DEF commit_lock, TypeOK
    <2> QED
      BY <2>1, <2>2
  <1>4. CASE commit_install(p)
    <2>1. PICK h \in Hooks : install_inline(p, h) \/ prepare_detach(p, h)
      BY <1>4 DEF commit_install
    <2>2. /\ target[h] \in Site /\ h \in Content /\ orig[h] \in Content
          /\ enabled[h] \in BOOLEAN
      BY DEF Content, TypeOK
    <2>3. code' \in [Site -> Content]
      <3>1. \/ code' = [code EXCEPT ![target[h]] = h]
            \/ code' = [code EXCEPT ![target[h]] = orig[h]]
            \/ code' = code
        BY <2>1 DEF install_inline, prepare_detach
      <3> QED
        BY <2>2, <3>1 DEF TypeOK
    <2>4. stage' \in [Hooks -> Stage]
      BY <2>1 DEF install_inline, prepare_detach, Stage, TypeOK
    <2>5. /\ active' \in [Hooks -> BOOLEAN]
          /\ enabled' \in [Hooks -> BOOLEAN]
      BY <2>1 DEF install_inline, prepare_detach, TypeOK
    <2>6. installed' \in [Procs -> Seq(Hooks)]
      <3>1. installed \in [Procs -> Seq(Hooks)] /\ installed[p] \in Seq(Hooks)
        BY DEF TypeOK
      <3>2. Append(installed[p], h) \in Seq(Hooks)
        BY <3>1, SeqParts
      <3> QED
        BY <2>1, <3>1, <3>2 DEF install_inline, prepare_detach
    <2>7. detached' \in [Procs -> Seq(Detached)]
      <3>1. detached \in [Procs -> Seq(Detached)] /\ detached[p] \in Seq(Detached)
        BY DEF TypeOK
      <3>2. [hook |-> h, was |-> enabled[h]] \in Detached
        BY <2>2
      <3>3. Append(detached[p], [hook |-> h, was |-> enabled[h]]) \in Seq(Detached)
        BY <3>1, <3>2, SeqParts
      <3> QED
        BY <2>1, <3>1, <3>3 DEF install_inline, prepare_detach
    <2>8. queue' \in [Procs -> Seq(Ops)]
      <3>1. queue \in [Procs -> Seq(Ops)] /\ queue[p] \in Seq(Ops)
        BY DEF TypeOK
      <3>2. Tail(queue[p]) \in Seq(Ops)
        BY <1>4, <3>1, SeqParts DEF commit_install
      <3> QED
        BY <1>4, <3>1, <3>2 DEF commit_install
    <2> QED
      BY <1>4, <2>3, <2>4, <2>5, <2>6, <2>7, <2>8 DEF commit_install, TypeOK
  <1>5. CASE commit_fail(p)
    BY <1>5 DEF commit_fail, TypeOK
  <1>6. CASE commit_applied(p)
    BY <1>6 DEF commit_applied, TypeOK
  <1>7. CASE publish(p)
    <2> DEFINE h == installed[p][idx[p]]
    <2>1. h \in Hooks
      <3>1. idx[p] \in 1 .. Len(installed[p]) /\ installed[p] \in Seq(Hooks)
        BY <1>7 DEF publish, CursorOK, TypeOK
      <3> QED
        BY <3>1, SeqParts
    <2> DEFINE chainedOn == {g \in Hooks : /\ kind[h] = "ManagedGateway"
                                           /\ target[h] = Gateway(g)}
    <2>5. /\ managed' = (managed \ chainedOn) \cup {h}
          /\ dependents' = [g \in Hooks |-> IF g \in chainedOn
                                            THEN dependents[g] + 1
                                            ELSE dependents[g]]
          /\ livePatches' = livePatches \cup {target[h]}
          /\ published' = [published EXCEPT ![h] = TRUE]
      BY <1>7 DEF publish
    <2> HIDE DEF h, chainedOn
    <2>2. managed' \in SUBSET Hooks /\ dependents' \in [Hooks -> Nat]
      BY <2>1, <2>5 DEF TypeOK
    <2>3. livePatches' \in SUBSET Site /\ published' \in [Hooks -> BOOLEAN]
      BY <2>1, <2>5 DEF TypeOK
    <2>4. idx' \in [Procs -> Nat]
      BY <1>7 DEF publish, TypeOK
    <2> QED
      BY <1>7, <2>2, <2>3, <2>4 DEF publish, TypeOK
  <1>8. CASE commit_published(p)
    <2>1. stage' \in [Hooks -> Stage]
      BY <1>8 DEF commit_published, Stage, TypeOK
    <2>2. installed' \in [Procs -> Seq(Hooks)] /\ idx' \in [Procs -> Nat]
      BY <1>8 DEF commit_published, TypeOK
    <2>3. txOwner' \in Procs \cup {NoProc}
      BY <1>8 DEF commit_published, ReleaseTx, TypeOK
    <2> QED
      BY <1>8, <2>1, <2>2, <2>3 DEF commit_published, TypeOK
  <1>9. CASE detach_finalize(p)
    <2> DEFINE h == Head(detached[p]).hook
    <2>1. h \in Hooks
      <3>1. detached[p] \in Seq(Detached) /\ detached[p] # << >>
        BY <1>9 DEF detach_finalize, TypeOK
      <3>2. Head(detached[p]) \in Detached
        BY <3>1, SeqParts
      <3> QED
        BY <3>2
    <2>2. Release(p, h) /\ arg' = [arg EXCEPT ![p] = h]
      BY <1>9 DEF detach_finalize
    <2> HIDE DEF h
    <2>3. /\ published' \in [Hooks -> BOOLEAN] /\ livePatches' \in SUBSET Site
          /\ dependents' \in [Hooks -> Nat] /\ orphan' \in SUBSET Hooks
          /\ link' \in [Procs -> {"none", "alive", "orphan"}]
      BY <2>1, <2>2, ReleaseType
    <2>4. pc' = [pc EXCEPT ![p] = "com_relink"]
      BY <1>9 DEF detach_finalize
    <2>5. /\ arg' \in [Procs -> Hooks \cup {NoHook}]
          /\ \A q \in Procs : pc'[q] \in HookPcs => arg'[q] \in Hooks
          /\ pc' \in [Procs -> Pcs]
      BY <2>1, <2>2, <2>4 DEF TypeOK
    <2>6. UNCHANGED <<code, stage, target, kind, leads, orig, body, active,
                      enabled, retired, managed, armed, saved, lockVars, txVars,
                      how>>
      BY <1>9 DEF detach_finalize
    <2> QED
      BY <2>3, <2>5, <2>6 DEF TypeOK
  <1>10. CASE detach_relink(p)
    <2>1. managed' \in SUBSET Hooks /\ retired' \in [Hooks -> Nat]
      BY <1>10, RelinkType DEF detach_relink
    <2>2. stage' \in [Hooks -> Stage] /\ active' \in [Hooks -> BOOLEAN]
      BY <1>10 DEF detach_relink, Stage, TypeOK
    <2>3. detached' \in [Procs -> Seq(Detached)]
      <3>1. /\ detached \in [Procs -> Seq(Detached)]
            /\ detached[p] \in Seq(Detached)
            /\ detached[p] # << >>
        BY <1>10 DEF detach_relink, CursorOK, TypeOK
      <3>2. Tail(detached[p]) \in Seq(Detached)
        BY <3>1, SeqParts
      <3> QED
        BY <1>10, <3>1, <3>2 DEF detach_relink
    <2>4. link' \in [Procs -> {"none", "alive", "orphan"}]
      BY <1>10 DEF detach_relink, TypeOK
    <2> QED
      BY <1>10, <2>1, <2>2, <2>3, <2>4 DEF detach_relink, NoHook, TypeOK
  <1>11. CASE commit_done(p)
    <2>1. before' \in [Procs -> [Site -> Content]]
      BY <1>11 DEF commit_done, NoSnapshot, Content, TypeOK
    <2> QED
      BY <1>11, <2>1 DEF commit_done, ReleaseCode, TypeOK
  <1>12. CASE rollback_detaches(p)
    <2> DEFINE d == detached[p][Len(detached[p])]
    <2>1. /\ detached \in [Procs -> Seq(Detached)]
          /\ detached[p] \in Seq(Detached) /\ detached[p] # << >>
      BY <1>12 DEF rollback_detaches, TypeOK
    <2>2. /\ d \in Detached
          /\ SubSeq(detached[p], 1, Len(detached[p]) - 1) \in Seq(Detached)
      BY <2>1, SeqParts
    <2>3. d.hook \in Hooks /\ d.hook \in Content
      BY <2>2 DEF Content
    <2>4. target[d.hook] \in Site
      BY <2>3 DEF TypeOK
    <2>5. detached' \in [Procs -> Seq(Detached)]
      BY <1>12, <2>1, <2>2 DEF rollback_detaches
    <2>6. code' \in [Site -> Content] /\ enabled' \in [Hooks -> BOOLEAN]
      BY <1>12, <2>3, <2>4 DEF rollback_detaches, TypeOK
    <2>7. stage' \in [Hooks -> Stage]
      BY <1>12, <2>3 DEF rollback_detaches, Stage, TypeOK
    <2> QED
      BY <1>12, <2>5, <2>6, <2>7 DEF rollback_detaches, TypeOK
  <1>13. CASE rollback_start(p)
    <2>1. idx' \in [Procs -> Nat]
      BY <1>13 DEF rollback_start, TypeOK
    <2> QED
      BY <1>13, <2>1 DEF rollback_start, TypeOK
  <1>14. CASE rollback(p)
    <2> DEFINE h == installed[p][idx[p]]
    <2>1. idx[p] \in 1 .. Len(installed[p]) /\ installed[p] \in Seq(Hooks)
      BY <1>14 DEF rollback, CursorOK, TypeOK
    <2>2. h \in Hooks
      BY <2>1, SeqParts
    <2>3. target[h] \in Site /\ orig[h] \in Content
      BY <2>2 DEF TypeOK
    <2>4. /\ \/ code' = [code EXCEPT ![target[h]] = orig[h]]
             \/ code' = code
          /\ enabled' = [enabled EXCEPT ![h] = FALSE] \/ enabled' = enabled
      BY <1>14 DEF rollback
    <2>5. code' \in [Site -> Content] /\ enabled' \in [Hooks -> BOOLEAN]
      BY <2>3, <2>4 DEF TypeOK
    <2>6. idx' \in [Procs -> Nat]
      BY <1>14 DEF rollback, TypeOK
    <2> QED
      BY <1>14, <2>5, <2>6 DEF rollback, TypeOK
  <1>15. CASE rollback_done(p)
    BY <1>15 DEF rollback_done, ReleaseTx, TypeOK
  <1>16. CASE dismantle(p)
    <2> DEFINE h == Head(installed[p])
    <2>1. /\ installed \in [Procs -> Seq(Hooks)]
          /\ installed[p] \in Seq(Hooks) /\ installed[p] # << >>
      BY <1>16 DEF dismantle, TypeOK
    <2>2. h \in Hooks /\ Tail(installed[p]) \in Seq(Hooks)
      BY <2>1, SeqParts
    <2>3. target[h] \in Site /\ orig[h] \in Content
      BY <2>2 DEF TypeOK
    <2>4. /\ \/ code' = [code EXCEPT ![target[h]] = orig[h]]
             \/ code' = code
          /\ \/ stage' = [stage EXCEPT ![h] = "gone"]
             \/ stage' = [stage EXCEPT ![h] = "leaked"]
          /\ retired' = [retired EXCEPT ![h] = @ + 1] \/ retired' = retired
          /\ managed' = managed \ {h} \/ managed' = managed
          /\ installed' = [installed EXCEPT ![p] = Tail(installed[p])]
      BY <1>16 DEF dismantle
    <2> HIDE DEF h
    <2>5. code' \in [Site -> Content]
      BY <2>3, <2>4 DEF TypeOK
    <2>6. stage' \in [Hooks -> Stage]
      BY <2>4 DEF Stage, TypeOK
    <2>7. retired' \in [Hooks -> Nat] /\ managed' \in SUBSET Hooks
      <3>1. retired \in [Hooks -> Nat] /\ managed \in SUBSET Hooks
        BY DEF TypeOK
      <3>2. retired' \in [Hooks -> Nat]
        BY <2>2, <2>4, <3>1
      <3>3. managed' \in SUBSET Hooks
        BY <2>4, <3>1
      <3> QED
        BY <3>2, <3>3
    <2>8. installed' \in [Procs -> Seq(Hooks)]
      BY <2>1, <2>2, <2>4
    <2> QED
      BY <1>16, <2>5, <2>6, <2>7, <2>8 DEF dismantle, TypeOK
  <1>17. CASE commit_failed(p)
    <2>1. DropQueue(p)
      BY <1>17 DEF commit_failed
    <2>2. /\ stage' \in [Hooks -> Stage] /\ retired' \in [Hooks -> Nat]
          /\ queue' \in [Procs -> Seq(Ops)]
      BY <2>1, DropQueueType
    <2>3. before' \in [Procs -> [Site -> Content]]
      BY <1>17 DEF commit_failed, NoSnapshot, Content, TypeOK
    <2> QED
      BY <1>17, <2>2, <2>3 DEF commit_failed, ReleaseCode, TypeOK
  <1> QED
    BY <1>2, <1>3, <1>4, <1>5, <1>6, <1>7, <1>8, <1>9, <1>10, <1>11, <1>12,
       <1>13, <1>14, <1>15, <1>16, <1>17 DEF Commit

\* Enabling and disabling a hook.
LEMMA ToggleType ==
    ASSUME TypeOK, NEW p \in Procs, Toggle(p)
    PROVE  TypeOK'
  <1> USE DEF TypeOK, hookVars, regVars, lockVars, txVars, callVars
  <1>1. ASSUME NEW h \in Hooks, enable(p, h)
        PROVE  TypeOK'
    BY <1>1 DEF enable, Content
  <1>2. ASSUME NEW h \in Hooks, disable(p, h)
        PROVE  TypeOK'
    BY <1>2 DEF disable
  <1> QED
    BY <1>1, <1>2 DEF Toggle

\* Every step of unhook and drop.
LEMMA UnhookType ==
    ASSUME TypeOK, NEW p \in Procs, Unhook(p)
    PROVE  TypeOK'
  <1> USE DEF hookVars, regVars, lockVars, txVars, callVars,
              Goto, Pcs, HookPcs, AttachPcs, CommitPcs, CodePcs
  <1>1. ASSUME NEW h \in Hooks, unhook(p, h)
        PROVE  TypeOK'
    <2>1. code' \in [Site -> Content]
      <3>1. code' = [code EXCEPT ![target[h]] = orig[h]] \/ code' = code
        BY <1>1 DEF unhook
      <3>2. orig[h] \in Content
        BY DEF TypeOK
      <3> QED
        BY <3>1, <3>2 DEF TypeOK
    <2>2. /\ stage' \in [Hooks -> Stage] /\ codeOwner' \in Procs \cup {NoProc}
          /\ how' \in [Procs -> {"unhook", "drop"}]
      BY <1>1 DEF unhook, Stage, TypeOK
    <2>3. /\ pc' \in [Procs -> Pcs] /\ arg' \in [Procs -> Hooks \cup {NoHook}]
          /\ \A q \in Procs : pc'[q] \in HookPcs => arg'[q] \in Hooks
      BY <1>1 DEF unhook, TypeOK
    <2> QED
      BY <1>1, <2>1, <2>2, <2>3 DEF unhook, TypeOK
  <1>2. ASSUME NEW h \in Hooks, Drop(p, h)
        PROVE  TypeOK'
    BY <1>2 DEF Drop, Stage, TypeOK
  <1>3. CASE drop_write(p)
    <2>1. arg[p] \in Hooks
      BY <1>3 DEF drop_write, TypeOK
    <2>2. code' \in [Site -> Content]
      <3>1. \/ code' = [code EXCEPT ![target[arg[p]]] = orig[arg[p]]]
            \/ code' = code
        BY <1>3 DEF drop_write
      <3>2. orig[arg[p]] \in Content
        BY <2>1 DEF TypeOK
      <3> QED
        BY <3>1, <3>2 DEF TypeOK
    <2>3. stage' \in [Hooks -> Stage] /\ codeOwner' \in Procs \cup {NoProc}
      BY <1>3, <2>1 DEF drop_write, Stage, TypeOK
    <2>4. /\ pc' \in [Procs -> Pcs] /\ arg' \in [Procs -> Hooks \cup {NoHook}]
          /\ \A q \in Procs : pc'[q] \in HookPcs => arg'[q] \in Hooks
      <3>1. \/ pc' = [pc EXCEPT ![p] = "drop_release"] /\ arg' = arg
            \/ /\ pc' = [pc EXCEPT ![p] = "ready"]
               /\ arg' = [arg EXCEPT ![p] = NoHook]
        BY <1>3 DEF drop_write
      <3>2. CASE pc' = [pc EXCEPT ![p] = "drop_release"] /\ arg' = arg
        BY <2>1, <3>2 DEF TypeOK
      <3>3. CASE /\ pc' = [pc EXCEPT ![p] = "ready"]
                 /\ arg' = [arg EXCEPT ![p] = NoHook]
        BY <3>3 DEF TypeOK
      <3> QED
        BY <3>1, <3>2, <3>3
    <2> QED
      BY <1>3, <2>2, <2>3, <2>4 DEF drop_write, TypeOK
  <1>4. CASE drop_release(p)
    <2>1. arg[p] \in Hooks /\ Release(p, arg[p])
      BY <1>4 DEF drop_release, TypeOK
    <2>2. /\ published' \in [Hooks -> BOOLEAN] /\ livePatches' \in SUBSET Site
          /\ dependents' \in [Hooks -> Nat] /\ orphan' \in SUBSET Hooks
          /\ link' \in [Procs -> {"none", "alive", "orphan"}]
      BY <2>1, ReleaseType
    <2> QED
      BY <1>4, <2>1, <2>2 DEF drop_release, TypeOK
  <1>5. CASE drop_relink(p)
    <2>1. managed' \in SUBSET Hooks /\ retired' \in [Hooks -> Nat]
      BY <1>5, RelinkType DEF drop_relink
    <2>2. /\ pc' \in [Procs -> Pcs]
          /\ \A q \in Procs : pc'[q] \in HookPcs => arg[q] \in Hooks
      BY <1>5 DEF drop_relink, TypeOK
    <2> QED
      BY <1>5, <2>1, <2>2 DEF drop_relink, ReleaseCode, TypeOK
  <1>6. CASE drop_end(p)
    <2>1. arg[p] \in Hooks
      BY <1>6 DEF drop_end, TypeOK
    <2>2. orphan' \in SUBSET Hooks /\ retired' \in [Hooks -> Nat]
      BY <1>6, <2>1 DEF drop_end, TypeOK
    <2>3. stage' \in [Hooks -> Stage] /\ enabled' \in [Hooks -> BOOLEAN]
      BY <1>6, <2>1 DEF drop_end, Stage, TypeOK
    <2>4. /\ pc' \in [Procs -> Pcs] /\ arg' \in [Procs -> Hooks \cup {NoHook}]
          /\ \A q \in Procs : pc'[q] \in HookPcs => arg'[q] \in Hooks
      BY <1>6 DEF drop_end, TypeOK
    <2> QED
      BY <1>6, <2>2, <2>3, <2>4 DEF drop_end, ReleaseCode, TypeOK
  <1> QED
    BY <1>1, <1>2, <1>3, <1>4, <1>5, <1>6 DEF Unhook

\* Arming and removing an INT3 hook.
LEMMA Int3Type ==
    ASSUME TypeOK, NEW p \in Procs, Int3(p)
    PROVE  TypeOK'
  <1> USE DEF TypeOK, hookVars, regVars, lockVars, txVars, callVars, Content
  <1>1. ASSUME NEW s \in Int3Funcs, arm_int3(p, s)
        PROVE  TypeOK'
    BY <1>1, FuncsAssumption, Sites DEF arm_int3
  <1>2. ASSUME NEW s \in Int3Funcs, remove_int3(p, s)
        PROVE  TypeOK'
    BY <1>2, FuncsAssumption, Sites DEF remove_int3
  <1> QED
    BY <1>1, <1>2 DEF Int3

\* A step of no call at all.
LEMMA StutterType == TypeOK /\ UNCHANGED vars => TypeOK'
  BY DEF TypeOK, vars, hookVars, regVars, lockVars, txVars, callVars

\* A step that leaves the cursors alone and enters none of their loops.
LEMMA CursorKept ==
    ASSUME TypeOK, CursorOK, NEW p \in Procs, NEW l,
           l \notin {"com_publish", "com_undo_install", "com_relink"},
           pc' = pc \/ pc' = [pc EXCEPT ![p] = l],
           UNCHANGED <<idx, installed, detached>>
    PROVE  CursorOK'
  BY DEF TypeOK, CursorOK

\* The cursors of commit keep their bounds.
LEMMA CursorStep ==
    ASSUME TypeOK, CursorOK, NEW p \in Procs,
           Transaction(p) \/ Attach(p) \/ Commit(p) \/ Toggle(p) \/ Unhook(p)
               \/ Int3(p)
    PROVE  CursorOK'
  <1> USE DEF hookVars, regVars, lockVars, txVars, callVars, Goto
  <1>1. CASE Transaction(p) \/ Toggle(p) \/ Int3(p)
    BY <1>1 DEF Transaction, Begin, update_thread, abort, detach, Toggle, enable,
       disable, Int3, arm_int3, remove_int3, CursorOK
  <1>2. CASE Attach(p)
    <2>1. /\ \/ pc' = pc
             \/ \E l \in AttachPcs \cup {"ready"} : pc' = [pc EXCEPT ![p] = l]
          /\ UNCHANGED <<idx, installed, detached>>
      BY <1>2 DEF Attach, attach, attach_managed, attach_stub, attach_follow,
         attach_check, attach_relocate, attach_snapshot, Reject, AttachPcs
    <2> QED
      BY <2>1, CursorKept DEF AttachPcs
  <1>3. CASE Unhook(p)
    <2>1. /\ \E l \in {"ready", "drop_begin", "drop_release", "drop_relink",
                        "drop_end"} : pc' = [pc EXCEPT ![p] = l]
          /\ UNCHANGED <<idx, installed, detached>>
      BY <1>3 DEF Unhook, unhook, Drop, drop_write, drop_release, drop_relink,
         drop_end
    <2> QED
      BY <2>1, CursorKept
  <1>4. CASE Commit(p)
    <2>1. CASE commit(p) \/ commit_lock(p) \/ commit_fail(p) \/ commit_done(p)
                \/ rollback_done(p) \/ commit_failed(p)
      <3>1. /\ \E l \in {"ready", "com_code", "com_install", "com_undo_detach",
                          "com_dismantle"} : pc' = [pc EXCEPT ![p] = l]
            /\ UNCHANGED <<idx, installed, detached>>
        BY <2>1 DEF commit, commit_lock, commit_fail, commit_done,
           rollback_done, commit_failed, CommitFails
      <3> QED
        BY <3>1, CursorKept
    <2>2. CASE commit_install(p)
      <3>1. PICK h \in Hooks : install_inline(p, h) \/ prepare_detach(p, h)
        BY <2>2 DEF commit_install
      <3>2. /\ pc[p] = "com_install" /\ pc' = pc /\ idx' = idx
            /\ \A q \in Procs \ {p} : installed'[q] = installed[q]
                                      /\ detached'[q] = detached[q]
        BY <2>2, <3>1 DEF commit_install, install_inline, prepare_detach, TypeOK
      <3> QED
        BY <3>2 DEF CursorOK
    <2>3. CASE commit_applied(p)
      <3>1. /\ pc' = [pc EXCEPT ![p] = "com_publish"]
            /\ idx' = [idx EXCEPT ![p] = 1]
            /\ installed' = installed /\ detached' = detached
        BY <2>3 DEF commit_applied
      <3> QED
        BY <3>1 DEF CursorOK, TypeOK
    <2>11. CASE rollback_start(p)
      <3>1. /\ pc' = [pc EXCEPT ![p] = "com_undo_install"]
            /\ idx' = [idx EXCEPT ![p] = Len(installed[p])]
            /\ installed' = installed /\ detached' = detached
        BY <2>11 DEF rollback_start
      <3>2. Len(installed[p]) \in Nat
        BY DEF TypeOK
      <3> QED
        BY <3>1, <3>2 DEF CursorOK, TypeOK
    <2>4. CASE publish(p)
      BY <2>4 DEF publish, CursorOK, TypeOK
    <2>5. CASE commit_published(p)
      BY <2>5 DEF commit_published, CursorOK, TypeOK
    <2>6. CASE detach_finalize(p)
      <3>1. /\ pc' = [pc EXCEPT ![p] = "com_relink"] /\ detached[p] # << >>
            /\ UNCHANGED <<idx, installed, detached>>
        BY <2>6 DEF detach_finalize
      <3> QED
        BY <3>1 DEF CursorOK, TypeOK
    <2>7. CASE detach_relink(p)
      <3>1. /\ pc' = [pc EXCEPT ![p] = "com_finalize"]
            /\ idx' = idx /\ installed' = installed
            /\ \A q \in Procs \ {p} : detached'[q] = detached[q]
        BY <2>7 DEF detach_relink, TypeOK
      <3> QED
        BY <3>1 DEF CursorOK, TypeOK
    <2>8. CASE rollback_detaches(p)
      <3>1. /\ pc[p] = "com_undo_detach" /\ pc' = pc
            /\ idx' = idx /\ installed' = installed
            /\ \A q \in Procs \ {p} : detached'[q] = detached[q]
        BY <2>8 DEF rollback_detaches, TypeOK
      <3> QED
        BY <3>1 DEF CursorOK, TypeOK
    <2>9. CASE rollback(p)
      <3>1. /\ pc' = pc /\ pc[p] = "com_undo_install" /\ idx[p] > 0
            /\ idx' = [idx EXCEPT ![p] = @ - 1]
            /\ installed' = installed /\ detached' = detached
        BY <2>9 DEF rollback
      <3> QED
        BY <3>1 DEF CursorOK, TypeOK
    <2>10. CASE dismantle(p)
      <3>1. /\ pc[p] = "com_dismantle" /\ pc' = pc
            /\ idx' = idx /\ detached' = detached
            /\ \A q \in Procs \ {p} : installed'[q] = installed[q]
        BY <2>10 DEF dismantle, TypeOK
      <3> QED
        BY <3>1 DEF CursorOK, TypeOK
    <2> QED
      BY <1>4, <2>1, <2>2, <2>3, <2>4, <2>5, <2>6, <2>7, <2>8, <2>9, <2>10,
         <2>11 DEF Commit
  <1> QED
    BY <1>1, <1>2, <1>3, <1>4

-----------------------------------------------------------------------------
(***************************************************************************)
(* Published ranges are disjoint                                           *)
(*                                                                         *)
(* The overlap check a commit relies on is made when it starts, before it  *)
(* holds the code lock, against the ranges published by then.  It still    *)
(* holds when the last hook is published because                           *)
(*   - only the holder of the transaction lock publishes (TxHeld);         *)
(*   - a hook's target is settled before anything else happens to the hook *)
(*     (NotEarly), and the thread that is still settling it owns the hook  *)
(*     (Builders);                                                         *)
(*   - a commit starts with no hooks left over from an earlier one         *)
(*     (InstalledInCommit).                                                *)
(***************************************************************************)
Elements(s) == {s[i] : i \in 1 .. Len(s)}

\* The target of the hook may still change.
Early(h) == stage[h] \in {"none", "building"}

\* The hooks thread p has queued, and those its commit has taken from the
\* queue.
InQueue(p, h) == \E o \in Elements(queue[p]) : o.hook = h
InInstalled(p, h) == h \in Elements(installed[p])
InDetached(p, h) == \E d \in Elements(detached[p]) : d.hook = h

\* A hook under construction belongs to one thread.
Builders ==
    \A p \in Procs : pc[p] \in AttachPcs =>
        /\ stage[arg[p]] = "building"
        /\ \A q \in Procs : q # p /\ pc[q] \in AttachPcs => arg[q] # arg[p]

\* Everything that is done with a hook is done after attach has returned.
NotEarly ==
    /\ \A p \in Procs :
          /\ \A h \in Hooks : InQueue(p, h) \/ InInstalled(p, h) \/ InDetached(p, h)
                                => ~Early(h)
          /\ pc[p] \in HookPcs \ AttachPcs => ~Early(arg[p])
    /\ \A h \in Hooks : published[h] => ~Early(h)

\* The patch phase runs under the transaction lock.
TxHeld == \A p \in Procs : pc[p] \in CommitPcs => txOwner = p

\* Hooks are in the hands of a commit only while its patch phase runs.
PatchPcs == {"com_install", "com_publish", "com_undo_detach",
             "com_undo_install", "com_dismantle"}
InstalledInCommit ==
    \A p \in Procs : pc[p] \notin PatchPcs => installed[p] = << >>

\* The hooks the commit of p has to install or to publish.
Todo(p, h) == h \in Queued(p) \/ InInstalled(p, h)

\* They overlap neither each other nor a published hook.
CommitClear ==
    \A p \in Procs : pc[p] \in CommitPcs =>
        \A g, h \in Hooks :
            /\ g # h /\ Todo(p, h)
            /\ Todo(p, g) \/ published[g]
            => ~Overlaps(target[g], target[h])

\* The elements of a sequence that is extended or taken apart.
LEMMA ElementsOf ==
    ASSUME NEW S, NEW s \in Seq(S)
    PROVE  /\ Elements(s) \subseteq S
           /\ \A i \in 1 .. Len(s) : s[i] \in Elements(s)
           /\ \A x \in S : Elements(Append(s, x)) = Elements(s) \cup {x}
           /\ s # << >> =>
                 /\ Head(s) \in Elements(s)
                 /\ Elements(Tail(s)) \subseteq Elements(s)
                 /\ s[Len(s)] \in Elements(s)
                 /\ Elements(SubSeq(s, 1, Len(s) - 1)) \subseteq Elements(s)
           /\ Elements(<< >>) = {}
  <1>1. Elements(s) \subseteq S /\ \A i \in 1 .. Len(s) : s[i] \in Elements(s)
    BY DEF Elements
  <1>2. ASSUME NEW x \in S
        PROVE  Elements(Append(s, x)) = Elements(s) \cup {x}
    <2>1. /\ Len(Append(s, x)) = Len(s) + 1
          /\ \A i \in 1 .. Len(s) : Append(s, x)[i] = s[i]
          /\ Append(s, x)[Len(s) + 1] = x
          /\ Len(s) \in Nat
      OBVIOUS
    <2> QED
      BY <2>1 DEF Elements
  <1>3. ASSUME s # << >>
        PROVE  /\ Head(s) \in Elements(s)
               /\ s[Len(s)] \in Elements(s)
    <2>1. Len(s) \in 1 .. Len(s) /\ 1 \in 1 .. Len(s) /\ Head(s) = s[1]
      BY <1>3
    <2> QED
      BY <2>1 DEF Elements
  <1>4. ASSUME s # << >>
        PROVE  Elements(Tail(s)) \subseteq Elements(s)
    <2>1. ASSUME NEW i \in 1 .. Len(Tail(s))
          PROVE  Tail(s)[i] = s[i + 1] /\ i + 1 \in 1 .. Len(s)
      BY <1>4, <2>1
    <2> QED
      BY <2>1 DEF Elements
  <1>5. ASSUME s # << >>
        PROVE  Elements(SubSeq(s, 1, Len(s) - 1)) \subseteq Elements(s)
    <2> DEFINE t == SubSeq(s, 1, Len(s) - 1)
    <2>1. ASSUME NEW i \in 1 .. Len(t)
          PROVE  t[i] = s[i] /\ i \in 1 .. Len(s)
      BY <1>5, <2>1
    <2> QED
      BY <2>1 DEF Elements
  <1>6. Elements(<< >>) = {}
    BY DEF Elements
  <1> QED
    BY <1>1, <1>2, <1>3, <1>4, <1>5, <1>6

\* Queued(p) read off the elements of the queue.
LEMMA QueuedElements ==
    ASSUME NEW p \in Procs
    PROVE  /\ \A h \in Hooks : h \in Queued(p) <=>
                  [op |-> "attach", hook |-> h] \in Elements(queue[p])
           /\ \A h \in Hooks : h \in Queued(p) => InQueue(p, h)
  <1>1. \A h \in Hooks : h \in Queued(p) <=>
            [op |-> "attach", hook |-> h] \in Elements(queue[p])
    BY DEF Queued, Elements
  <1>2. ASSUME NEW h \in Hooks, h \in Queued(p)
        PROVE  InQueue(p, h)
    <2>1. [op |-> "attach", hook |-> h] \in Elements(queue[p])
      BY <1>1, <1>2
    <2> QED
      BY <2>1 DEF InQueue
  <1> QED
    BY <1>1, <1>2

-----------------------------------------------------------------------------
(***************************************************************************)
(* Hooks under construction: Builders and NotEarly                         *)
(***************************************************************************)

\* What a step of p that is not part of attach does to the others' hooks.
Kept(p) ==
    /\ \A h \in Hooks : /\ Early(h) => stage'[h] = stage[h]
                        /\ ~Early(h) => ~Early(h)'
    /\ \A q \in Procs \ {p} :
          /\ pc'[q] = pc[q] /\ arg'[q] = arg[q] /\ queue'[q] = queue[q]
          /\ installed'[q] = installed[q] /\ detached'[q] = detached[q]

\* And to its own: it takes hold of settled hooks only.
Settled(p) ==
    /\ pc'[p] \notin AttachPcs
    /\ pc'[p] \in HookPcs => arg'[p] \in Hooks /\ ~Early(arg'[p])
    /\ \A h \in Hooks : InQueue(p, h)' \/ InInstalled(p, h)' \/ InDetached(p, h)'
                          => ~Early(h)
    /\ \A h \in Hooks : published'[h] => ~Early(h)

\* Such a step preserves both.
LEMMA SettledStep ==
    ASSUME TypeOK, Builders, NotEarly, NEW p \in Procs, Kept(p), Settled(p)
    PROVE  Builders' /\ NotEarly'
  <1>1. Builders'
    <2> SUFFICES ASSUME NEW q \in Procs, pc'[q] \in AttachPcs
                 PROVE  /\ stage'[arg'[q]] = "building"
                        /\ \A r \in Procs : r # q /\ pc'[r] \in AttachPcs
                                             => arg'[r] # arg'[q]
      BY DEF Builders
    <2>1. q # p /\ pc[q] \in AttachPcs /\ arg'[q] = arg[q]
      BY DEF Kept, Settled
    <2>2. stage[arg[q]] = "building" /\ arg[q] \in Hooks
      BY <2>1 DEF Builders, TypeOK, HookPcs
    <2>3. stage'[arg'[q]] = "building"
      BY <2>1, <2>2 DEF Kept, Early
    <2>4. ASSUME NEW r \in Procs, r # q, pc'[r] \in AttachPcs
          PROVE  arg'[r] # arg'[q]
      <3>1. r # p /\ pc[r] \in AttachPcs /\ arg'[r] = arg[r]
        BY <2>4 DEF Kept, Settled
      <3> QED
        BY <2>1, <2>4, <3>1 DEF Builders
    <2> QED
      BY <2>3, <2>4
  <1>2. ASSUME NEW q \in Procs, NEW h \in Hooks,
               InQueue(q, h)' \/ InInstalled(q, h)' \/ InDetached(q, h)'
        PROVE  ~Early(h)'
    <2>1. ~Early(h)
      <3>1. CASE q = p
        BY <1>2, <3>1 DEF Settled
      <3>2. CASE q # p
        <4>1. InQueue(q, h) \/ InInstalled(q, h) \/ InDetached(q, h)
          BY <1>2, <3>2 DEF Kept, InQueue, InInstalled, InDetached
        <4> QED
          BY <4>1 DEF NotEarly
      <3> QED
        BY <3>1, <3>2
    <2> QED
      BY <2>1 DEF Kept
  <1>3. ASSUME NEW q \in Procs, pc'[q] \in HookPcs \ AttachPcs
        PROVE  ~Early(arg[q])'
    <2>1. ~Early(arg'[q]) /\ arg'[q] \in Hooks
      BY <1>3 DEF Settled, Kept, NotEarly, TypeOK
    <2> QED
      BY <2>1 DEF Kept, Early
  <1>4. ASSUME NEW h \in Hooks, published'[h]
        PROVE  ~Early(h)'
    BY <1>4 DEF Settled, Kept
  <1>5. NotEarly'
    BY <1>2, <1>3, <1>4 DEF NotEarly, Early
  <1> QED
    BY <1>1, <1>5

\* Steps that hand no hook around.
LEMMA QuietStep ==
    ASSUME TypeOK, Builders, NotEarly, NEW p \in Procs, NEW l,
           pc' = [pc EXCEPT ![p] = l], l \notin HookPcs,
           UNCHANGED <<stage, queue, installed, detached, published, arg>>
    PROVE  Builders' /\ NotEarly'
  <1>1. Kept(p)
    BY DEF Kept, Early, TypeOK
  <1>2. Settled(p)
    <2>1. pc'[p] \notin HookPcs /\ pc'[p] \notin AttachPcs
      BY DEF TypeOK, HookPcs
    <2>2. ASSUME NEW h \in Hooks,
                 InQueue(p, h)' \/ InInstalled(p, h)' \/ InDetached(p, h)'
          PROVE  ~Early(h)
      <3>1. InQueue(p, h) \/ InInstalled(p, h) \/ InDetached(p, h)
        BY <2>2 DEF InQueue, InInstalled, InDetached
      <3> QED
        BY <3>1 DEF NotEarly
    <2> QED
      BY <2>1, <2>2 DEF Settled, NotEarly
  <1> QED
    BY <1>1, <1>2, SettledStep

\* Dropping a queue ends hooks that attach has finished with.
LEMMA DropQueueSettled ==
    ASSUME TypeOK, Builders, NotEarly, NEW p \in Procs, DropQueue(p),
           pc' = [pc EXCEPT ![p] = "ready"],
           UNCHANGED <<installed, detached, published, arg>>
    PROVE  Builders' /\ NotEarly'
  <1>1. ASSUME NEW h \in Hooks, stage'[h] # stage[h]
        PROVE  ~Early(h) /\ ~Early(h)'
    <2>1. ASSUME NEW op \in {"attach", "detach"}, NEW i \in 1 .. Len(queue[p]),
                 queue[p][i] = [op |-> op, hook |-> h]
          PROVE  InQueue(p, h)
      <3>1. queue[p][i] \in Elements(queue[p])
        BY DEF Elements
      <3> QED
        BY <2>1, <3>1 DEF InQueue
    <2>2. InQueue(p, h)
      BY <1>1, <2>1 DEF DropQueue, Queued
    <2>3. stage'[h] \in {"gone", "guard"}
      BY <1>1 DEF DropQueue
    <2> QED
      BY <2>2, <2>3 DEF NotEarly, Early
  <1>2. Kept(p)
    <2>1. ASSUME NEW h \in Hooks
          PROVE  /\ Early(h) => stage'[h] = stage[h]
                 /\ ~Early(h) => ~Early(h)'
      BY <1>1 DEF Early
    <2>2. \A q \in Procs \ {p} : queue'[q] = queue[q]
      BY DEF DropQueue, TypeOK
    <2> QED
      BY <2>1, <2>2 DEF Kept, TypeOK
  <1>3. Settled(p)
    <2>1. pc'[p] \notin HookPcs /\ pc'[p] \notin AttachPcs
      BY DEF TypeOK, HookPcs, AttachPcs
    <2>2. queue'[p] = << >>
      BY DEF DropQueue, TypeOK
    <2>3. ASSUME NEW h \in Hooks,
                 InQueue(p, h)' \/ InInstalled(p, h)' \/ InDetached(p, h)'
          PROVE  ~Early(h)
      <3>1. ~InQueue(p, h)'
        BY <2>2 DEF InQueue, Elements
      <3>2. InInstalled(p, h) \/ InDetached(p, h)
        BY <2>3, <3>1 DEF InInstalled, InDetached
      <3> QED
        BY <3>2 DEF NotEarly
    <2> QED
      BY <2>1, <2>3 DEF Settled, NotEarly
  <1> QED
    BY <1>2, <1>3, SettledStep

\* A step of p that changes at most the stage of one settled hook h, takes hold
\* of nothing but h, and lets go of any hooks.
LEMMA OneHookStep ==
    ASSUME TypeOK, Builders, NotEarly, NEW p \in Procs, NEW h \in Hooks,
           ~Early(h),
           NEW new \in Stage \ {"none", "building"}, NEW l,
           l \notin AttachPcs,
           stage' = stage \/ stage' = [stage EXCEPT ![h] = new],
           pc' = [pc EXCEPT ![p] = l],
           l \in HookPcs => arg'[p] = h,
           \A q \in Procs \ {p} :
               /\ arg'[q] = arg[q] /\ queue'[q] = queue[q]
               /\ installed'[q] = installed[q] /\ detached'[q] = detached[q],
           \A o \in Elements(queue'[p]) : o \in Elements(queue[p]) \/ o.hook = h,
           \A g \in Elements(installed'[p]) : g \in Elements(installed[p]) \/ g = h,
           \A d \in Elements(detached'[p]) :
               d \in Elements(detached[p]) \/ d.hook = h,
           \A g \in Hooks : published'[g] => published[g] \/ g = h
    PROVE  Builders' /\ NotEarly'
  <1>1. Kept(p)
    <2>1. ASSUME NEW g \in Hooks
          PROVE  /\ Early(g) => stage'[g] = stage[g]
                 /\ ~Early(g) => ~Early(g)'
      BY DEF Early, TypeOK
    <2>2. \A q \in Procs \ {p} : pc'[q] = pc[q]
      BY DEF TypeOK
    <2> QED
      BY <2>1, <2>2 DEF Kept
  <1>2. Settled(p)
    <2>1. pc'[p] = l
      BY DEF TypeOK
    <2>2. ASSUME NEW g \in Hooks,
                 InQueue(p, g)' \/ InInstalled(p, g)' \/ InDetached(p, g)'
          PROVE  ~Early(g)
      <3>1. g = h \/ InQueue(p, g) \/ InInstalled(p, g) \/ InDetached(p, g)
        BY <2>2 DEF InQueue, InInstalled, InDetached
      <3> QED
        BY <3>1 DEF NotEarly
    <2> QED
      BY <2>1, <2>2 DEF Settled, NotEarly
  <1> QED
    BY <1>1, <1>2, SettledStep

\* attach owns the hook it builds until it queues or forgets it.
LEMMA AttachSettled ==
    ASSUME TypeOK, Builders, NotEarly, NEW p \in Procs, Attach(p)
    PROVE  Builders' /\ NotEarly'
  <1> USE DEF hookVars, regVars, lockVars, txVars, callVars, Goto
  \* Everybody else keeps what he has.
  <1>1. ASSUME NEW h \in Hooks, Early(h),
               NEW new \in Stage \ {"building"}, NEW l,
               stage[h] = "none" \/ (pc[p] \in AttachPcs /\ arg[p] = h),
               stage' = [stage EXCEPT ![h] = new],
               pc' = [pc EXCEPT ![p] = l], l \notin HookPcs,
               \A q \in Procs \ {p} : arg'[q] = arg[q] /\ queue'[q] = queue[q],
               \A o \in Elements(queue'[p]) :
                   o \in Elements(queue[p]) \/ (o.hook = h /\ new = "queued"),
               UNCHANGED <<installed, detached, published>>
        PROVE  Builders' /\ NotEarly'
    <2>1. pc'[p] = l /\ \A q \in Procs \ {p} : pc'[q] = pc[q]
      BY <1>1 DEF TypeOK
    <2>2. p \in Procs /\ pc'[p] \notin AttachPcs
      BY <1>1, <2>1 DEF HookPcs
    <2>3. ASSUME NEW g \in Hooks, ~Early(g)
          PROVE  ~Early(g)'
      BY <1>1, <2>3 DEF Early, TypeOK
    <2>4. Builders'
      <3> SUFFICES ASSUME NEW q \in Procs, pc'[q] \in AttachPcs
                   PROVE  /\ stage'[arg'[q]] = "building"
                          /\ \A r \in Procs : r # q /\ pc'[r] \in AttachPcs
                                               => arg'[r] # arg'[q]
        BY DEF Builders
      <3>1. q # p /\ pc[q] \in AttachPcs /\ arg'[q] = arg[q]
        BY <1>1, <2>1, <2>2
      <3>2. stage[arg[q]] = "building" /\ arg[q] # h
        BY <1>1, <3>1 DEF Builders
      <3>3. stage'[arg'[q]] = "building"
        BY <1>1, <3>1, <3>2 DEF TypeOK, HookPcs
      <3>4. ASSUME NEW r \in Procs, r # q, pc'[r] \in AttachPcs
            PROVE  arg'[r] # arg'[q]
        BY <1>1, <2>1, <2>2, <3>1, <3>4 DEF Builders
      <3> QED
        BY <3>3, <3>4
    <2>5. ASSUME NEW q \in Procs, NEW g \in Hooks,
                 InQueue(q, g)' \/ InInstalled(q, g)' \/ InDetached(q, g)'
          PROVE  ~Early(g)'
      <3>1. CASE InQueue(q, g) \/ InInstalled(q, g) \/ InDetached(q, g)
        BY <2>3, <3>1 DEF NotEarly
      <3>2. CASE ~(InQueue(q, g) \/ InInstalled(q, g) \/ InDetached(q, g))
        <4>1. q = p /\ g = h /\ new = "queued"
          BY <1>1, <2>5, <3>2 DEF InQueue, InInstalled, InDetached
        <4> QED
          BY <1>1, <4>1 DEF Early, TypeOK
      <3> QED
        BY <3>1, <3>2
    <2>6. ASSUME NEW q \in Procs, pc'[q] \in HookPcs \ AttachPcs
          PROVE  ~Early(arg[q])'
      <3>1. /\ q # p /\ pc[q] \in HookPcs \ AttachPcs /\ arg'[q] = arg[q]
            /\ arg[q] \in Hooks
        BY <1>1, <2>1, <2>6 DEF TypeOK
      <3> QED
        BY <2>3, <3>1 DEF NotEarly, Early
    <2>7. ASSUME NEW g \in Hooks, published'[g]
          PROVE  ~Early(g)'
      BY <1>1, <2>3, <2>7 DEF NotEarly
    <2>8. NotEarly'
      BY <2>5, <2>6, <2>7 DEF NotEarly, Early
    <2> QED
      BY <2>4, <2>8
  <1>2. ASSUME pc[p] \in AttachPcs, Reject(p)
        PROVE  Builders' /\ NotEarly'
    <2>1. arg[p] \in Hooks /\ Early(arg[p])
      BY <1>2 DEF Builders, Early, TypeOK, HookPcs
    <2>2. /\ "none" \in Stage \ {"building"}
          /\ "ready" \notin HookPcs
          /\ stage' = [stage EXCEPT ![arg[p]] = "none"]
          /\ pc' = [pc EXCEPT ![p] = "ready"]
          /\ \A q \in Procs \ {p} : arg'[q] = arg[q] /\ queue'[q] = queue[q]
          /\ queue' = queue
          /\ UNCHANGED <<installed, detached, published>>
      BY <1>2 DEF Reject, TypeOK, Stage, HookPcs, AttachPcs
    <2> QED
      BY <1>1, <1>2, <2>1, <2>2
  \* Steps inside attach.
  <1>3. ASSUME NEW l \in AttachPcs, pc[p] \in AttachPcs,
               pc' = [pc EXCEPT ![p] = l] \/ pc' = pc,
               UNCHANGED <<stage, queue, installed, detached, published, arg>>
        PROVE  Builders' /\ NotEarly'
    <2>1. ASSUME NEW q \in Procs
          PROVE  /\ pc'[q] \in AttachPcs => pc[q] \in AttachPcs
                 /\ pc'[q] \in HookPcs \ AttachPcs =>
                       pc[q] \in HookPcs \ AttachPcs
      <3>1. CASE q = p
        BY <1>3, <3>1 DEF TypeOK
      <3>2. CASE q # p
        BY <1>3, <3>2 DEF TypeOK
      <3> QED
        BY <3>1, <3>2
    <2>2. stage' = stage /\ arg' = arg /\ published' = published
      BY <1>3
    <2>3. Builders'
      BY <2>1, <2>2 DEF Builders
    <2>4. \A q \in Procs, h \in Hooks :
              InQueue(q, h)' \/ InInstalled(q, h)' \/ InDetached(q, h)' => ~Early(h)'
      BY <1>3 DEF NotEarly, InQueue, InInstalled, InDetached, Early
    <2>5. NotEarly'
      BY <2>1, <2>2, <2>4 DEF NotEarly, Early
    <2> QED
      BY <2>3, <2>5
  <1>4. ASSUME NEW h \in Hooks, NEW s \in Funcs \cup Gateways,
               NEW follow \in BOOLEAN, attach(p, h, s, follow)
        PROVE  Builders' /\ NotEarly'
    <2>1. PICK l \in AttachPcs : pc' = [pc EXCEPT ![p] = l]
      BY <1>4 DEF attach, AttachPcs
    <2>2. /\ pc[p] = "ready" /\ stage[h] = "none"
          /\ stage' = [stage EXCEPT ![h] = "building"]
          /\ arg' = [arg EXCEPT ![p] = h]
          /\ UNCHANGED <<queue, installed, detached, published>>
      BY <1>4 DEF attach
    <2>3. /\ pc'[p] = l /\ arg'[p] = h
          /\ \A q \in Procs \ {p} : pc'[q] = pc[q] /\ arg'[q] = arg[q]
          /\ stage'[h] = "building"
          /\ \A g \in Hooks \ {h} : stage'[g] = stage[g]
      BY <2>1, <2>2 DEF TypeOK
    <2>4. Builders'
      <3>1. ASSUME NEW q \in Procs, q # p, pc'[q] \in AttachPcs
            PROVE  stage'[arg'[q]] = "building" /\ arg'[q] # h
        <4>1. /\ pc[q] \in AttachPcs /\ arg'[q] = arg[q]
              /\ stage[arg[q]] = "building" /\ arg[q] \in Hooks
          BY <2>3, <3>1 DEF Builders, TypeOK, HookPcs
        <4> QED
          BY <2>2, <2>3, <4>1
      <3>2. ASSUME NEW q \in Procs, NEW r \in Procs, r # q, q # p, r # p,
                   pc'[q] \in AttachPcs, pc'[r] \in AttachPcs
            PROVE  arg'[q] # arg'[r]
        BY <2>3, <3>2 DEF Builders
      <3> QED
        BY <2>3, <3>1, <3>2 DEF Builders
    <2>5. \A g \in Hooks : ~Early(g) => ~Early(g)'
      BY <2>2, <2>3 DEF Early
    <2>6. \A q \in Procs : pc'[q] \in HookPcs \ AttachPcs =>
              /\ pc[q] \in HookPcs \ AttachPcs /\ arg'[q] = arg[q]
              /\ arg[q] \in Hooks
      BY <2>1, <2>3 DEF TypeOK
    <2>7. NotEarly'
      <3>1. ASSUME NEW q \in Procs, NEW g \in Hooks,
                   InQueue(q, g)' \/ InInstalled(q, g)' \/ InDetached(q, g)'
            PROVE  ~Early(g)'
        <4>1. InQueue(q, g) \/ InInstalled(q, g) \/ InDetached(q, g)
          BY <2>2, <3>1 DEF InQueue, InInstalled, InDetached
        <4> QED
          BY <2>5, <4>1 DEF NotEarly
      <3>2. ASSUME NEW q \in Procs, pc'[q] \in HookPcs \ AttachPcs
            PROVE  ~Early(arg[q])'
        BY <2>5, <2>6, <3>2 DEF NotEarly, Early
      <3>3. ASSUME NEW g \in Hooks, published'[g]
            PROVE  ~Early(g)'
        BY <2>2, <2>5, <3>3 DEF NotEarly
      <3> QED
        BY <3>1, <3>2, <3>3 DEF NotEarly
    <2> QED
      BY <2>4, <2>7
  <1>5. CASE attach_managed(p) \/ attach_stub(p) \/ attach_check(p)
    <2>1. pc[p] \in AttachPcs
      BY <1>5 DEF attach_managed, attach_stub, attach_check, AttachPcs
    <2>2. CASE Reject(p)
      BY <1>2, <2>1, <2>2
    <2>3. CASE ~Reject(p)
      <3>1. /\ \E l \in AttachPcs : pc' = [pc EXCEPT ![p] = l]
            /\ UNCHANGED <<stage, queue, installed, detached, published, arg>>
        BY <1>5, <2>3 DEF attach_managed, attach_stub, attach_check, AttachPcs
      <3> QED
        BY <1>3, <2>1, <3>1
    <2> QED
      BY <2>2, <2>3
  <1>6. CASE attach_follow(p) \/ attach_relocate(p)
    <2>1. /\ pc[p] \in AttachPcs
          /\ \E l \in AttachPcs : pc' = [pc EXCEPT ![p] = l] \/ pc' = pc
          /\ UNCHANGED <<stage, queue, installed, detached, published, arg>>
      BY <1>6 DEF attach_follow, attach_relocate, AttachPcs
    <2> QED
      BY <1>3, <2>1
  <1>7. CASE attach_snapshot(p)
    <2> DEFINE h == arg[p]
               o == [op |-> "attach", hook |-> h]
    <2>1. pc[p] \in AttachPcs /\ h \in Hooks /\ Early(h)
      BY <1>7 DEF attach_snapshot, Builders, Early, TypeOK, HookPcs, AttachPcs
    <2>2. Elements(Append(queue[p], o)) = Elements(queue[p]) \cup {o}
      <3>1. o \in Ops /\ queue[p] \in Seq(Ops)
        BY <2>1 DEF Ops, TypeOK
      <3> QED
        BY <3>1, ElementsOf
    <2>3. /\ "queued" \in Stage \ {"building"}
          /\ "ready" \notin HookPcs
          /\ stage' = [stage EXCEPT ![h] = "queued"]
          /\ pc' = [pc EXCEPT ![p] = "ready"]
          /\ \A q \in Procs \ {p} : arg'[q] = arg[q] /\ queue'[q] = queue[q]
          /\ queue'[p] = Append(queue[p], o)
          /\ UNCHANGED <<installed, detached, published>>
      BY <1>7 DEF attach_snapshot, TypeOK, Stage, HookPcs, AttachPcs
    <2>4. \A x \in Elements(queue'[p]) :
              x \in Elements(queue[p]) \/ x.hook = h
      BY <2>2, <2>3
    <2> QED
      BY <1>1, <2>1, <2>3, <2>4
  <1> QED
    BY <1>4, <1>5, <1>6, <1>7, Attach(p) DEF Attach

\* Every step of a commit.
LEMMA CommitSettled ==
    ASSUME TypeOK, CursorOK, Builders, NotEarly, NEW p \in Procs, Commit(p)
    PROVE  Builders' /\ NotEarly'
  <1> USE DEF hookVars, regVars, lockVars, txVars, callVars, Goto
  <1> DEFINE Detached == [hook : Hooks, was : BOOLEAN]
  <1>1. ASSUME CommitFails(p), UNCHANGED <<installed, detached, published, arg>>
        PROVE  Builders' /\ NotEarly'
    <2>1. DropQueue(p) /\ pc' = [pc EXCEPT ![p] = "ready"]
      BY <1>1 DEF CommitFails
    <2> QED
      BY <1>1, <2>1, DropQueueSettled
  <1>2. CASE commit(p)
    <2>1. UNCHANGED <<installed, detached, published, arg>>
      BY <1>2 DEF commit
    <2>2. CASE CommitFails(p)
      BY <1>1, <2>1, <2>2
    <2>3. CASE ~CommitFails(p)
      <3>1. pc' = [pc EXCEPT ![p] = "com_code"] /\ UNCHANGED <<stage, queue>>
        BY <1>2, <2>3 DEF commit
      <3>2. "com_code" \notin HookPcs
        BY DEF HookPcs, AttachPcs
      <3> QED
        BY <2>1, <3>1, <3>2, QuietStep
    <2> QED
      BY <2>2, <2>3
  <1>3. CASE commit_lock(p)
    <2>1. UNCHANGED <<installed, detached, published, arg>>
      BY <1>3 DEF commit_lock
    <2>2. CASE CommitFails(p)
      BY <1>1, <2>1, <2>2
    <2>3. CASE ~CommitFails(p)
      <3>1. pc' = [pc EXCEPT ![p] = "com_install"] /\ UNCHANGED <<stage, queue>>
        BY <1>3, <2>3 DEF commit_lock
      <3>2. "com_install" \notin HookPcs
        BY DEF HookPcs, AttachPcs
      <3> QED
        BY <2>1, <3>1, <3>2, QuietStep
    <2> QED
      BY <2>2, <2>3
  <1>4. CASE commit_fail(p) \/ commit_applied(p) \/ commit_done(p)
              \/ rollback_start(p) \/ rollback_done(p)
    <2>1. /\ \E l \in {"com_undo_detach", "com_publish", "ready",
                        "com_undo_install", "com_dismantle"} :
                 pc' = [pc EXCEPT ![p] = l]
          /\ UNCHANGED <<stage, queue, installed, detached, published, arg>>
      BY <1>4 DEF commit_fail, commit_applied, commit_done, rollback_start,
         rollback_done
    <2>2. \A l \in {"com_undo_detach", "com_publish", "ready",
                    "com_undo_install", "com_dismantle"} : l \notin HookPcs
      BY DEF HookPcs, AttachPcs
    <2> QED
      BY <2>1, <2>2, QuietStep
  <1>5. CASE rollback(p)
    <2>1. /\ pc' = [pc EXCEPT ![p] = "com_undo_install"]
          /\ UNCHANGED <<stage, queue, installed, detached, published, arg>>
      BY <1>5 DEF rollback, TypeOK
    <2>2. "com_undo_install" \notin HookPcs
      BY DEF HookPcs, AttachPcs
    <2> QED
      BY <2>1, <2>2, QuietStep
  <1>6. CASE commit_failed(p)
    BY <1>6, DropQueueSettled DEF commit_failed
  <1>7. CASE commit_install(p)
    <2>1. PICK h \in Hooks : install_inline(p, h) \/ prepare_detach(p, h)
      BY <1>7 DEF commit_install
    <2>2. /\ queue[p] \in Seq(Ops) /\ installed[p] \in Seq(Hooks)
          /\ detached[p] \in Seq(Detached) /\ queue[p] # << >>
      BY <1>7 DEF commit_install, TypeOK
    <2>3. ~Early(h)
      <3>1. Head(queue[p]) \in Elements(queue[p]) /\ Head(queue[p]).hook = h
        BY <2>1, <2>2, ElementsOf DEF install_inline, prepare_detach
      <3> QED
        BY <3>1 DEF NotEarly, InQueue
    <2>4. /\ queue'[p] = Tail(queue[p])
          /\ installed'[p] = installed[p] \/ installed'[p] = Append(installed[p], h)
          /\ \/ detached'[p] = detached[p]
             \/ detached'[p] = Append(detached[p], [hook |-> h, was |-> enabled[h]])
      BY <1>7, <2>1 DEF commit_install, install_inline, prepare_detach, TypeOK
    <2>5. \A o \in Elements(queue'[p]) : o \in Elements(queue[p])
      BY <2>2, <2>4, ElementsOf
    <2>6. \A g \in Elements(installed'[p]) : g \in Elements(installed[p]) \/ g = h
      <3>1. Elements(Append(installed[p], h)) = Elements(installed[p]) \cup {h}
        BY <2>2, ElementsOf
      <3> QED
        BY <2>4, <3>1
    <2>7. \A d \in Elements(detached'[p]) :
              d \in Elements(detached[p]) \/ d.hook = h
      <3> DEFINE d == [hook |-> h, was |-> enabled[h]]
      <3>1. d \in Detached /\ d.hook = h
        BY DEF TypeOK
      <3>2. detached'[p] = detached[p] \/ detached'[p] = Append(detached[p], d)
        BY <2>4
      <3> HIDE DEF d, Detached
      <3>3. Elements(Append(detached[p], d)) = Elements(detached[p]) \cup {d}
        BY <2>2, <3>1, ElementsOf
      <3> QED
        BY <3>1, <3>2, <3>3
    <2>8. /\ "installed" \in Stage \ {"none", "building"}
          /\ "com_install" \notin HookPcs /\ "com_install" \notin AttachPcs
      BY DEF Stage, HookPcs, AttachPcs
    <2>9. /\ stage' = stage \/ stage' = [stage EXCEPT ![h] = "installed"]
          /\ pc' = [pc EXCEPT ![p] = "com_install"] /\ arg' = arg
          /\ published' = published
          /\ \A q \in Procs \ {p} :
                /\ queue'[q] = queue[q]
                /\ installed'[q] = installed[q] /\ detached'[q] = detached[q]
      BY <1>7, <2>1 DEF commit_install, install_inline, prepare_detach, TypeOK
    <2> QED
      BY <2>3, <2>5, <2>6, <2>7, <2>8, <2>9, OneHookStep
  <1>8. CASE publish(p)
    <2> DEFINE h == installed[p][idx[p]]
    <2>1. idx[p] \in 1 .. Len(installed[p]) /\ installed[p] \in Seq(Hooks)
      BY <1>8 DEF publish, CursorOK, TypeOK
    <2>2. h \in Hooks /\ h \in Elements(installed[p])
      BY <2>1, ElementsOf
    <2>3. ~Early(h)
      BY <2>2 DEF NotEarly, InInstalled
    <2>4. /\ "gone" \in Stage \ {"none", "building"}
          /\ "com_publish" \notin HookPcs /\ "com_publish" \notin AttachPcs
      BY DEF Stage, HookPcs, AttachPcs
    <2>5. /\ pc' = [pc EXCEPT ![p] = "com_publish"]
          /\ UNCHANGED <<stage, arg, queue, installed, detached>>
          /\ published' = [published EXCEPT ![h] = TRUE]
      BY <1>8 DEF publish, TypeOK
    <2> HIDE DEF h
    <2>6. \A g \in Hooks : published'[g] => published[g] \/ g = h
      BY <2>5 DEF TypeOK
    <2> QED
      BY <2>2, <2>3, <2>4, <2>5, <2>6, OneHookStep
  <1>9. CASE commit_published(p)
    <2>1. /\ stage' = [h \in Hooks |->
                         IF \E i \in 1 .. Len(installed[p]) : installed[p][i] = h
                         THEN "guard" ELSE stage[h]]
          /\ installed' = [installed EXCEPT ![p] = << >>]
          /\ pc' = [pc EXCEPT ![p] = "com_finalize"]
          /\ UNCHANGED <<queue, detached, published, arg>>
      BY <1>9 DEF commit_published
    <2>2. Kept(p)
      <3>1. ASSUME NEW h \in Hooks, stage'[h] # stage[h]
            PROVE  ~Early(h) /\ ~Early(h)'
        <4>1. InInstalled(p, h) /\ stage'[h] = "guard"
          BY <2>1, <3>1 DEF InInstalled, Elements
        <4> QED
          BY <4>1 DEF NotEarly, Early
      <3>2. ASSUME NEW h \in Hooks
            PROVE  /\ Early(h) => stage'[h] = stage[h]
                   /\ ~Early(h) => ~Early(h)'
        BY <3>1 DEF Early
      <3> QED
        BY <2>1, <3>2 DEF Kept, TypeOK
    <2>3. Settled(p)
      <3>1. pc'[p] \notin HookPcs /\ pc'[p] \notin AttachPcs
        BY <2>1 DEF TypeOK, HookPcs, AttachPcs
      <3>2. installed'[p] = << >>
        BY <2>1 DEF TypeOK
      <3>3. ASSUME NEW h \in Hooks,
                   InQueue(p, h)' \/ InInstalled(p, h)' \/ InDetached(p, h)'
            PROVE  ~Early(h)
        <4>1. ~InInstalled(p, h)'
          BY <3>2 DEF InInstalled, Elements
        <4>2. InQueue(p, h) \/ InDetached(p, h)
          BY <2>1, <3>3, <4>1 DEF InQueue, InDetached
        <4> QED
          BY <4>2 DEF NotEarly
      <3> QED
        BY <2>1, <3>1, <3>3 DEF Settled, NotEarly
    <2> QED
      BY <2>2, <2>3, SettledStep
  <1>10. CASE detach_finalize(p)
    <2> DEFINE h == Head(detached[p]).hook
    <2>1. detached[p] \in Seq(Detached) /\ detached[p] # << >>
      BY <1>10 DEF detach_finalize, TypeOK
    <2>2. Head(detached[p]) \in Elements(detached[p]) /\ Head(detached[p]) \in Detached
      BY <2>1, ElementsOf
    <2>3. h \in Hooks /\ InDetached(p, h)
      BY <2>2 DEF InDetached
    <2>4. ~Early(h)
      BY <2>3 DEF NotEarly
    <2>5. /\ pc' = [pc EXCEPT ![p] = "com_relink"]
          /\ arg' = [arg EXCEPT ![p] = h]
          /\ published' = [published EXCEPT ![h] = FALSE]
          /\ UNCHANGED <<stage, queue, installed, detached>>
      BY <1>10 DEF detach_finalize, Release
    <2> HIDE DEF h
    <2>6. /\ "gone" \in Stage \ {"none", "building"}
          /\ "com_relink" \notin AttachPcs
      BY DEF Stage, AttachPcs
    <2>7. \A g \in Hooks : published'[g] => published[g]
      BY <2>5 DEF TypeOK
    <2>8. arg'[p] = h /\ \A q \in Procs \ {p} : arg'[q] = arg[q]
      BY <2>5 DEF TypeOK
    <2> QED
      BY <2>3, <2>4, <2>5, <2>6, <2>7, <2>8, OneHookStep
  <1>11. CASE detach_relink(p)
    <2> DEFINE h == arg[p]
    <2>1. /\ detached[p] \in Seq(Detached) /\ detached[p] # << >>
          /\ h \in Hooks /\ ~Early(h)
      BY <1>11 DEF detach_relink, CursorOK, TypeOK, NotEarly, HookPcs, AttachPcs
    <2>2. /\ pc' = [pc EXCEPT ![p] = "com_finalize"]
          /\ stage' = [stage EXCEPT ![h] = "guard"]
          /\ detached' = [detached EXCEPT ![p] = Tail(detached[p])]
          /\ \A q \in Procs \ {p} : arg'[q] = arg[q]
          /\ UNCHANGED <<queue, installed, published>>
      BY <1>11 DEF detach_relink, TypeOK
    <2>3. /\ detached'[p] = Tail(detached[p])
          /\ \A q \in Procs \ {p} : detached'[q] = detached[q]
      BY <2>2 DEF TypeOK
    <2>4. \A d \in Elements(detached'[p]) : d \in Elements(detached[p])
      BY <2>1, <2>3, ElementsOf
    <2>5. /\ "guard" \in Stage \ {"none", "building"}
          /\ "com_finalize" \notin HookPcs /\ "com_finalize" \notin AttachPcs
      BY DEF Stage, HookPcs, AttachPcs
    <2> QED
      BY <2>1, <2>2, <2>3, <2>4, <2>5, OneHookStep
  <1>12. CASE rollback_detaches(p)
    <2> DEFINE d == detached[p][Len(detached[p])]
               h == d.hook
    <2>1. detached[p] \in Seq(Detached) /\ detached[p] # << >>
      BY <1>12 DEF rollback_detaches, TypeOK
    <2>2. d \in Elements(detached[p]) /\ Elements(detached[p]) \subseteq Detached
      <3> HIDE DEF Detached
      <3> QED
        BY <2>1, ElementsOf
    <2>3. h \in Hooks /\ ~Early(h)
      BY <2>2 DEF NotEarly, InDetached
    <2>4. /\ pc' = [pc EXCEPT ![p] = "com_undo_detach"]
          /\ stage' = [stage EXCEPT ![h] = "guard"]
          /\ detached' = [detached EXCEPT ![p] =
                             SubSeq(detached[p], 1, Len(detached[p]) - 1)]
          /\ UNCHANGED <<queue, installed, published, arg>>
      BY <1>12 DEF rollback_detaches, TypeOK
    <2>5. /\ detached'[p] = SubSeq(detached[p], 1, Len(detached[p]) - 1)
          /\ \A q \in Procs \ {p} : detached'[q] = detached[q]
      BY <2>4 DEF TypeOK
    <2>6. \A x \in Elements(detached'[p]) : x \in Elements(detached[p])
      BY <2>1, <2>5, ElementsOf
    <2>7. /\ "guard" \in Stage \ {"none", "building"}
          /\ "com_undo_detach" \notin HookPcs /\ "com_undo_detach" \notin AttachPcs
      BY DEF Stage, HookPcs, AttachPcs
    <2> HIDE DEF h
    <2> QED
      BY <2>3, <2>4, <2>5, <2>6, <2>7, OneHookStep
  <1>13. CASE dismantle(p)
    <2> DEFINE h == Head(installed[p])
    <2>1. installed[p] \in Seq(Hooks) /\ installed[p] # << >>
      BY <1>13 DEF dismantle, TypeOK
    <2>2. h \in Hooks /\ h \in Elements(installed[p])
      BY <2>1, ElementsOf
    <2>3. ~Early(h)
      BY <2>2 DEF NotEarly, InInstalled
    <2>4. /\ pc' = [pc EXCEPT ![p] = "com_dismantle"]
          /\ \E new \in {"gone", "leaked"} : stage' = [stage EXCEPT ![h] = new]
          /\ installed' = [installed EXCEPT ![p] = Tail(installed[p])]
          /\ UNCHANGED <<queue, detached, published, arg>>
      BY <1>13 DEF dismantle, TypeOK
    <2>5. /\ installed'[p] = Tail(installed[p])
          /\ \A q \in Procs \ {p} : installed'[q] = installed[q]
      BY <2>4 DEF TypeOK
    <2>6. \A g \in Elements(installed'[p]) : g \in Elements(installed[p])
      BY <2>1, <2>5, ElementsOf
    <2>7. /\ {"gone", "leaked"} \subseteq Stage \ {"none", "building"}
          /\ "com_dismantle" \notin HookPcs /\ "com_dismantle" \notin AttachPcs
      BY DEF Stage, HookPcs, AttachPcs
    <2> HIDE DEF h
    <2>8. PICK new \in {"gone", "leaked"} : stage' = [stage EXCEPT ![h] = new]
      BY <2>4
    <2> QED
      BY <2>2, <2>3, <2>4, <2>5, <2>6, <2>7, <2>8, OneHookStep
  <1> QED
    BY <1>2, <1>3, <1>4, <1>5, <1>6, <1>7, <1>8, <1>9, <1>10, <1>11, <1>12,
       <1>13, Commit(p) DEF Commit

\* Every step outside attach and commit.
LEMMA CallSettled ==
    ASSUME TypeOK, Builders, NotEarly, NEW p \in Procs,
           Transaction(p) \/ Toggle(p) \/ Unhook(p) \/ Int3(p)
    PROVE  Builders' /\ NotEarly'
  <1> USE DEF hookVars, regVars, lockVars, txVars, callVars, Goto
  <1>1. ASSUME pc[p] = "ready",
               UNCHANGED <<stage, queue, installed, detached, published, arg, pc>>
        PROVE  Builders' /\ NotEarly'
    <2>1. pc' = [pc EXCEPT ![p] = "ready"] /\ "ready" \notin HookPcs
      BY <1>1 DEF TypeOK, HookPcs, AttachPcs
    <2> QED
      BY <1>1, <2>1, QuietStep
  <1>2. CASE Toggle(p) \/ Int3(p) \/ Begin(p) \/ update_thread(p)
    BY <1>1, <1>2 DEF Toggle, enable, disable, Int3, arm_int3, remove_int3,
       Begin, update_thread
  <1>3. CASE abort(p)
    <2>1. /\ DropQueue(p) /\ pc' = [pc EXCEPT ![p] = "ready"]
          /\ UNCHANGED <<installed, detached, published, arg>>
      BY <1>3 DEF abort, TypeOK
    <2> QED
      BY <2>1, DropQueueSettled
  <1>4. ASSUME NEW h \in Hooks, detach(p, h)
        PROVE  Builders' /\ NotEarly'
    <2> DEFINE o == [op |-> "detach", hook |-> h]
    <2>1. /\ pc' = [pc EXCEPT ![p] = "ready"] /\ stage[h] = "guard"
          /\ stage' = [stage EXCEPT ![h] = "detaching"]
          /\ queue'[p] = Append(queue[p], o)
          /\ \A q \in Procs \ {p} : queue'[q] = queue[q]
          /\ UNCHANGED <<installed, detached, published, arg>>
      BY <1>4 DEF detach, TypeOK
    <2>2. Elements(Append(queue[p], o)) = Elements(queue[p]) \cup {o}
      <3>1. o \in Ops /\ queue[p] \in Seq(Ops)
        BY DEF Ops, TypeOK
      <3> QED
        BY <3>1, ElementsOf
    <2>3. \A x \in Elements(queue'[p]) : x \in Elements(queue[p]) \/ x.hook = h
      BY <2>1, <2>2
    <2>4. /\ "detaching" \in Stage \ {"none", "building"} /\ ~Early(h)
          /\ "ready" \notin HookPcs /\ "ready" \notin AttachPcs
      BY <2>1 DEF Stage, HookPcs, AttachPcs, Early
    <2> QED
      BY <2>1, <2>3, <2>4, OneHookStep
  \* The steps of unhook and drop work on one hook, which they have in hand.
  <1>5. ASSUME NEW h \in Hooks, ~Early(h),
               NEW new \in {"dropping", "leaked", "gone"},
               NEW l \in {"drop_begin", "drop_release", "drop_relink",
                          "drop_end", "ready"},
               stage' = stage \/ stage' = [stage EXCEPT ![h] = new],
               pc' = [pc EXCEPT ![p] = l],
               l # "ready" => arg'[p] = h,
               \A q \in Procs \ {p} : arg'[q] = arg[q],
               \A g \in Hooks : published'[g] => published[g],
               UNCHANGED <<queue, installed, detached>>
        PROVE  Builders' /\ NotEarly'
    <2>1. /\ new \in Stage \ {"none", "building"} /\ l \notin AttachPcs
          /\ "ready" \notin HookPcs
      BY DEF Stage, AttachPcs, HookPcs
    <2> QED
      BY <1>5, <2>1, OneHookStep
  <1>6. ASSUME NEW h \in Hooks, unhook(p, h) \/ Drop(p, h)
        PROVE  Builders' /\ NotEarly'
    <2>1. /\ stage[h] = "guard" /\ stage' = [stage EXCEPT ![h] = "dropping"]
          /\ \/ pc' = [pc EXCEPT ![p] = "drop_begin"]
             \/ pc' = [pc EXCEPT ![p] = "drop_release"]
          /\ arg' = [arg EXCEPT ![p] = h]
          /\ UNCHANGED <<queue, installed, detached, published>>
      BY <1>6 DEF unhook, Drop
    <2>2. ~Early(h) /\ arg'[p] = h /\ \A q \in Procs \ {p} : arg'[q] = arg[q]
      BY <2>1 DEF Early, TypeOK
    <2> QED
      BY <1>5, <2>1, <2>2
  <1>7. ASSUME pc[p] \in {"drop_begin", "drop_release", "drop_relink", "drop_end"}
        PROVE  arg[p] \in Hooks /\ ~Early(arg[p])
    BY <1>7 DEF TypeOK, NotEarly, HookPcs, AttachPcs
  <1>8. CASE drop_write(p)
    <2>1. /\ \/ /\ pc' = [pc EXCEPT ![p] = "drop_release"]
                /\ UNCHANGED <<stage, arg>>
             \/ /\ pc' = [pc EXCEPT ![p] = "ready"]
                /\ stage' = [stage EXCEPT ![arg[p]] = "leaked"]
                /\ arg' = [arg EXCEPT ![p] = NoHook]
          /\ UNCHANGED <<queue, installed, detached, published>>
          /\ pc[p] = "drop_begin"
      BY <1>8 DEF drop_write
    <2>2. \A q \in Procs \ {p} : arg'[q] = arg[q]
      BY <2>1 DEF TypeOK
    <2> QED
      BY <1>5, <1>7, <2>1, <2>2
  <1>9. CASE drop_release(p)
    <2>1. /\ pc' = [pc EXCEPT ![p] = "drop_relink"] /\ pc[p] = "drop_release"
          /\ published' = [published EXCEPT ![arg[p]] = FALSE]
          /\ UNCHANGED <<stage, arg, queue, installed, detached>>
      BY <1>9 DEF drop_release, Release
    <2>2. \A g \in Hooks : published'[g] => published[g]
      BY <2>1 DEF TypeOK
    <2> QED
      BY <1>5, <1>7, <2>1, <2>2
  <1>10. CASE drop_relink(p)
    <2>1. /\ \/ pc' = [pc EXCEPT ![p] = "drop_begin"]
             \/ pc' = [pc EXCEPT ![p] = "drop_end"]
          /\ pc[p] = "drop_relink"
          /\ UNCHANGED <<stage, arg, queue, installed, detached, published>>
      BY <1>10 DEF drop_relink
    <2> QED
      BY <1>5, <1>7, <2>1
  <1>11. CASE drop_end(p)
    <2>1. /\ pc' = [pc EXCEPT ![p] = "ready"] /\ pc[p] = "drop_end"
          /\ stage' = [stage EXCEPT ![arg[p]] = "gone"]
          /\ \A q \in Procs \ {p} : arg'[q] = arg[q]
          /\ UNCHANGED <<queue, installed, detached, published>>
      BY <1>11 DEF drop_end, TypeOK
    <2> QED
      BY <1>5, <1>7, <2>1
  <1> QED
    BY <1>2, <1>3, <1>4, <1>6, <1>8, <1>9, <1>10, <1>11
       DEF Transaction, Unhook

-----------------------------------------------------------------------------
(***************************************************************************)
(* The transaction lock: TxHeld and InstalledInCommit                      *)
(***************************************************************************)
\* A lock that another thread holds is not touched, and what a step of p does
\* to its own commit.
LEMMA ControlKept ==
    ASSUME TypeOK, TxHeld, InstalledInCommit, NEW p \in Procs, NEW l,
           pc' = [pc EXCEPT ![p] = l],
           txOwner' = txOwner \/ txOwner \in {NoProc, p},
           l \in CommitPcs => txOwner' = p,
           \A q \in Procs \ {p} : installed'[q] = installed[q],
           l \notin PatchPcs => installed'[p] = << >>
    PROVE  TxHeld' /\ InstalledInCommit'
  <1>1. pc'[p] = l /\ \A q \in Procs \ {p} : pc'[q] = pc[q]
    BY DEF TypeOK
  <1>2. TxHeld'
    BY <1>1, ProcsAssumption DEF TxHeld
  <1>3. InstalledInCommit'
    BY <1>1 DEF InstalledInCommit
  <1> QED
    BY <1>2, <1>3

\* Calls other than commit never enter a patch phase.
LEMMA CallControl ==
    ASSUME TypeOK, TxHeld, InstalledInCommit, NEW p \in Procs,
           Transaction(p) \/ Attach(p) \/ Toggle(p) \/ Unhook(p) \/ Int3(p)
    PROVE  TxHeld' /\ InstalledInCommit'
  <1> DEFINE L == AttachPcs \cup {"ready", "drop_begin", "drop_release",
                                  "drop_relink", "drop_end"}
  <1> USE DEF hookVars, regVars, lockVars, txVars, callVars, Goto
  <1>1. CASE Transaction(p) \/ Toggle(p) \/ Int3(p)
    <2>1. /\ pc[p] \in L /\ pc' = pc /\ installed' = installed
          /\ txOwner' = txOwner \/ txOwner \in {NoProc, p}
      BY <1>1 DEF Transaction, Begin, update_thread, abort, ReleaseTx, detach,
         Toggle, enable, disable, Int3, arm_int3, remove_int3
    <2>2. pc' = [pc EXCEPT ![p] = pc[p]]
      BY <2>1 DEF TypeOK
    <2>3. pc[p] \notin PatchPcs /\ pc[p] \notin CommitPcs
      BY <2>1 DEF PatchPcs, CommitPcs, AttachPcs
    <2>4. installed'[p] = << >>
      BY <2>1, <2>3 DEF InstalledInCommit
    <2> QED
      BY <2>1, <2>2, <2>3, <2>4, ControlKept
  <1>2. CASE Attach(p)
    <2>1. /\ pc[p] \in L
          /\ \E l \in L : pc' = [pc EXCEPT ![p] = l] \/ pc' = pc
          /\ installed' = installed /\ txOwner' = txOwner
      BY <1>2 DEF Attach, attach, attach_managed, attach_stub, attach_follow,
         attach_check, attach_relocate, attach_snapshot, Reject, AttachPcs
    <2>2. PICK l \in L : pc' = [pc EXCEPT ![p] = l]
      BY <2>1 DEF TypeOK
    <2>3. \A k \in L : k \notin PatchPcs /\ k \notin CommitPcs
      BY DEF PatchPcs, CommitPcs, AttachPcs
    <2>4. installed'[p] = << >>
      BY <2>1, <2>3 DEF InstalledInCommit
    <2> HIDE DEF L
    <2> QED
      BY <2>1, <2>2, <2>3, <2>4, ControlKept
  <1>3. CASE Unhook(p)
    <2>1. /\ pc[p] \in L
          /\ \E l \in L : pc' = [pc EXCEPT ![p] = l]
          /\ installed' = installed /\ txOwner' = txOwner
      BY <1>3 DEF Unhook, unhook, Drop, drop_write, drop_release, drop_relink,
         drop_end
    <2>2. PICK l \in L : pc' = [pc EXCEPT ![p] = l]
      BY <2>1
    <2>3. \A k \in L : k \notin PatchPcs /\ k \notin CommitPcs
      BY DEF PatchPcs, CommitPcs, AttachPcs
    <2>4. installed'[p] = << >>
      BY <2>1, <2>3 DEF InstalledInCommit
    <2> HIDE DEF L
    <2> QED
      BY <2>1, <2>2, <2>3, <2>4, ControlKept
  <1> QED
    BY <1>1, <1>2, <1>3

\* Commit takes the lock before its patch phase and gives up its hooks before
\* it returns.
LEMMA CommitControl ==
    ASSUME TypeOK, TxHeld, InstalledInCommit, NEW p \in Procs, Commit(p)
    PROVE  TxHeld' /\ InstalledInCommit'
  <1> USE DEF hookVars, regVars, lockVars, txVars, callVars, Goto
  <1>1. CASE commit(p) \/ commit_lock(p)
    <2>1. /\ pc[p] \in {"ready", "com_code"}
          /\ \/ pc' = [pc EXCEPT ![p] = "com_code"] /\ txOwner' = p
             \/ /\ pc' = [pc EXCEPT ![p] = "com_install"]
                /\ pc[p] = "com_code" /\ txOwner' = txOwner
             \/ pc' = [pc EXCEPT ![p] = "ready"]
          /\ txOwner' = txOwner \/ txOwner \in {NoProc, p}
          /\ installed' = installed
      BY <1>1 DEF commit, commit_lock, CommitFails, ReleaseTx
    <2>2. installed'[p] = << >>
      BY <2>1 DEF InstalledInCommit, PatchPcs
    <2>3. pc[p] = "com_code" => txOwner = p
      BY DEF TxHeld, CommitPcs
    <2>4. "ready" \notin CommitPcs
      BY DEF CommitPcs
    <2> QED
      BY <2>1, <2>2, <2>3, <2>4, ControlKept
  <1>2. CASE commit_install(p)
    <2>1. /\ pc[p] = "com_install" /\ pc' = pc /\ txOwner' = txOwner
          /\ \A q \in Procs \ {p} : installed'[q] = installed[q]
      BY <1>2 DEF commit_install, install_inline, prepare_detach, TypeOK
    <2>2. pc' = [pc EXCEPT ![p] = "com_install"] /\ "com_install" \in PatchPcs
      BY <2>1 DEF TypeOK, PatchPcs
    <2>3. txOwner = p
      BY <2>1 DEF TxHeld, CommitPcs
    <2> QED
      BY <2>1, <2>2, <2>3, ControlKept
  <1>3. CASE commit_applied(p) \/ publish(p)
    <2>1. /\ pc[p] \in CommitPcs /\ pc' = [pc EXCEPT ![p] = "com_publish"]
          /\ txOwner' = txOwner /\ installed' = installed
      BY <1>3 DEF commit_applied, publish, CommitPcs, TypeOK
    <2>2. txOwner = p /\ "com_publish" \in PatchPcs
      BY <2>1 DEF TxHeld, PatchPcs
    <2> QED
      BY <2>1, <2>2, ControlKept
  <1>4. CASE commit_published(p)
    <2>1. /\ pc' = [pc EXCEPT ![p] = "com_finalize"]
          /\ installed' = [installed EXCEPT ![p] = << >>]
          /\ txOwner' = txOwner \/ txOwner \in {NoProc, p}
      BY <1>4 DEF commit_published, ReleaseTx
    <2>2. "com_finalize" \notin CommitPcs
      BY DEF CommitPcs
    <2>3. installed'[p] = << >> /\ \A q \in Procs \ {p} : installed'[q] = installed[q]
      BY <2>1 DEF TypeOK
    <2> QED
      BY <2>1, <2>2, <2>3, ControlKept
  <1>5. CASE detach_finalize(p) \/ detach_relink(p) \/ commit_done(p)
    <2>1. /\ pc[p] \in {"com_finalize", "com_relink"}
          /\ \E l \in {"com_finalize", "com_relink", "ready"} :
                 pc' = [pc EXCEPT ![p] = l]
          /\ txOwner' = txOwner /\ installed' = installed
      BY <1>5 DEF detach_finalize, detach_relink, commit_done
    <2>2. installed'[p] = << >>
      BY <2>1 DEF InstalledInCommit, PatchPcs
    <2>3. \A l \in {"com_finalize", "com_relink", "ready"} : l \notin CommitPcs
      BY DEF CommitPcs
    <2> QED
      BY <2>1, <2>2, <2>3, ControlKept
  <1>6. CASE commit_fail(p) \/ rollback_detaches(p) \/ rollback_start(p)
              \/ rollback(p) \/ rollback_done(p)
    <2>1. /\ \E l \in {"com_undo_detach", "com_undo_install", "com_dismantle"} :
                 pc' = [pc EXCEPT ![p] = l]
          /\ txOwner' = txOwner \/ txOwner \in {NoProc, p}
          /\ installed' = installed
      BY <1>6 DEF commit_fail, rollback_detaches, rollback_start, rollback,
         rollback_done, ReleaseTx, TypeOK
    <2>2. \A l \in {"com_undo_detach", "com_undo_install", "com_dismantle"} :
              l \notin CommitPcs /\ l \in PatchPcs
      BY DEF CommitPcs, PatchPcs
    <2> QED
      BY <2>1, <2>2, ControlKept
  <1>7. CASE dismantle(p)
    <2>1. /\ pc' = [pc EXCEPT ![p] = "com_dismantle"] /\ txOwner' = txOwner
          /\ \A q \in Procs \ {p} : installed'[q] = installed[q]
      BY <1>7 DEF dismantle, TypeOK
    <2>2. "com_dismantle" \notin CommitPcs /\ "com_dismantle" \in PatchPcs
      BY DEF CommitPcs, PatchPcs
    <2> QED
      BY <2>1, <2>2, ControlKept
  <1>8. CASE commit_failed(p)
    <2>1. /\ pc' = [pc EXCEPT ![p] = "ready"] /\ installed[p] = << >>
          /\ txOwner' = txOwner /\ installed' = installed
      BY <1>8 DEF commit_failed
    <2>2. "ready" \notin CommitPcs
      BY DEF CommitPcs
    <2> QED
      BY <2>1, <2>2, ControlKept
  <1> QED
    BY <1>1, <1>2, <1>3, <1>4, <1>5, <1>6, <1>7, <1>8, Commit(p) DEF Commit

-----------------------------------------------------------------------------
(***************************************************************************)
(* Disjointness: CommitClear and PublishedDisjoint                         *)
(***************************************************************************)

\* The target of a hook that attach has finished with never changes again.
LEMMA TargetIsSettled ==
    ASSUME TypeOK, Builders, NEW p \in Procs,
           Transaction(p) \/ Attach(p) \/ Commit(p) \/ Toggle(p) \/ Unhook(p)
               \/ Int3(p)
    PROVE  \A h \in Hooks : ~Early(h) => target'[h] = target[h]
  <1> USE DEF hookVars, regVars, lockVars, txVars, callVars
  <1>1. CASE Transaction(p) \/ Toggle(p) \/ Int3(p)
    BY <1>1 DEF Transaction, Begin, update_thread, abort, detach, Toggle, enable,
       disable, Int3, arm_int3, remove_int3
  <1>2. CASE Commit(p)
    BY <1>2 DEF Commit, commit, commit_lock, commit_install, commit_fail,
       commit_applied, publish, commit_published, detach_finalize,
       detach_relink, commit_done, rollback_detaches, rollback_start, rollback,
       rollback_done, dismantle, commit_failed
  <1>3. CASE Unhook(p)
    BY <1>3 DEF Unhook, unhook, Drop, drop_write, drop_release, drop_relink,
       drop_end
  <1>4. CASE Attach(p)
    <2>1. PICK h, s : /\ h \in Hooks => Early(h)
                      /\ target' = target \/ target' = [target EXCEPT ![h] = s]
      <3>1. CASE pc[p] \in AttachPcs
        <4>1. Early(arg[p])
          BY <3>1 DEF Builders, Early
        <4>2. \/ target' = target
              \/ \E s : target' = [target EXCEPT ![arg[p]] = s]
          BY <1>4, <3>1 DEF Attach, attach, attach_managed, attach_stub,
             attach_follow, attach_check, attach_relocate, attach_snapshot,
             Reject, AttachPcs
        <4> QED
          BY <4>1, <4>2
      <3>2. CASE pc[p] \notin AttachPcs
        <4>1. PICK h \in Hooks, s \in Funcs \cup Gateways, follow \in BOOLEAN :
                  attach(p, h, s, follow)
          BY <1>4, <3>2 DEF Attach, attach_managed, attach_stub,
             attach_follow, attach_check, attach_relocate, attach_snapshot,
             AttachPcs
        <4> QED
          BY <4>1 DEF attach, Early
      <3> QED
        BY <3>1, <3>2
    <2> QED
      BY <2>1 DEF TypeOK
  <1> QED
    BY <1>1, <1>2, <1>3, <1>4

\* A hook some commit still has to install or publish is settled.
LEMMA TodoIsSettled ==
    ASSUME NotEarly, NEW p \in Procs, NEW h \in Hooks, Todo(p, h)
    PROVE  ~Early(h)
  BY QueuedElements DEF Todo, NotEarly

\* A step that publishes nothing and adds nothing to a commit in progress.
LEMMA ClearKept ==
    ASSUME NotEarly, CommitClear, PublishedDisjoint,
           \A h \in Hooks : ~Early(h) => target'[h] = target[h],
           \A h \in Hooks : published'[h] => published[h],
           \A h \in Hooks : published'[h] => target'[h] \in livePatches',
           \A q \in Procs : pc'[q] \in CommitPcs =>
               /\ pc[q] \in CommitPcs
               /\ \A h \in Hooks : Todo(q, h)' => Todo(q, h)
    PROVE  CommitClear' /\ PublishedDisjoint'
  <1>1. CommitClear'
    <2> SUFFICES ASSUME NEW q \in Procs, pc'[q] \in CommitPcs,
                        NEW g \in Hooks, NEW h \in Hooks, g # h,
                        Todo(q, h)', Todo(q, g)' \/ published'[g]
                 PROVE  ~Overlaps(target'[g], target'[h])
      BY DEF CommitClear, Overlaps, InRange
    <2>1. pc[q] \in CommitPcs /\ Todo(q, h) /\ (Todo(q, g) \/ published[g])
      OBVIOUS
    <2>2. ~Early(g) /\ ~Early(h)
      BY <2>1, TodoIsSettled DEF NotEarly
    <2>3. ~Overlaps(target[g], target[h])
      BY <2>1 DEF CommitClear
    <2> QED
      BY <2>2, <2>3
  <1>2. PublishedDisjoint'
    <2> SUFFICES ASSUME NEW g \in Hooks, NEW h \in Hooks, published'[g],
                        published'[h]
                 PROVE  /\ target'[g] \in livePatches'
                        /\ g # h => ~Overlaps(target'[g], target'[h])
      BY DEF PublishedDisjoint, Overlaps, InRange
    <2>1. ~Early(g) /\ ~Early(h)
      BY DEF NotEarly
    <2>2. g # h => ~Overlaps(target[g], target[h])
      BY DEF PublishedDisjoint
    <2> QED
      BY <2>1, <2>2
  <1> QED
    BY <1>1, <1>2

\* Withdrawing a hook's range leaves the ranges of the others registered.
LEMMA ReleaseKeepsRanges ==
    ASSUME TypeOK, PublishedDisjoint, NEW p \in Procs, NEW h \in Hooks,
           Release(p, h)
    PROVE  \A g \in Hooks : published'[g] =>
               published[g] /\ target[g] \in livePatches'
  <1> SUFFICES ASSUME NEW g \in Hooks, published'[g]
               PROVE  published[g] /\ target[g] \in livePatches'
    OBVIOUS
  <1>1. g # h /\ published[g]
    BY DEF Release, TypeOK
  <1>2. target[g] \in livePatches
    BY <1>1 DEF PublishedDisjoint
  <1>3. published[h] => target[g] # target[h]
    BY <1>1 DEF PublishedDisjoint, Overlaps, InRange
  <1> QED
    BY <1>1, <1>2, <1>3 DEF Release

\* Calls other than commit neither publish a hook nor extend a commit.
LEMMA CallClear ==
    ASSUME TypeOK, Builders, NotEarly, CommitClear, PublishedDisjoint,
           NEW p \in Procs,
           Transaction(p) \/ Attach(p) \/ Toggle(p) \/ Unhook(p) \/ Int3(p)
    PROVE  CommitClear' /\ PublishedDisjoint'
  <1> DEFINE L == AttachPcs \cup {"ready", "drop_begin", "drop_release",
                                  "drop_relink", "drop_end"}
  <1> USE DEF hookVars, regVars, lockVars, txVars, callVars, Goto
  <1>1. \A h \in Hooks : ~Early(h) => target'[h] = target[h]
    BY TargetIsSettled
  <1>2. /\ pc[p] \in L
        /\ pc' = pc \/ \E l \in L : pc' = [pc EXCEPT ![p] = l]
        /\ installed' = installed
        /\ \A q \in Procs \ {p} : queue'[q] = queue[q]
    <2>1. CASE Transaction(p) \/ Toggle(p) \/ Int3(p)
      <3>1. /\ pc[p] = "ready" /\ pc' = pc /\ installed' = installed
            /\ queue' = queue \/ \E s : queue' = [queue EXCEPT ![p] = s]
        BY <2>1 DEF Transaction, Begin, update_thread, abort, DropQueue, detach,
           Toggle, enable, disable, Int3, arm_int3, remove_int3
      <3> QED
        BY <3>1 DEF TypeOK
    <2>2. CASE Attach(p)
      BY <2>2 DEF Attach, attach, attach_managed, attach_stub, attach_follow,
         attach_check, attach_relocate, attach_snapshot, Reject, AttachPcs, TypeOK
    <2>3. CASE Unhook(p)
      BY <2>3 DEF Unhook, unhook, Drop, drop_write, drop_release, drop_relink,
         drop_end
    <2> QED
      BY <2>1, <2>2, <2>3
  <1>3. \A k \in L : k \notin CommitPcs
    BY DEF CommitPcs, AttachPcs
  <1>4. ASSUME NEW q \in Procs, pc'[q] \in CommitPcs
        PROVE  /\ pc[q] \in CommitPcs
               /\ \A h \in Hooks : Todo(q, h)' => Todo(q, h)
    <2>1. q # p /\ pc'[q] = pc[q]
      BY <1>2, <1>3, <1>4 DEF TypeOK
    <2>2. queue'[q] = queue[q] /\ installed'[q] = installed[q]
      BY <1>2, <2>1
    <2> QED
      BY <1>4, <2>1, <2>2 DEF Todo, Queued, InInstalled
  <1>5. CASE drop_release(p)
    <2>1. arg[p] \in Hooks /\ Release(p, arg[p]) /\ target' = target
      BY <1>5 DEF drop_release, TypeOK, HookPcs
    <2>2. \A g \in Hooks : published'[g] => published[g] /\ target[g] \in livePatches'
      BY <2>1, ReleaseKeepsRanges
    <2> QED
      BY <1>1, <1>4, <2>1, <2>2, ClearKept
  <1>6. CASE ~drop_release(p)
    <2>1. published' = published /\ livePatches' = livePatches
      <3>1. CASE Transaction(p) \/ Toggle(p) \/ Int3(p)
        BY <3>1 DEF Transaction, Begin, update_thread, abort, DropQueue, detach,
           Toggle, enable, disable, Int3, arm_int3, remove_int3
      <3>2. CASE Attach(p)
        BY <3>2 DEF Attach, attach, attach_managed, attach_stub, attach_follow,
           attach_check, attach_relocate, attach_snapshot, Reject
      <3>3. CASE Unhook(p)
        BY <1>6, <3>3 DEF Unhook, unhook, Drop, drop_write, drop_relink, drop_end
      <3> QED
        BY <3>1, <3>2, <3>3
    <2>2. \A h \in Hooks : published'[h] => target'[h] \in livePatches'
      BY <1>1, <2>1 DEF PublishedDisjoint, NotEarly
    <2> QED
      BY <1>1, <1>4, <2>1, <2>2, ClearKept
  <1> QED
    BY <1>5, <1>6

\* The overlap check at the start of a commit carries to its last publication.
LEMMA CommitStaysClear ==
    ASSUME TypeOK, CursorOK, Builders, NotEarly, TxHeld, InstalledInCommit,
           CommitClear, PublishedDisjoint, NEW p \in Procs, Commit(p)
    PROVE  CommitClear' /\ PublishedDisjoint'
  <1> USE DEF hookVars, regVars, lockVars, txVars, callVars, Goto
  <1>1. target' = target
    BY Commit(p)
       DEF Commit, commit, commit_lock, commit_install, commit_fail,
       commit_applied, publish, commit_published, detach_finalize,
       detach_relink, commit_done, rollback_detaches, rollback_start, rollback,
       rollback_done, dismantle, commit_failed
  <1>2. \A h \in Hooks : ~Early(h) => target'[h] = target[h]
    BY <1>1
  <1>3. ASSUME published' = published, livePatches' = livePatches
        PROVE  \A h \in Hooks : published'[h] => target'[h] \in livePatches'
    BY <1>1, <1>3 DEF PublishedDisjoint
  \* The check itself.
  <1>4. CASE commit(p) /\ Reservable(p)
    <2>1. /\ pc[p] = "ready" /\ pc' = [pc EXCEPT ![p] = "com_code"]
          /\ UNCHANGED <<published, livePatches, queue, installed>>
          /\ txOwner \in {NoProc, p}
      BY <1>4 DEF commit
    <2>2. installed[p] = << >>
      BY <2>1 DEF InstalledInCommit, PatchPcs
    <2>3. \A h \in Hooks : ~InInstalled(p, h)
      BY <2>2 DEF InInstalled, Elements
    <2>4. CommitClear'
      <3> SUFFICES ASSUME NEW q \in Procs, pc'[q] \in CommitPcs,
                          NEW g \in Hooks, NEW h \in Hooks, g # h,
                          Todo(q, h)', Todo(q, g)' \/ published'[g]
                   PROVE  ~Overlaps(target[g], target[h])
        BY <1>1 DEF CommitClear
      <3>1. Todo(q, h) /\ (Todo(q, g) \/ published[g])
        BY <2>1 DEF Todo, Queued, InInstalled
      <3>2. CASE q # p
        BY <2>1, <3>1, <3>2 DEF CommitClear, TypeOK
      <3>3. CASE q = p
        <4>1. h \in Queued(p) /\ (g \in Queued(p) \/ published[g])
          BY <2>3, <3>1, <3>3 DEF Todo
        <4>2. CASE g \in Queued(p)
          BY <1>4, <4>1, <4>2 DEF Reservable
        <4>3. CASE published[g]
          <5>1. target[g] \in livePatches
            BY <4>3 DEF PublishedDisjoint
          <5>2. ~Overlaps(target[h], target[g])
            BY <1>4, <4>1, <5>1 DEF Reservable, overlaps_live_patch
          <5> QED
            BY <5>2 DEF Overlaps
        <4> QED
          BY <4>1, <4>2, <4>3
      <3> QED
        BY <3>2, <3>3
    <2>5. PublishedDisjoint'
      BY <1>1, <2>1 DEF PublishedDisjoint
    <2> QED
      BY <2>4, <2>5
  \* One hook moves from the queue to the installed hooks.
  <1>5. CASE commit_install(p)
    <2>1. PICK h \in Hooks : install_inline(p, h) \/ prepare_detach(p, h)
      BY <1>5 DEF commit_install
    <2>2. /\ pc[p] = "com_install" /\ pc' = pc
          /\ published' = published /\ livePatches' = livePatches
          /\ queue[p] \in Seq(Ops) /\ queue[p] # << >>
          /\ queue'[p] = Tail(queue[p]) /\ installed[p] \in Seq(Hooks)
          /\ \A q \in Procs \ {p} : queue'[q] = queue[q]
      BY <1>5 DEF commit_install, TypeOK
    <2>3. \A q \in Procs \ {p} : installed'[q] = installed[q]
      BY <2>1 DEF install_inline, prepare_detach, TypeOK
    <2>4. /\ Head(queue[p]) \in Elements(queue[p])
          /\ Elements(Tail(queue[p])) \subseteq Elements(queue[p])
      BY <2>2, ElementsOf
    <2>5. ASSUME NEW g \in Hooks, g \in Queued(p)'
          PROVE  g \in Queued(p)
      <3>1. [op |-> "attach", hook |-> g] \in Elements(queue'[p])
        BY <2>5 DEF Queued, Elements
      <3>2. [op |-> "attach", hook |-> g] \in Elements(queue[p])
        BY <2>2, <2>4, <3>1
      <3> QED
        BY <3>2, QueuedElements
    <2>6. ASSUME NEW g \in Hooks, InInstalled(p, g)'
          PROVE  Todo(p, g)
      <3>1. CASE InInstalled(p, g)
        BY <3>1 DEF Todo
      <3>2. CASE ~InInstalled(p, g)
        <4>1. installed'[p] = Append(installed[p], h) \/ installed'[p] = installed[p]
          BY <2>1 DEF install_inline, prepare_detach, TypeOK
        <4>2. installed'[p] # installed[p]
          BY <2>6, <3>2 DEF InInstalled
        <4>3. Head(queue[p]) = [op |-> "attach", hook |-> h]
          BY <2>1, <4>2 DEF install_inline, prepare_detach
        <4>4. Elements(Append(installed[p], h)) = Elements(installed[p]) \cup {h}
          BY <2>2, ElementsOf
        <4>5. g = h
          BY <2>6, <3>2, <4>1, <4>2, <4>4 DEF InInstalled
        <4> QED
          BY <2>4, <4>3, <4>5, QueuedElements DEF Todo
      <3> QED
        BY <3>1, <3>2
    <2>7. ASSUME NEW q \in Procs, pc'[q] \in CommitPcs
          PROVE  /\ pc[q] \in CommitPcs
                 /\ \A g \in Hooks : Todo(q, g)' => Todo(q, g)
      <3>1. CASE q = p
        BY <2>2, <2>5, <2>6, <2>7, <3>1 DEF Todo
      <3>2. CASE q # p
        BY <2>2, <2>3, <2>7, <3>2 DEF Todo, Queued, InInstalled
      <3> QED
        BY <3>1, <3>2
    <2> QED
      BY <1>2, <1>3, <2>2, <2>7, ClearKept
  \* A published hook is one of those the check covered.
  <1>6. CASE publish(p)
    <2> DEFINE h == installed[p][idx[p]]
    <2>1. idx[p] \in 1 .. Len(installed[p]) /\ installed[p] \in Seq(Hooks)
      BY <1>6 DEF publish, CursorOK, TypeOK
    <2>2. h \in Hooks /\ InInstalled(p, h)
      BY <2>1, ElementsOf DEF InInstalled
    <2>3. /\ pc[p] = "com_publish" /\ pc' = pc
          /\ UNCHANGED <<queue, installed>>
          /\ published' = [published EXCEPT ![h] = TRUE]
          /\ livePatches' = livePatches \cup {target[h]}
      BY <1>6 DEF publish
    <2>4. pc[p] \in CommitPcs /\ Todo(p, h)
      BY <2>2, <2>3 DEF CommitPcs, Todo
    <2> HIDE DEF h
    <2>5. \A g \in Hooks : published'[g] => published[g] \/ g = h
      BY <2>3 DEF TypeOK
    <2>6. ASSUME NEW q \in Procs, pc'[q] \in CommitPcs
          PROVE  q = p
      BY <2>3, <2>4, <2>6 DEF TxHeld
    <2>7. \A g \in Hooks : Todo(p, g)' => Todo(p, g)
      BY <2>3 DEF Todo, Queued, InInstalled
    <2>8. CommitClear'
      <3> SUFFICES ASSUME NEW q \in Procs, pc'[q] \in CommitPcs,
                          NEW g \in Hooks, NEW k \in Hooks, g # k,
                          Todo(q, k)', Todo(q, g)' \/ published'[g]
                   PROVE  ~Overlaps(target[g], target[k])
        BY <1>1 DEF CommitClear
      <3>1. q = p
        BY <2>6
      <3>2. Todo(p, k) /\ (Todo(p, g) \/ published[g])
        BY <2>4, <2>5, <2>7, <3>1
      <3> QED
        BY <2>4, <3>2 DEF CommitClear
    <2>9. PublishedDisjoint'
      <3> SUFFICES ASSUME NEW g \in Hooks, NEW k \in Hooks, published'[g],
                          published'[k]
                   PROVE  /\ target[g] \in livePatches'
                          /\ g # k => ~Overlaps(target[g], target[k])
        BY <1>1 DEF PublishedDisjoint
      <3>1. published[g] \/ g = h
        BY <2>5
      <3>2. published[k] \/ k = h
        BY <2>5
      <3>3. target[g] \in livePatches'
        BY <2>3, <3>1 DEF PublishedDisjoint
      <3>4. ASSUME g # k
            PROVE  ~Overlaps(target[g], target[k])
        <4>1. CASE published[g] /\ published[k]
          BY <3>4, <4>1 DEF PublishedDisjoint
        <4>2. CASE k = h
          <5>1. published[g]
            BY <3>1, <3>4, <4>2
          <5> QED
            BY <2>2, <2>4, <3>4, <4>2, <5>1 DEF CommitClear
        <4>3. CASE g = h
          <5>1. published[k]
            BY <3>2, <3>4, <4>3
          <5>2. ~Overlaps(target[k], target[g])
            BY <2>2, <2>4, <3>4, <4>3, <5>1 DEF CommitClear
          <5> QED
            BY <5>2 DEF Overlaps
        <4> QED
          BY <3>1, <3>2, <4>1, <4>2, <4>3
      <3> QED
        BY <3>3, <3>4
    <2> QED
      BY <2>8, <2>9
  <1>7. CASE detach_finalize(p)
    <2> DEFINE h == Head(detached[p]).hook
               Detached == [hook : Hooks, was : BOOLEAN]
    <2>1. h \in Hooks
      <3>1. detached[p] \in Seq(Detached) /\ detached[p] # << >>
        BY <1>7 DEF detach_finalize, TypeOK
      <3>2. Head(detached[p]) \in Detached
        BY <3>1, SeqParts
      <3> QED
        BY <3>2
    <2>2. /\ Release(p, h) /\ pc' = [pc EXCEPT ![p] = "com_relink"]
          /\ UNCHANGED <<queue, installed>>
      BY <1>7 DEF detach_finalize
    <2> HIDE DEF h
    <2>3. \A g \in Hooks : published'[g] => published[g] /\ target[g] \in livePatches'
      BY <2>1, <2>2, ReleaseKeepsRanges
    <2>4. ASSUME NEW q \in Procs, pc'[q] \in CommitPcs
          PROVE  /\ pc[q] \in CommitPcs
                 /\ \A g \in Hooks : Todo(q, g)' => Todo(q, g)
      <3>1. pc[q] \in CommitPcs
        BY <2>2, <2>4 DEF CommitPcs, TypeOK
      <3> QED
        BY <2>2, <3>1 DEF Todo, Queued, InInstalled
    <2> QED
      BY <1>1, <1>2, <2>3, <2>4, ClearKept
  \* The other steps only shrink what the commit has to do, or leave it.
  <1>8. CASE /\ ~(commit(p) /\ Reservable(p))
             /\ ~commit_install(p) /\ ~publish(p) /\ ~detach_finalize(p)
    <2>1. published' = published /\ livePatches' = livePatches
      BY <1>8, Commit(p)
         DEF Commit, commit, commit_lock, commit_fail,
         commit_applied, commit_published,
         detach_relink, commit_done, rollback_detaches, rollback_start, rollback,
         rollback_done, dismantle, commit_failed
    <2>2. /\ \/ /\ pc[p] \in CommitPcs
                /\ queue'[p] = queue[p] /\ installed'[p] = installed[p]
             \/ pc'[p] \notin CommitPcs
          /\ \A q \in Procs \ {p} :
                /\ pc'[q] = pc[q]
                /\ queue'[q] = queue[q] /\ installed'[q] = installed[q]
      <3>1. CASE commit(p) \/ commit_lock(p)
        BY <1>8, <3>1 DEF commit, commit_lock, CommitFails, DropQueue, CommitPcs,
           TypeOK
      <3>2. CASE commit_failed(p)
        BY <3>2 DEF commit_failed, DropQueue, CommitPcs, TypeOK
      <3>3. CASE commit_fail(p) \/ commit_applied(p) \/ commit_done(p)
                  \/ detach_relink(p) \/ rollback_start(p) \/ rollback_done(p)
        BY <3>3 DEF commit_fail, commit_applied, commit_done, detach_relink,
           rollback_start, rollback_done, CommitPcs, TypeOK
      <3>4. CASE commit_published(p)
        BY <3>4 DEF commit_published, CommitPcs, TypeOK
      <3>5. CASE rollback_detaches(p) \/ rollback(p)
        BY <3>5 DEF rollback_detaches, rollback, CommitPcs, TypeOK
      <3>6. CASE dismantle(p)
        <4>1. pc' = pc /\ pc[p] = "com_dismantle" /\ queue' = queue
              /\ installed' = [installed EXCEPT ![p] = Tail(installed[p])]
          BY <3>6 DEF dismantle
        <4> QED
          BY <4>1 DEF CommitPcs, TypeOK
      <3> QED
        BY <1>8, <3>1, <3>2, <3>3, <3>4, <3>5, <3>6, Commit(p) DEF Commit
    <2>3. ASSUME NEW q \in Procs, pc'[q] \in CommitPcs
          PROVE  /\ pc[q] \in CommitPcs
                 /\ \A g \in Hooks : Todo(q, g)' => Todo(q, g)
      <3>1. pc[q] \in CommitPcs /\ queue'[q] = queue[q] /\ installed'[q] = installed[q]
        BY <2>2, <2>3
      <3> QED
        BY <3>1 DEF Todo, Queued, InInstalled
    <2> QED
      BY <1>2, <1>3, <2>1, <2>3, ClearKept
  <1> QED
    BY <1>4, <1>5, <1>6, <1>7, <1>8

-----------------------------------------------------------------------------
\* The inductive invariant.
Inv == /\ TypeOK /\ CursorOK
       /\ Builders /\ NotEarly
       /\ TxHeld /\ InstalledInCommit
       /\ CommitClear /\ PublishedDisjoint

\* Before the first call nothing is queued, built or published.
LEMMA InitInv == Init => Inv
  <1> SUFFICES ASSUME Init PROVE Inv
    OBVIOUS
  <1>1. TypeOK
    BY InitType
  <1>2. /\ \A p \in Procs : /\ pc[p] = "ready" /\ queue[p] = << >>
                            /\ installed[p] = << >> /\ detached[p] = << >>
        /\ \A h \in Hooks : ~published[h]
    BY DEF Init
  <1>3. CursorOK /\ Builders /\ TxHeld /\ InstalledInCommit /\ CommitClear
        /\ PublishedDisjoint
    BY <1>2 DEF CursorOK, Builders, TxHeld, InstalledInCommit, CommitClear,
       PublishedDisjoint, AttachPcs, CommitPcs
  <1>4. \A p \in Procs, h \in Hooks :
            ~InQueue(p, h) /\ ~InInstalled(p, h) /\ ~InDetached(p, h)
    BY <1>2 DEF InQueue, InInstalled, InDetached, Elements
  <1>5. NotEarly
    BY <1>2, <1>4 DEF NotEarly, HookPcs, AttachPcs
  <1> QED
    BY <1>1, <1>3, <1>5 DEF Inv

\* Every step of every thread preserves it.
LEMMA StepInv == Inv /\ [Next]_vars => Inv'
  <1> SUFFICES ASSUME Inv, [Next]_vars
               PROVE  Inv'
    OBVIOUS
  <1>1. CASE UNCHANGED vars
    <2>1. TypeOK'
      BY <1>1, StutterType DEF Inv
    <2>2. CursorOK' /\ Builders' /\ TxHeld' /\ InstalledInCommit'
      BY <1>1 DEF Inv, CursorOK, Builders, TxHeld, InstalledInCommit,
         vars, hookVars, lockVars, txVars, callVars
    <2>3. NotEarly'
      BY <1>1 DEF Inv, NotEarly, InQueue, InInstalled, InDetached, Early,
         vars, hookVars, txVars, callVars
    <2>4. CommitClear' /\ PublishedDisjoint'
      BY <1>1 DEF Inv, CommitClear, PublishedDisjoint, Todo, Queued, InInstalled,
         vars, hookVars, regVars, txVars, callVars
    <2> QED
      BY <2>1, <2>2, <2>3, <2>4 DEF Inv
  <1>2. CASE Next
    <2>1. PICK p \in Procs : Transaction(p) \/ Attach(p) \/ Commit(p)
                                \/ Toggle(p) \/ Unhook(p) \/ Int3(p)
      BY <1>2 DEF Next
    <2>2. TypeOK'
      BY <2>1, TransactionType, AttachType, CommitType, ToggleType, UnhookType,
         Int3Type DEF Inv
    <2>3. CursorOK'
      BY <2>1, CursorStep DEF Inv
    <2>4. Builders' /\ NotEarly'
      BY <2>1, AttachSettled, CommitSettled, CallSettled DEF Inv
    <2>5. TxHeld' /\ InstalledInCommit'
      BY <2>1, CallControl, CommitControl DEF Inv
    <2>6. CommitClear' /\ PublishedDisjoint'
      BY <2>1, CallClear, CommitStaysClear DEF Inv
    <2> QED
      BY <2>2, <2>3, <2>4, <2>5, <2>6 DEF Inv
  <1> QED
    BY <1>1, <1>2

(***************************************************************************)
(* Every variable of the library keeps its type, and a call on one hook    *)
(* always has that hook in hand, whatever the clients do.                  *)
(***************************************************************************)
THEOREM TypeInvariant == Spec => []TypeOK
  <1>1. Inv => TypeOK
    BY DEF Inv
  <1> QED
    BY InitInv, StepInv, <1>1, PTL DEF Spec

(***************************************************************************)
(* The ranges of published hooks never overlap, and each stays registered  *)
(* until its hook is released: whatever hooks are attached, committed,     *)
(* chained, detached and dropped by whatever threads, whatever functions   *)
(* overlap, and whatever writes the system refuses.                        *)
(***************************************************************************)
THEOREM PublishedRangesAreDisjoint == Spec => []PublishedDisjoint
  <1>1. Inv => PublishedDisjoint
    BY DEF Inv
  <1> QED
    BY InitInv, StepInv, <1>1, PTL DEF Spec

-----------------------------------------------------------------------------
(***************************************************************************)
(* Patches and trampolines                                                 *)
(*                                                                         *)
(* What follows holds where clients run attach alone, chain on installed   *)
(* hooks only, and no write of a rollback or of an INT3 removal is refused *)
(* (Disciplined).  The argument, from the bottom up:                       *)
(*   - who holds the code lock, and that attach has the library for itself *)
(*     (CodeHeld, AttachesAlone);                                          *)
(*   - where each hook is: in one queue, in one commit, or in one drop     *)
(*     (Places);                                                           *)
(*   - what a hook may target, and that the gateway it is chained on was   *)
(*     published before (Targets);                                         *)
(*   - which hooks are registered, that a gateway has at most one hook     *)
(*     chained on it, and who lets go of a trampoline last (Registered,    *)
(*     Counts, Trampolines);                                               *)
(*   - that a patch belongs to a hook that is enabled, and that this hook  *)
(*     holds the bytes below it (Patched).                                 *)
(* Together they are Safe.  Two further layers follow: no 0xCC lies in the *)
(* range of a hook and the installs of a failing commit overlap nothing    *)
(* published (Known), and what a commit has written so far is told from    *)
(* the code it found (Traced).                                             *)
(***************************************************************************)
Disciplined ==
    AttachAlone /\ InstalledGatewaysOnly /\ "rollback" \notin Faults /\ "int3" \notin Faults

DropPcs == {"drop_begin", "drop_release", "drop_relink", "drop_end"}
RelinkPcs == {"com_relink", "drop_relink"}

Step(p) == Transaction(p) \/ Attach(p) \/ Commit(p) \/ Toggle(p) \/ Unhook(p) \/ Int3(p)

CodeHeld == \A p \in Procs : pc[p] \in CodePcs <=> codeOwner = p
AttachesAlone == \A p, q \in Procs : pc[p] \in AttachPcs /\ q # p => pc[q] = "ready"

\* A step of p leaves the calls and the transactions of the other threads alone.
OthersKept(p) ==
    \A q \in Procs \ {p} :
        /\ pc'[q] = pc[q] /\ arg'[q] = arg[q] /\ link'[q] = link[q] /\ queue'[q] = queue[q]
        /\ installed'[q] = installed[q] /\ detached'[q] = detached[q] /\ idx'[q] = idx[q]
        /\ before'[q] = before[q]

LEMMA OthersAreKept ==
    ASSUME TypeOK, NEW p \in Procs, Step(p)
    PROVE  OthersKept(p)
  <1> USE DEF hookVars, regVars, lockVars, txVars, callVars, Goto, OthersKept, TypeOK
  <1>1. CASE Transaction(p) \/ Toggle(p) \/ Int3(p)
    <2>1. /\ UNCHANGED <<pc, arg, link, installed, detached, idx, before>>
          /\ \E s : queue' = [queue EXCEPT ![p] = s] \/ queue' = queue
      BY <1>1 DEF Transaction, Begin, update_thread, abort, DropQueue, detach, Toggle, enable,
         disable, Int3, arm_int3, remove_int3
    <2> QED
      BY <2>1
  <1>2. CASE Attach(p)
    BY <1>2 DEF Attach, attach, attach_managed, attach_stub, attach_follow, attach_check,
       attach_relocate, attach_snapshot, Reject
  <1>3. CASE Unhook(p)
    BY <1>3 DEF Unhook, unhook, Drop, drop_write, drop_release, drop_relink, drop_end, Release
  <1>4. CASE commit(p) \/ commit_lock(p) \/ commit_fail(p) \/ commit_applied(p) \/ publish(p)
              \/ commit_published(p)
    BY <1>4 DEF commit, commit_lock, CommitFails, DropQueue, commit_fail, commit_applied, publish,
       commit_published
  <1>5. CASE commit_install(p)
    BY <1>5 DEF commit_install, install_inline, prepare_detach
  <1>6. CASE detach_finalize(p) \/ detach_relink(p) \/ commit_done(p)
    BY <1>6 DEF detach_finalize, Release, detach_relink, commit_done, NoSnapshot
  <1>7. CASE rollback_detaches(p) \/ rollback_start(p) \/ rollback(p) \/ rollback_done(p)
              \/ dismantle(p) \/ commit_failed(p)
    BY <1>7 DEF rollback_detaches, rollback_start, rollback, rollback_done, dismantle,
       commit_failed, DropQueue, NoSnapshot
  <1> QED
    BY <1>1, <1>2, <1>3, <1>4, <1>5, <1>6, <1>7 DEF Step, Commit

\* The code lock is taken where it is free and released where it is held.
LEMMA LocksStep ==
    ASSUME TypeOK, CodeHeld, NEW p \in Procs, Step(p)
    PROVE  /\ codeOwner' # codeOwner => codeOwner \in {NoProc, p} /\ codeOwner' \in {NoProc, p}
           /\ pc'[p] \in CodePcs <=> codeOwner' = p
  <1>0. pc[p] \in CodePcs <=> codeOwner = p
    BY DEF CodeHeld
  <1> DEFINE Out == {"ready", "drop_begin", "com_code"} \cup AttachPcs
  <1>1. Out \cap CodePcs = {} /\ NoProc # p
    BY ProcsAssumption DEF CodePcs, AttachPcs
  <1> USE DEF hookVars, regVars, lockVars, txVars, callVars, Goto
  <1>2. CASE Transaction(p) \/ Toggle(p) \/ Int3(p)
    <2>1. pc' = pc /\ codeOwner' = codeOwner
      BY <1>2 DEF Transaction, Begin, update_thread, abort, detach, Toggle, enable,
         disable, Int3, arm_int3, remove_int3
    <2> QED
      BY <1>0, <2>1
  <1>3. CASE Attach(p)
    <2>1. codeOwner' = codeOwner /\ pc[p] \in Out
          /\ \E l \in Out : pc' = [pc EXCEPT ![p] = l] \/ pc' = pc
      BY <1>3 DEF Attach, attach, attach_managed, attach_stub, attach_follow, attach_check,
         attach_relocate, attach_snapshot, Reject, AttachPcs
    <2>2. pc'[p] \in Out
      BY <2>1 DEF TypeOK
    <2> QED
      BY <1>0, <1>1, <2>1, <2>2
  <1>4. CASE Unhook(p)
    <2>1. \/ /\ codeOwner' = codeOwner
             /\ \/ pc[p] \in CodePcs /\ pc'[p] \in CodePcs
                \/ pc[p] \in Out /\ pc'[p] \in Out
          \/ pc[p] \in Out /\ pc'[p] \in CodePcs /\ codeOwner = NoProc /\ codeOwner' = p
          \/ pc[p] \in CodePcs /\ pc'[p] \in Out /\ codeOwner' = NoProc
      BY <1>4 DEF Unhook, unhook, Drop, drop_write, drop_release, drop_relink, drop_end,
         ReleaseCode, CodePcs, TypeOK
    <2> QED
      BY <1>0, <1>1, <2>1
  <1>5. CASE Commit(p)
    <2>1. \/ /\ codeOwner' = codeOwner
             /\ \/ pc[p] \in CodePcs /\ pc'[p] \in CodePcs
                \/ pc[p] \in Out /\ pc'[p] \in Out
          \/ pc[p] \in Out /\ pc'[p] \in CodePcs /\ codeOwner = NoProc /\ codeOwner' = p
          \/ pc[p] \in CodePcs /\ pc'[p] \in Out /\ codeOwner' = NoProc
      BY <1>5 DEF Commit, commit, commit_lock, CommitFails, commit_install, commit_fail,
         commit_applied, publish, commit_published, detach_finalize, detach_relink, commit_done,
         rollback_detaches, rollback_start, rollback, rollback_done, dismantle, commit_failed,
         ReleaseCode, CodePcs, TypeOK
    <2> QED
      BY <1>0, <1>1, <2>1
  <1> QED
    BY <1>2, <1>3, <1>4, <1>5 DEF Step

\* While one thread is inside attach no other is inside a call.
LEMMA AloneStep ==
    ASSUME TypeOK, AttachesAlone, Disciplined, NEW p \in Procs, Step(p)
    PROVE  /\ pc'[p] \in AttachPcs => \A q \in Procs \ {p} : pc[q] = "ready"
           /\ (\E q \in Procs \ {p} : pc[q] \in AttachPcs) => pc'[p] = "ready"
  <1>1. ASSUME NEW q \in Procs \ {p}, pc[q] \in AttachPcs
        PROVE  pc'[p] = "ready"
    <2>1. pc[p] = "ready" /\ "ready" \notin AttachPcs
      BY <1>1 DEF AttachesAlone, AttachPcs
    <2>2. ~MayCall(p) /\ ~MayAttach(p)
      BY <1>1, <2>1 DEF MayCall, MayAttach, Disciplined
    <2> USE DEF hookVars, regVars, lockVars, txVars, callVars, Goto
    <2>3. CASE Transaction(p) \/ Toggle(p) \/ Int3(p)
      <3>1. pc' = pc
        BY <2>3 DEF Transaction, Begin, update_thread, abort, detach, Toggle, enable,
           disable, Int3, arm_int3, remove_int3
      <3> QED
        BY <2>1, <3>1
    <2>4. ~Attach(p)
      BY <2>1, <2>2 DEF Attach, attach, attach_managed, attach_stub, attach_follow, attach_check,
         attach_relocate, attach_snapshot
    <2>5. ~Unhook(p)
      BY <2>1, <2>2 DEF Unhook, unhook, Drop, drop_write, drop_release, drop_relink, drop_end
    <2>6. ~Commit(p)
      BY <2>1, <2>2 DEF Commit, commit, commit_lock, commit_install, commit_fail,
         commit_applied, publish, commit_published, detach_finalize, detach_relink, commit_done,
         rollback_detaches, rollback_start, rollback, rollback_done, dismantle, commit_failed
    <2> QED
      BY <2>3, <2>4, <2>5, <2>6 DEF Step
  <1>2. ASSUME pc'[p] \in AttachPcs
        PROVE  \A q \in Procs \ {p} : pc[q] = "ready"
    <2>1. CASE pc[p] \in AttachPcs
      BY <2>1 DEF AttachesAlone
    <2>2. CASE pc[p] \notin AttachPcs
      <3> USE DEF hookVars, regVars, lockVars, txVars, callVars, Goto
      <3>1. ~(Transaction(p) \/ Toggle(p) \/ Int3(p))
        <4>1. Transaction(p) \/ Toggle(p) \/ Int3(p) => pc' = pc
          BY DEF Transaction, Begin, update_thread, abort, detach, Toggle, enable,
             disable, Int3, arm_int3, remove_int3
        <4> QED
          BY <1>2, <2>2, <4>1
      <3>2. ~Unhook(p)
        BY <1>2 DEF Unhook, unhook, Drop, drop_write, drop_release, drop_relink, drop_end,
           AttachPcs, TypeOK
      <3>3. ~Commit(p)
        BY <1>2, <2>2
           DEF Commit, commit, commit_lock, CommitFails, commit_install, commit_fail,
           commit_applied, publish, commit_published, detach_finalize, detach_relink, commit_done,
           rollback_detaches, rollback_start, rollback, rollback_done, dismantle, commit_failed,
           AttachPcs, TypeOK
      <3>4. MayAttach(p)
        BY <2>2, <3>1, <3>2, <3>3 DEF Step, Attach, attach, attach_managed, attach_stub,
           attach_follow, attach_check, attach_relocate, attach_snapshot, AttachPcs
      <3> QED
        BY <3>4 DEF MayAttach, Disciplined
    <2> QED
      BY <2>1, <2>2
  <1> QED
    BY <1>1, <1>2

LEMMA LocksKept ==
    ASSUME TypeOK, CodeHeld, AttachesAlone, Disciplined, NEW p \in Procs, Step(p)
    PROVE  CodeHeld' /\ AttachesAlone'
  <1>1. \A q \in Procs \ {p} : pc'[q] = pc[q]
    BY OthersAreKept DEF OthersKept
  <1>2. CodeHeld'
    BY <1>1, LocksStep, ProcsAssumption DEF CodeHeld
  <1>3. AttachesAlone'
    BY <1>1, AloneStep DEF AttachesAlone, AttachPcs
  <1> QED
    BY <1>2, <1>3

-----------------------------------------------------------------------------
(***************************************************************************)
(* Where a hook is                                                         *)
(***************************************************************************)
Distinct(s) == \A i, j \in 1 .. Len(s) : s[i] = s[j] => i = j

LEMMA DistinctSeq ==
    ASSUME NEW S, NEW s \in Seq(S), Distinct(s)
    PROVE  /\ \A x \in S : x \notin Elements(s) => Distinct(Append(s, x))
           /\ s # << >> =>
                 /\ Distinct(Tail(s)) /\ Elements(Tail(s)) = Elements(s) \ {Head(s)}
                 /\ Distinct(SubSeq(s, 1, Len(s) - 1))
                 /\ Elements(SubSeq(s, 1, Len(s) - 1)) = Elements(s) \ {s[Len(s)]}
  <1>1. ASSUME NEW x \in S, x \notin Elements(s)
        PROVE  Distinct(Append(s, x))
    <2>1. /\ Len(Append(s, x)) = Len(s) + 1 /\ Append(s, x)[Len(s) + 1] = x
          /\ \A i \in 1 .. Len(s) : Append(s, x)[i] = s[i] /\ s[i] # x
          /\ Len(s) \in Nat
      BY <1>1 DEF Elements
    <2> QED
      BY <2>1 DEF Distinct
  <1>2. ASSUME s # << >>
        PROVE  Distinct(Tail(s)) /\ Elements(Tail(s)) = Elements(s) \ {Head(s)}
    <2>1. /\ Len(Tail(s)) = Len(s) - 1 /\ Head(s) = s[1] /\ Len(s) \in Nat /\ Len(s) > 0
          /\ \A i \in 1 .. Len(s) - 1 : Tail(s)[i] = s[i + 1]
      BY <1>2
    <2>2. Distinct(Tail(s))
      BY <2>1 DEF Distinct
    <2>3. ASSUME NEW x \in Elements(Tail(s))
          PROVE  x \in Elements(s) \ {Head(s)}
      <3>1. PICK i \in 1 .. Len(s) - 1 : x = Tail(s)[i]
        BY <2>1, <2>3 DEF Elements
      <3>2. i + 1 \in 1 .. Len(s) /\ 1 \in 1 .. Len(s) /\ i + 1 # 1 /\ x = s[i + 1]
        BY <2>1, <3>1
      <3> QED
        BY <2>1, <3>2 DEF Distinct, Elements
    <2>4. ASSUME NEW x \in Elements(s) \ {Head(s)}
          PROVE  x \in Elements(Tail(s))
      <3>1. PICK i \in 1 .. Len(s) : x = s[i]
        BY <2>4 DEF Elements
      <3>2. i # 1
        BY <2>1, <2>4, <3>1
      <3>3. PICK j \in 1 .. Len(s) - 1 : j + 1 = i
        <4>1. i - 1 \in 1 .. Len(s) - 1 /\ (i - 1) + 1 = i
          BY <2>1, <3>1, <3>2
        <4> QED
          BY <4>1
      <3>4. Tail(s)[j] = x
        BY <2>1, <3>1, <3>3
      <3> QED
        BY <2>1, <3>3, <3>4 DEF Elements
    <2> QED
      BY <2>2, <2>3, <2>4
  <1>3. ASSUME s # << >>
        PROVE  /\ Distinct(SubSeq(s, 1, Len(s) - 1))
               /\ Elements(SubSeq(s, 1, Len(s) - 1)) = Elements(s) \ {s[Len(s)]}
    <2> DEFINE n == Len(s)
               u == SubSeq(s, 1, n - 1)
    <2>1. Len(u) = n - 1 /\ n \in Nat /\ n > 0 /\ \A i \in 1 .. n - 1 : u[i] = s[i]
      <3>1. n \in Nat /\ n > 0
        BY <1>3
      <3>2. \A i \in 1 .. n - 1 : s[i] \in S
        OBVIOUS
      <3> HIDE DEF n
      <3>3. Len(u) = n - 1
        BY <3>1, <3>2
      <3>4. \A i \in 1 .. n - 1 : u[i] = s[i]
        BY <3>1, <3>2
      <3> QED
        BY <3>1, <3>3, <3>4
    <2> HIDE DEF u
    <2>2. Distinct(u)
      BY <2>1 DEF Distinct
    <2>3. ASSUME NEW x \in Elements(u)
          PROVE  x \in Elements(s) \ {s[n]}
      <3>1. PICK i \in 1 .. n - 1 : x = u[i]
        BY <2>1, <2>3 DEF Elements
      <3>2. i \in 1 .. n /\ n \in 1 .. n /\ i # n /\ x = s[i]
        BY <2>1, <3>1
      <3> QED
        BY <3>2 DEF Distinct, Elements
    <2>4. ASSUME NEW x \in Elements(s) \ {s[n]}
          PROVE  x \in Elements(u)
      <3>1. PICK i \in 1 .. n : x = s[i]
        BY <2>4 DEF Elements
      <3>2. i \in 1 .. n - 1
        BY <2>1, <2>4, <3>1
      <3> QED
        BY <2>1, <3>1, <3>2 DEF Elements
    <2> QED
      BY <2>2, <2>3, <2>4 DEF u
  <1> QED
    BY <1>1, <1>2, <1>3

AttachOp(h) == [op |-> "attach", hook |-> h]
DetachOp(h) == [op |-> "detach", hook |-> h]

\* The hooks in the hands of thread p.
Mine(p, h) == \/ InQueue(p, h) \/ InInstalled(p, h) \/ InDetached(p, h)
              \/ pc[p] \in DropPcs /\ arg[p] = h

\* The stage of a hook tells where it is.
Place(p, h) ==
    /\ AttachOp(h) \in Elements(queue[p]) => stage[h] = "queued"
    /\ DetachOp(h) \in Elements(queue[p]) => stage[h] = "detaching"
    /\ InInstalled(p, h) => stage[h] = "installed"
    /\ InDetached(p, h) => stage[h] = "detaching" /\ ~InQueue(p, h)
    /\ pc[p] \in DropPcs /\ arg[p] = h => stage[h] = "dropping"
DetachedPcs == {"com_install", "com_publish", "com_finalize", "com_relink", "com_undo_detach"}
ListOK(p) ==
    /\ Distinct(queue[p]) /\ Distinct(installed[p]) /\ Distinct(detached[p])
    /\ \A d, e \in Elements(detached[p]) : d.hook = e.hook => d = e
    /\ detached[p] # << >> => pc[p] \in DetachedPcs
    /\ pc[p] = "com_relink" => arg[p] = Head(detached[p]).hook
Places ==
    /\ \A p \in Procs : ListOK(p) /\ \A h \in Hooks : Place(p, h)
    /\ \A p, q \in Procs : p # q => \A h \in Hooks : ~(Mine(p, h) /\ Mine(q, h))
    /\ \A h \in Hooks : stage[h] = "installed" => \E p \in Procs : InInstalled(p, h)

MineStages == {"queued", "detaching", "installed", "dropping"}

LEMMA QueueOps ==
    ASSUME TypeOK, NEW p \in Procs
    PROVE  /\ \A o \in Elements(queue[p]) : /\ o.hook \in Hooks
                                            /\ o = AttachOp(o.hook) \/ o = DetachOp(o.hook)
           /\ \A h \in Hooks : InQueue(p, h) <=> \/ AttachOp(h) \in Elements(queue[p])
                                                 \/ DetachOp(h) \in Elements(queue[p])
           /\ \A h \in Hooks : h \in Queued(p) <=> AttachOp(h) \in Elements(queue[p])
           /\ \A g, h \in Hooks : AttachOp(g) # DetachOp(h) /\ AttachOp(h) \in Ops
                                     /\ DetachOp(h) \in Ops
                                     /\ AttachOp(h).hook = h /\ DetachOp(h).hook = h
                                     /\ AttachOp(h).op = "attach" /\ DetachOp(h).op = "detach"
  <1>1. queue[p] \in Seq(Ops)
    BY DEF TypeOK
  <1>2. \A o \in Ops : o.hook \in Hooks /\ (o = AttachOp(o.hook) \/ o = DetachOp(o.hook))
    BY DEF Ops, AttachOp, DetachOp
  <1>3. Elements(queue[p]) \subseteq Ops
    BY <1>1, ElementsOf
  <1>4. \A g, h \in Hooks : AttachOp(g) # DetachOp(h) /\ AttachOp(h) \in Ops
                                /\ DetachOp(h) \in Ops
                                /\ AttachOp(h).hook = h /\ DetachOp(h).hook = h
                                /\ AttachOp(h).op = "attach" /\ DetachOp(h).op = "detach"
    BY DEF Ops, AttachOp, DetachOp
  <1>5. \A h \in Hooks : h \in Queued(p) <=> AttachOp(h) \in Elements(queue[p])
    BY QueuedElements DEF AttachOp
  <1> QED
    BY <1>2, <1>3, <1>4, <1>5 DEF InQueue

LEMMA MineStage ==
    ASSUME TypeOK, Places, NEW p \in Procs, NEW h \in Hooks, Mine(p, h)
    PROVE  stage[h] \in MineStages
  BY QueueOps DEF Places, Place, Mine, MineStages

\* A step of p that touches its own hooks, and hooks nobody has in hand.
LEMMA PlacesStep ==
    ASSUME TypeOK, Places, NEW p \in Procs, OthersKept(p),
           \A h \in Hooks : stage'[h] # stage[h] => Mine(p, h) \/ stage[h] \notin MineStages,
           \A h \in Hooks : Mine(p, h)' => Mine(p, h) \/ stage[h] \notin MineStages,
           ListOK(p)', \A h \in Hooks : Place(p, h)',
           \A h \in Hooks : stage'[h] = "installed" => stage[h] = "installed" \/ InInstalled(p, h)',
           \A h \in Hooks : stage'[h] = "installed" /\ InInstalled(p, h) => InInstalled(p, h)'
    PROVE  Places'
  <1>1. ASSUME NEW q \in Procs \ {p}, NEW h \in Hooks
        PROVE  /\ Mine(q, h)' <=> Mine(q, h)
               /\ InInstalled(q, h)' <=> InInstalled(q, h)
               /\ Mine(q, h) => stage'[h] = stage[h] /\ ~Mine(p, h)'
    <2>1. /\ Mine(q, h)' <=> Mine(q, h)
          /\ InInstalled(q, h)' <=> InInstalled(q, h)
      BY DEF OthersKept, Mine, InQueue, InInstalled, InDetached
    <2>2. ASSUME Mine(q, h)
          PROVE  stage'[h] = stage[h] /\ ~Mine(p, h)'
      <3>1. ~Mine(p, h) /\ stage[h] \in MineStages
        BY <2>2, MineStage DEF Places
      <3> QED
        BY <3>1
    <2> QED
      BY <2>1, <2>2
  <1>2. ASSUME NEW q \in Procs
        PROVE  ListOK(q)'
    <2>1. CASE q # p
      BY <2>1 DEF OthersKept, ListOK, Places
    <2> QED
      BY <2>1
  <1>3. ASSUME NEW q \in Procs, NEW h \in Hooks
        PROVE  Place(q, h)'
    <2>1. CASE q # p
      <3>1. Place(q, h) /\ (Mine(q, h) => stage'[h] = stage[h])
        BY <1>1, <2>1 DEF Places
      <3>2. /\ queue'[q] = queue[q] /\ installed'[q] = installed[q] /\ detached'[q] = detached[q]
            /\ pc'[q] = pc[q] /\ arg'[q] = arg[q]
        BY <2>1 DEF OthersKept
      <3>3. AttachOp(h) \in Elements(queue[q]) \/ DetachOp(h) \in Elements(queue[q])
              => InQueue(q, h)
        BY QueueOps
      <3> QED
        BY <3>1, <3>2, <3>3 DEF Place, Mine, InQueue, InInstalled, InDetached
    <2> QED
      BY <2>1
  <1>4. ASSUME NEW q \in Procs, NEW r \in Procs, q # r, NEW h \in Hooks
        PROVE  ~(Mine(q, h)' /\ Mine(r, h)')
    <2>1. ~(Mine(q, h) /\ Mine(r, h))
      BY <1>4 DEF Places
    <2>2. CASE q = p
      BY <1>1, <1>4, <2>2
    <2>3. CASE r = p
      BY <1>1, <1>4, <2>3
    <2>4. CASE q # p /\ r # p
      BY <1>1, <2>1, <2>4
    <2> QED
      BY <2>2, <2>3, <2>4
  <1>5. ASSUME NEW h \in Hooks, stage'[h] = "installed"
        PROVE  \E q \in Procs : InInstalled(q, h)'
    <2>1. CASE stage[h] = "installed"
      <3>1. PICK q \in Procs : InInstalled(q, h)
        BY <2>1 DEF Places
      <3> QED
        BY <1>1, <1>5, <3>1
    <2> QED
      BY <1>5, <2>1
  <1> QED
    BY <1>2, <1>3, <1>4, <1>5 DEF Places

\* A step of p that hands no hook around.
LEMMA PlacesQuiet ==
    ASSUME TypeOK, Places, NEW p \in Procs, OthersKept(p),
           UNCHANGED <<queue, installed, detached>>,
           \A h \in Hooks : stage'[h] # stage[h] =>
               stage[h] \notin MineStages /\ stage'[h] \notin MineStages,
           pc'[p] \in DropPcs => pc[p] \in DropPcs /\ arg'[p] = arg[p],
           detached[p] # << >> => pc'[p] \in DetachedPcs,
           pc'[p] = "com_relink" => arg'[p] = Head(detached[p]).hook
    PROVE  Places'
  <1>1. ASSUME NEW h \in Hooks
        PROVE  Mine(p, h)' => Mine(p, h)
    BY DEF Mine, InQueue, InInstalled, InDetached
  <1>2. ListOK(p)'
    BY DEF Places, ListOK
  <1>3. ASSUME NEW h \in Hooks
        PROVE  Place(p, h)'
    BY <1>3 DEF Places, Place, InQueue, InInstalled, InDetached, MineStages
  <1> QED
    BY <1>1, <1>2, <1>3, PlacesStep DEF InInstalled, MineStages

\* A hook nobody has in hand is queued.
LEMMA PlacesAppend ==
    ASSUME TypeOK, Places, NEW p \in Procs, OthersKept(p), NEW h \in Hooks,
           stage[h] \notin MineStages, NEW o,
           \/ o = AttachOp(h) /\ stage' = [stage EXCEPT ![h] = "queued"]
           \/ o = DetachOp(h) /\ stage' = [stage EXCEPT ![h] = "detaching"],
           queue' = [queue EXCEPT ![p] = Append(@, o)],
           UNCHANGED <<installed, detached>>,
           pc[p] \in {"ready", "att_snapshot"}, pc'[p] = "ready"
    PROVE  Places'
  <1>0. ~Mine(p, h) /\ ListOK(p) /\ (\A g \in Hooks : Place(p, g))
    BY MineStage DEF Places
  <1>1. o \in Ops /\ o.hook = h /\ queue[p] \in Seq(Ops) /\ queue'[p] = Append(queue[p], o)
    <2>1. o \in Ops /\ o.hook = h
      BY QueueOps
    <2>2. queue[p] \in Seq(Ops) /\ queue'[p] = Append(queue[p], o)
      BY DEF TypeOK
    <2> QED
      BY <2>1, <2>2
  <1>2. Elements(queue'[p]) = Elements(queue[p]) \cup {o}
    BY <1>1, ElementsOf
  <1>3. o \notin Elements(queue[p]) /\ detached[p] = << >>
    <2>1. o \notin Elements(queue[p])
      BY <1>0, <1>1 DEF Mine, InQueue
    <2>2. detached[p] = << >>
      BY <1>0 DEF ListOK, DetachedPcs
    <2> QED
      BY <2>1, <2>2
  <1>4. ListOK(p)'
    <2>1. Distinct(queue'[p])
      BY <1>0, <1>1, <1>3, DistinctSeq DEF ListOK
    <2> QED
      BY <1>0, <1>3, <2>1 DEF ListOK
  <1>5. ASSUME NEW g \in Hooks
        PROVE  /\ InQueue(p, g)' <=> InQueue(p, g) \/ g = h
               /\ Mine(p, g)' => Mine(p, g) \/ g = h
               /\ g # h => stage'[g] = stage[g]
    <2>1. InQueue(p, g)' <=> InQueue(p, g) \/ g = h
      BY <1>1, <1>2 DEF InQueue
    <2> QED
      BY <2>1 DEF Mine, InInstalled, InDetached, DropPcs, TypeOK
  <1>6. ASSUME NEW g \in Hooks
        PROVE  Place(p, g)'
    <2>1. CASE g # h
      <3>1. AttachOp(g) # o /\ DetachOp(g) # o
        BY <1>1, <2>1, QueueOps
      <3> QED
        BY <1>0, <1>2, <1>5, <2>1, <3>1 DEF Place, InInstalled, InDetached, DropPcs
    <2>2. CASE g = h
      <3>1. /\ AttachOp(h) \notin Elements(queue[p]) /\ DetachOp(h) \notin Elements(queue[p])
            /\ AttachOp(h) # DetachOp(h)
        BY <1>0, QueueOps DEF Mine
      <3>2. ~InInstalled(p, h)' /\ ~InDetached(p, h)'
        BY <1>0 DEF Mine, InInstalled, InDetached
      <3>3. /\ AttachOp(h) \in Elements(queue'[p]) => stage'[h] = "queued"
            /\ DetachOp(h) \in Elements(queue'[p]) => stage'[h] = "detaching"
        BY <1>2, <3>1 DEF TypeOK
      <3> QED
        BY <2>2, <3>2, <3>3 DEF Place, DropPcs
    <2> QED
      BY <2>1, <2>2
  <1>7. ASSUME NEW g \in Hooks
        PROVE  stage'[g] = "installed" => stage[g] = "installed"
    BY <1>5 DEF TypeOK
  <1> QED
    BY <1>4, <1>5, <1>6, <1>7, PlacesStep DEF InInstalled

\* The queue of p is dropped.
LEMMA PlacesDrop ==
    ASSUME TypeOK, Places, NEW p \in Procs, OthersKept(p), DropQueue(p),
           UNCHANGED <<installed, detached>>,
           pc[p] \in {"ready", "com_code", "com_dismantle"}, pc'[p] = "ready"
    PROVE  Places'
  <1>0. ListOK(p) /\ (\A g \in Hooks : Place(p, g))
    BY DEF Places
  <1>1. queue'[p] = << >> /\ Elements(queue'[p]) = {} /\ Distinct(queue'[p])
    BY DEF DropQueue, TypeOK, Elements, Distinct
  <1>2. detached[p] = << >>
    BY <1>0 DEF ListOK, DetachedPcs
  <1>3. ASSUME NEW h \in Hooks
        PROVE  stage'[h] = IF AttachOp(h) \in Elements(queue[p]) THEN "gone"
                           ELSE IF DetachOp(h) \in Elements(queue[p]) THEN "guard" ELSE stage[h]
    <2>1. DetachOp(h) \in Elements(queue[p]) <=>
            \E i \in 1 .. Len(queue[p]) : queue[p][i] = [op |-> "detach", hook |-> h]
      BY DEF DetachOp, Elements
    <2> QED
      BY <2>1, QueueOps DEF DropQueue
  <1>4. ASSUME NEW h \in Hooks
        PROVE  /\ ~InQueue(p, h)' /\ (InInstalled(p, h)' <=> InInstalled(p, h))
               /\ ~InDetached(p, h)' /\ ~InDetached(p, h)
    BY <1>1, <1>2 DEF InQueue, InInstalled, InDetached, Elements
  <1>5. ASSUME NEW h \in Hooks
        PROVE  /\ stage'[h] # stage[h] => Mine(p, h)
               /\ Mine(p, h)' => Mine(p, h)
               /\ stage'[h] = "installed" => stage[h] = "installed"
    BY <1>3, <1>4, QueueOps DEF Mine, DropPcs
  <1>6. ASSUME NEW h \in Hooks
        PROVE  Place(p, h)'
    <2>1. InInstalled(p, h) => stage'[h] = "installed"
      BY <1>0, <1>3 DEF Place
    <2> QED
      BY <1>1, <1>4, <2>1 DEF Place, DropPcs
  <1>7. ListOK(p)'
    BY <1>0, <1>1, <1>2 DEF ListOK
  <1> QED
    BY <1>4, <1>5, <1>6, <1>7, PlacesStep

\* The first queued operation leaves the queue, and with it its hook.
LEMMA QueueHead ==
    ASSUME TypeOK, Places, NEW p \in Procs, NEW h \in Hooks, NEW o,
           o = AttachOp(h) \/ o = DetachOp(h),
           queue[p] # << >>, Head(queue[p]) = o, queue' = [queue EXCEPT ![p] = Tail(@)]
    PROVE  /\ Distinct(queue'[p]) /\ Elements(queue'[p]) = Elements(queue[p]) \ {o}
           /\ o \in Elements(queue[p]) /\ InQueue(p, h)
           /\ ~InQueue(p, h)' /\ (\A g \in Hooks : g # h => (InQueue(p, g)' <=> InQueue(p, g)))
           /\ \A g \in Hooks : g # h => o # AttachOp(g) /\ o # DetachOp(g)
  <1>1. /\ queue[p] \in Seq(Ops) /\ queue'[p] = Tail(queue[p]) /\ Distinct(queue[p])
        /\ Place(p, h)
    BY DEF TypeOK, Places, ListOK
  <1>2. /\ Distinct(queue'[p]) /\ Elements(queue'[p]) = Elements(queue[p]) \ {o}
        /\ o \in Elements(queue[p])
    BY <1>1, DistinctSeq, ElementsOf
  <1>3. o.hook = h
    BY QueueOps
  <1>4. ASSUME NEW g \in Hooks, g # h
        PROVE  InQueue(p, g)' <=> InQueue(p, g)
    BY <1>2, <1>3, <1>4 DEF InQueue
  <1>5. ~InQueue(p, h)'
    <2>1. ~(AttachOp(h) \in Elements(queue[p]) /\ DetachOp(h) \in Elements(queue[p]))
      BY <1>1 DEF Place
    <2>2. ASSUME NEW x \in Elements(queue'[p]), x.hook = h
          PROVE  FALSE
      <3>1. x = AttachOp(h) \/ x = DetachOp(h)
        BY <1>2, <2>2, QueueOps
      <3> QED
        BY <1>2, <2>1, <2>2, <3>1
    <2> QED
      BY <2>2 DEF InQueue
  <1>6. \A g \in Hooks : g # h => o # AttachOp(g) /\ o # DetachOp(g)
    BY <1>3, QueueOps
  <1>7. InQueue(p, h)
    BY <1>2, <1>3 DEF InQueue
  <1> QED
    BY <1>2, <1>4, <1>5, <1>6, <1>7

LEMMA PlacesInstall ==
    ASSUME TypeOK, Places, NEW p \in Procs, OthersKept(p), NEW h \in Hooks,
           queue[p] # << >>, Head(queue[p]) = AttachOp(h),
           queue' = [queue EXCEPT ![p] = Tail(@)],
           stage' = [stage EXCEPT ![h] = "installed"],
           installed' = [installed EXCEPT ![p] = Append(@, h)],
           UNCHANGED <<detached, pc, arg>>
    PROVE  Places'
  <1> DEFINE o == AttachOp(h)
  <1>0. ListOK(p) /\ (\A g \in Hooks : Place(p, g))
    BY DEF Places
  <1>1. /\ Distinct(queue'[p]) /\ Elements(queue'[p]) = Elements(queue[p]) \ {o}
        /\ o \in Elements(queue[p]) /\ InQueue(p, h)
        /\ ~InQueue(p, h)' /\ (\A g \in Hooks : g # h => (InQueue(p, g)' <=> InQueue(p, g)))
        /\ \A g \in Hooks : g # h => o # AttachOp(g) /\ o # DetachOp(g)
    BY QueueHead
  <1> HIDE DEF o
  <1>2. stage[h] = "queued" /\ pc[p] = pc'[p] /\ arg'[p] = arg[p] /\ detached'[p] = detached[p]
    BY <1>0, <1>1 DEF Place, o
  <1>3. ~InInstalled(p, h) /\ ~InDetached(p, h) /\ ~(pc[p] \in DropPcs /\ arg[p] = h)
    BY <1>0, <1>2 DEF Place
  <1>4. /\ installed[p] \in Seq(Hooks) /\ installed'[p] = Append(installed[p], h)
        /\ stage'[h] = "installed" /\ \A g \in Hooks : g # h => stage'[g] = stage[g]
    BY DEF TypeOK
  <1>5. Distinct(installed'[p]) /\ Elements(installed'[p]) = Elements(installed[p]) \cup {h}
    BY <1>0, <1>3, <1>4, DistinctSeq, ElementsOf DEF ListOK, InInstalled
  <1>6. ListOK(p)'
    BY <1>0, <1>1, <1>2, <1>5 DEF ListOK
  <1>7. ASSUME NEW g \in Hooks
        PROVE  /\ InInstalled(p, g)' <=> InInstalled(p, g) \/ g = h
               /\ InDetached(p, g)' <=> InDetached(p, g)
               /\ Mine(p, g)' => Mine(p, g)
    BY <1>1, <1>2, <1>5 DEF InInstalled, InDetached, Mine
  <1>8. ASSUME NEW g \in Hooks
        PROVE  Place(p, g)'
    <2>1. CASE g = h
      <3>1. AttachOp(h) \notin Elements(queue'[p]) /\ DetachOp(h) \notin Elements(queue'[p])
        BY <1>0, <1>1, <1>2 DEF o, Place
      <3> QED
        BY <1>2, <1>3, <1>4, <1>7, <2>1, <3>1 DEF Place
    <2>2. CASE g # h
      BY <1>0, <1>1, <1>2, <1>4, <1>7, <2>2 DEF Place
    <2> QED
      BY <2>1, <2>2
  <1> QED
    BY <1>1, <1>4, <1>6, <1>7, <1>8, PlacesStep DEF Mine

LEMMA PlacesDetach ==
    ASSUME TypeOK, Places, NEW p \in Procs, OthersKept(p), NEW h \in Hooks, NEW b \in BOOLEAN,
           queue[p] # << >>, Head(queue[p]) = DetachOp(h),
           queue' = [queue EXCEPT ![p] = Tail(@)],
           detached' = [detached EXCEPT ![p] = Append(@, [hook |-> h, was |-> b])],
           UNCHANGED <<stage, installed, pc, arg>>, pc[p] = "com_install"
    PROVE  Places'
  <1> DEFINE o == DetachOp(h)
             d == [hook |-> h, was |-> b]
             D == [hook : Hooks, was : BOOLEAN]
  <1>0. ListOK(p) /\ (\A g \in Hooks : Place(p, g))
    BY DEF Places
  <1>1. /\ Distinct(queue'[p]) /\ Elements(queue'[p]) = Elements(queue[p]) \ {o}
        /\ o \in Elements(queue[p]) /\ InQueue(p, h)
        /\ ~InQueue(p, h)' /\ (\A g \in Hooks : g # h => (InQueue(p, g)' <=> InQueue(p, g)))
        /\ \A g \in Hooks : g # h => o # AttachOp(g) /\ o # DetachOp(g)
    BY QueueHead
  <1>2. d \in D /\ d.hook = h
    OBVIOUS
  <1>3. /\ detached[p] \in Seq(D)
        /\ detached'[p] = Append(detached[p], d)
    BY DEF TypeOK
  <1> HIDE DEF o, d, D
  <1>4. stage[h] = "detaching" /\ ~InDetached(p, h)
    BY <1>0, <1>1 DEF Place, o
  <1>5. Distinct(detached'[p]) /\ Elements(detached'[p]) = Elements(detached[p]) \cup {d}
    <2>1. d \notin Elements(detached[p])
      BY <1>2, <1>4 DEF InDetached
    <2> QED
      BY <1>0, <1>2, <1>3, <2>1, DistinctSeq, ElementsOf DEF ListOK
  <1>6. ListOK(p)'
    <2>1. \A x, y \in Elements(detached'[p]) : x.hook = y.hook => x = y
      BY <1>0, <1>2, <1>4, <1>5 DEF ListOK, InDetached
    <2> QED
      BY <1>0, <1>1, <1>5, <2>1 DEF ListOK, DetachedPcs
  <1>7. ASSUME NEW g \in Hooks
        PROVE  /\ InDetached(p, g)' <=> InDetached(p, g) \/ g = h
               /\ InInstalled(p, g)' <=> InInstalled(p, g)
               /\ Mine(p, g)' => Mine(p, g)
    <2>1. InDetached(p, g)' <=> InDetached(p, g) \/ g = h
      BY <1>2, <1>5 DEF InDetached
    <2>2. InInstalled(p, g)' <=> InInstalled(p, g)
      BY DEF InInstalled
    <2> QED
      BY <1>1, <2>1, <2>2 DEF Mine
  <1>8. ASSUME NEW g \in Hooks
        PROVE  Place(p, g)'
    <2>1. CASE g = h
      <3>1. AttachOp(h) \notin Elements(queue'[p]) /\ DetachOp(h) \notin Elements(queue'[p])
        BY <1>0, <1>1, <1>4 DEF o, Place
      <3> QED
        BY <1>0, <1>1, <1>4, <1>7, <2>1, <3>1 DEF Place
    <2>2. CASE g # h
      BY <1>0, <1>1, <1>7, <2>2 DEF Place
    <2> QED
      BY <2>1, <2>2
  <1> QED
    BY <1>6, <1>7, <1>8, PlacesStep

\* The installed hooks go to the client.
LEMMA PlacesPublished ==
    ASSUME TypeOK, Places, NEW p \in Procs, OthersKept(p),
           stage' = [h \in Hooks |-> IF \E i \in 1 .. Len(installed[p]) : installed[p][i] = h
                                     THEN "guard" ELSE stage[h]],
           installed' = [installed EXCEPT ![p] = << >>],
           UNCHANGED <<queue, detached, arg>>,
           pc[p] = "com_publish", pc'[p] = "com_finalize"
    PROVE  Places'
  <1>0. ListOK(p) /\ (\A g \in Hooks : Place(p, g))
    BY DEF Places
  <1>1. installed'[p] = << >> /\ Distinct(installed'[p])
    BY DEF TypeOK, Distinct
  <1>2. ASSUME NEW g \in Hooks
        PROVE  /\ stage'[g] = IF InInstalled(p, g) THEN "guard" ELSE stage[g]
               /\ ~InInstalled(p, g)'
               /\ InQueue(p, g)' <=> InQueue(p, g)
               /\ InDetached(p, g)' <=> InDetached(p, g)
    BY <1>1 DEF InInstalled, InQueue, InDetached, Elements
  <1>3. ListOK(p)'
    BY <1>0, <1>1 DEF ListOK, DetachedPcs
  <1>4. ASSUME NEW g \in Hooks
        PROVE  /\ Place(p, g)'
               /\ Mine(p, g)' => Mine(p, g)
               /\ stage'[g] # stage[g] => Mine(p, g)
    <2>1. Place(p, g) /\ queue'[p] = queue[p] /\ pc'[p] \notin DropPcs
      BY <1>0 DEF DropPcs
    <2> QED
      BY <1>2, <2>1 DEF Mine, Place
  <1> QED
    BY <1>2, <1>3, <1>4, PlacesStep

\* An applied detach is finished or undone.
LEMMA PlacesUndetach ==
    ASSUME TypeOK, Places, NEW p \in Procs, OthersKept(p), NEW d \in Elements(detached[p]),
           d.hook \in Hooks,
           Distinct(detached'[p]), Elements(detached'[p]) = Elements(detached[p]) \ {d},
           stage' = [stage EXCEPT ![d.hook] = "guard"],
           UNCHANGED <<queue, installed>>,
           pc[p] \in DetachedPcs, pc'[p] \in DetachedPcs \ {"com_relink"}
    PROVE  Places'
  <1> DEFINE h == d.hook
  <1>0. /\ ListOK(p) /\ (\A g \in Hooks : Place(p, g))
        /\ pc[p] \notin DropPcs /\ pc'[p] \notin DropPcs
    BY DEF Places, DetachedPcs, DropPcs
  <1>1. ASSUME NEW g \in Hooks
        PROVE  /\ InDetached(p, g)' <=> InDetached(p, g) /\ g # h
               /\ InInstalled(p, g)' <=> InInstalled(p, g)
               /\ InQueue(p, g)' <=> InQueue(p, g)
    <2>1. InDetached(p, g)' <=> InDetached(p, g) /\ g # h
      BY <1>0 DEF InDetached, ListOK
    <2> QED
      BY <2>1 DEF InInstalled, InQueue
  <1>2. /\ InDetached(p, h) /\ stage[h] = "detaching" /\ ~InQueue(p, h) /\ ~InInstalled(p, h)
        /\ stage'[h] = "guard" /\ \A g \in Hooks : g # h => stage'[g] = stage[g]
    <2>1. InDetached(p, h)
      BY DEF InDetached
    <2>2. stage[h] = "detaching" /\ ~InQueue(p, h) /\ ~InInstalled(p, h)
      BY <1>0, <2>1 DEF Place
    <2> QED
      BY <2>1, <2>2 DEF TypeOK
  <1>3. ListOK(p)'
    BY <1>0 DEF ListOK
  <1> HIDE DEF h
  <1>4. ASSUME NEW g \in Hooks
        PROVE  Place(p, g)'
    <2>1. CASE g = h
      <3>1. AttachOp(h) \notin Elements(queue[p]) /\ DetachOp(h) \notin Elements(queue[p])
        BY <1>2, <2>1, QueueOps
      <3> QED
        BY <1>0, <1>1, <1>2, <2>1, <3>1 DEF Place
    <2>2. CASE g # h
      BY <1>0, <1>1, <1>2, <2>2 DEF Place
    <2> QED
      BY <2>1, <2>2
  <1>5. ASSUME NEW g \in Hooks
        PROVE  /\ Mine(p, g)' => Mine(p, g)
               /\ stage'[g] # stage[g] => Mine(p, g)
               /\ stage'[g] = "installed" => stage[g] = "installed"
    BY <1>0, <1>1, <1>2 DEF Mine
  <1> QED
    BY <1>1, <1>3, <1>4, <1>5, PlacesStep

\* An installed hook is dismantled.
LEMMA PlacesDismantle ==
    ASSUME TypeOK, Places, NEW p \in Procs, OthersKept(p), installed[p] # << >>,
           stage' = [stage EXCEPT ![Head(installed[p])] = "gone"],
           installed' = [installed EXCEPT ![p] = Tail(@)],
           UNCHANGED <<queue, detached, pc, arg>>
    PROVE  Places'
  <1> DEFINE h == Head(installed[p])
  <1>0. ListOK(p) /\ (\A g \in Hooks : Place(p, g))
    BY DEF Places
  <1>1. installed[p] \in Seq(Hooks) /\ installed'[p] = Tail(installed[p])
    BY DEF TypeOK
  <1>2. /\ h \in Hooks /\ h \in Elements(installed[p]) /\ Distinct(installed'[p])
        /\ Elements(installed'[p]) = Elements(installed[p]) \ {h}
    BY <1>0, <1>1, DistinctSeq, ElementsOf DEF ListOK
  <1>3. stage'[h] = "gone" /\ \A g \in Hooks : g # h => stage'[g] = stage[g]
    BY <1>2 DEF TypeOK
  <1> HIDE DEF h
  <1>4. ASSUME NEW g \in Hooks
        PROVE  /\ InInstalled(p, g)' <=> InInstalled(p, g) /\ g # h
               /\ InDetached(p, g)' <=> InDetached(p, g)
               /\ InQueue(p, g)' <=> InQueue(p, g)
               /\ Mine(p, g)' => Mine(p, g)
    BY <1>2 DEF InInstalled, InDetached, InQueue, Mine
  <1>5. ListOK(p)'
    BY <1>0, <1>2 DEF ListOK
  <1>6. stage[h] = "installed" /\ Mine(p, h)
    BY <1>0, <1>2 DEF Place, Mine, InInstalled
  <1>7. ASSUME NEW g \in Hooks
        PROVE  Place(p, g)'
    <2>1. Place(p, g)
      BY <1>0
    <2> QED
      BY <1>3, <1>4, <1>6, <2>1 DEF Place
  <1> QED
    BY <1>3, <1>4, <1>5, <1>6, <1>7, PlacesStep

\* The client unhooks or drops a hook.
LEMMA PlacesTake ==
    ASSUME TypeOK, Places, NEW p \in Procs, OthersKept(p), NEW h \in Hooks,
           stage[h] = "guard", stage' = [stage EXCEPT ![h] = "dropping"],
           UNCHANGED <<queue, installed, detached>>,
           pc[p] = "ready", pc'[p] \in DropPcs, arg'[p] = h
    PROVE  Places'
  <1>0. /\ ListOK(p) /\ (\A g \in Hooks : Place(p, g)) /\ detached[p] = << >>
        /\ pc[p] \notin DropPcs /\ pc'[p] # "com_relink"
    BY DEF Places, DropPcs, ListOK, DetachedPcs
  <1>1. stage'[h] = "dropping" /\ \A g \in Hooks : g # h => stage'[g] = stage[g]
    BY DEF TypeOK
  <1>2. ListOK(p)'
    BY <1>0 DEF ListOK
  <1>3. ASSUME NEW g \in Hooks
        PROVE  /\ InInstalled(p, g)' <=> InInstalled(p, g)
               /\ InDetached(p, g)' <=> InDetached(p, g)
               /\ InQueue(p, g)' <=> InQueue(p, g)
               /\ Mine(p, g)' => Mine(p, g) \/ g = h
    BY <1>0 DEF InInstalled, InDetached, InQueue, Mine
  <1>4. ASSUME NEW g \in Hooks
        PROVE  Place(p, g)'
    <2>1. Place(p, g)
      BY <1>0
    <2> QED
      BY <1>1, <1>3, <2>1 DEF Place
  <1> QED
    BY <1>1, <1>2, <1>3, <1>4, PlacesStep DEF MineStages

\* A hook is dropped or leaked.
LEMMA PlacesLeave ==
    ASSUME TypeOK, Places, NEW p \in Procs, OthersKept(p), NEW x \in {"gone", "leaked"},
           arg[p] \in Hooks, stage' = [stage EXCEPT ![arg[p]] = x],
           UNCHANGED <<queue, installed, detached>>,
           pc[p] \in DropPcs, pc'[p] = "ready"
    PROVE  Places'
  <1> DEFINE h == arg[p]
  <1>0. /\ ListOK(p) /\ (\A g \in Hooks : Place(p, g)) /\ detached[p] = << >>
        /\ pc'[p] \notin DropPcs
    BY DEF Places, DropPcs, ListOK, DetachedPcs
  <1>1. stage'[h] = x /\ \A g \in Hooks : g # h => stage'[g] = stage[g]
    BY DEF TypeOK
  <1>2. ListOK(p)'
    BY <1>0 DEF ListOK
  <1>3. ASSUME NEW g \in Hooks
        PROVE  /\ InInstalled(p, g)' <=> InInstalled(p, g)
               /\ InDetached(p, g)' <=> InDetached(p, g)
               /\ InQueue(p, g)' <=> InQueue(p, g)
               /\ Mine(p, g)' => Mine(p, g)
    BY <1>0 DEF InInstalled, InDetached, InQueue, Mine
  <1>4. stage[h] = "dropping" /\ Mine(p, h)
    BY <1>0 DEF Place, Mine
  <1>5. ASSUME NEW g \in Hooks
        PROVE  Place(p, g)'
    <2>1. Place(p, g)
      BY <1>0
    <2> QED
      BY <1>0, <1>1, <1>3, <1>4, <2>1 DEF Place
  <1> QED
    BY <1>1, <1>2, <1>3, <1>4, <1>5, PlacesStep

\* Every step knows where the hooks are.
LEMMA PlacesKept ==
    ASSUME TypeOK, CursorOK, Builders, Places, Disciplined, NEW p \in Procs, Step(p)
    PROVE  Places'
  <1>0. OthersKept(p) /\ ListOK(p)
    BY OthersAreKept DEF Places
  <1> USE DEF hookVars, regVars, lockVars, txVars, callVars, Goto
  <1>1. CASE Begin(p) \/ update_thread(p) \/ Toggle(p) \/ Int3(p)
    <2>1. UNCHANGED <<queue, installed, detached, stage, pc, arg>>
      BY <1>1 DEF Begin, update_thread, Toggle, enable, disable, Int3, arm_int3, remove_int3
    <2> QED
      BY <1>0, <2>1, PlacesQuiet DEF ListOK
  <1>2. CASE abort(p)
    <2>1. /\ DropQueue(p) /\ UNCHANGED <<installed, detached, pc>> /\ pc[p] = "ready"
      BY <1>2 DEF abort
    <2> QED
      BY <1>0, <2>1, PlacesDrop
  <1>3. ASSUME NEW h \in Hooks, detach(p, h)
        PROVE  Places'
    <2> DEFINE o == DetachOp(h)
    <2>1. /\ stage[h] \notin MineStages /\ stage' = [stage EXCEPT ![h] = "detaching"]
          /\ queue' = [queue EXCEPT ![p] = Append(@, o)]
          /\ UNCHANGED <<installed, detached, pc>> /\ pc[p] = "ready"
      BY <1>3 DEF detach, MineStages, DetachOp
    <2> QED
      BY <1>0, <2>1, PlacesAppend
  <1>4. CASE Attach(p)
    <2>1. ASSUME NEW h \in Hooks, NEW s, NEW follow, attach(p, h, s, follow)
          PROVE  Places'
      <3>1. /\ UNCHANGED <<queue, installed, detached>> /\ pc[p] = "ready"
            /\ pc'[p] \in {"att_managed", "att_check"}
            /\ \A g \in Hooks : stage'[g] # stage[g] => stage[g] = "none" /\ stage'[g] = "building"
        BY <2>1 DEF attach, TypeOK
      <3>2. detached[p] = << >>
        BY <1>0, <3>1 DEF ListOK, DetachedPcs
      <3> QED
        BY <1>0, <3>1, <3>2, PlacesQuiet DEF DropPcs, MineStages
    <2>2. CASE attach_snapshot(p)
      <3> DEFINE h == arg[p]
                 o == AttachOp(h)
      <3>1. h \in Hooks /\ stage[h] \notin MineStages
        BY <2>2 DEF attach_snapshot, TypeOK, HookPcs, AttachPcs, Builders, MineStages
      <3>2. /\ stage' = [stage EXCEPT ![h] = "queued"]
            /\ queue' = [queue EXCEPT ![p] = Append(@, o)]
            /\ UNCHANGED <<installed, detached>> /\ pc[p] = "att_snapshot" /\ pc'[p] = "ready"
        BY <2>2 DEF attach_snapshot, AttachOp, TypeOK
      <3> HIDE DEF h
      <3> QED
        BY <1>0, <3>1, <3>2, PlacesAppend
    <2>3. CASE attach_managed(p) \/ attach_stub(p) \/ attach_follow(p) \/ attach_check(p)
                 \/ attach_relocate(p)
      <3>1. arg[p] \in Hooks /\ stage[arg[p]] = "building" /\ pc[p] \in AttachPcs
        BY <2>3 DEF attach_managed, attach_stub, attach_follow, attach_check, attach_relocate,
           TypeOK, HookPcs, AttachPcs, Builders
      <3>2. /\ UNCHANGED <<queue, installed, detached>>
            /\ pc'[p] \in AttachPcs \cup {"ready"}
            /\ stage' = stage \/ stage' = [stage EXCEPT ![arg[p]] = "none"]
        BY <2>3 DEF attach_managed, attach_stub, attach_follow, attach_check, attach_relocate,
           Reject, TypeOK, AttachPcs
      <3>3. detached[p] = << >> /\ pc'[p] \notin DropPcs \cup {"com_relink"}
        BY <1>0, <3>1, <3>2 DEF ListOK, DetachedPcs, AttachPcs, DropPcs
      <3>4. \A g \in Hooks : stage'[g] # stage[g] => stage[g] = "building" /\ stage'[g] = "none"
        BY <3>1, <3>2 DEF TypeOK
      <3> QED
        BY <1>0, <3>2, <3>3, <3>4, PlacesQuiet DEF MineStages
    <2> QED
      BY <1>4, <2>1, <2>2, <2>3 DEF Attach
  <1>5. CASE commit(p) \/ commit_lock(p) \/ commit_failed(p)
    <2>1. /\ pc[p] \in {"ready", "com_code", "com_dismantle"} /\ UNCHANGED <<installed, detached, arg>>
          /\ \/ UNCHANGED <<stage, queue>> /\ pc'[p] \in {"com_code", "com_install"}
             \/ DropQueue(p) /\ pc'[p] = "ready"
      BY <1>5 DEF commit, commit_lock, CommitFails, commit_failed, TypeOK
    <2>2. detached[p] = << >>
      BY <1>0, <2>1 DEF ListOK, DetachedPcs
    <2>3. CASE UNCHANGED <<stage, queue>> /\ pc'[p] \in {"com_code", "com_install"}
      BY <1>0, <2>1, <2>2, <2>3, PlacesQuiet DEF DropPcs
    <2>4. CASE DropQueue(p) /\ pc'[p] = "ready"
      BY <1>0, <2>1, <2>4, PlacesDrop
    <2> QED
      BY <2>1, <2>3, <2>4
  <1>6. CASE commit_install(p)
    <2>1. PICK h \in Hooks : install_inline(p, h) \/ prepare_detach(p, h)
      BY <1>6 DEF commit_install
    <2>2. /\ pc[p] = "com_install" /\ queue[p] # << >> /\ queue' = [queue EXCEPT ![p] = Tail(@)]
          /\ UNCHANGED <<pc, arg>>
      BY <1>6 DEF commit_install
    <2>3. CASE install_inline(p, h)
      <3>1. /\ Head(queue[p]) = AttachOp(h) /\ stage' = [stage EXCEPT ![h] = "installed"]
            /\ installed' = [installed EXCEPT ![p] = Append(@, h)] /\ UNCHANGED detached
        BY <2>3 DEF install_inline, AttachOp
      <3> QED
        BY <1>0, <2>2, <3>1, PlacesInstall
    <2>4. CASE prepare_detach(p, h)
      <3>1. PICK b \in BOOLEAN : b = enabled[h]
        BY DEF TypeOK
      <3>2. /\ Head(queue[p]) = DetachOp(h) /\ UNCHANGED <<stage, installed>>
            /\ detached' = [detached EXCEPT ![p] = Append(@, [hook |-> h, was |-> b])]
        BY <2>4, <3>1 DEF prepare_detach, DetachOp
      <3> QED
        BY <1>0, <2>2, <3>2, PlacesDetach
    <2> QED
      BY <2>1, <2>3, <2>4
  <1>7. CASE commit_published(p)
    <2>1. /\ stage' = [h \in Hooks |-> IF \E i \in 1 .. Len(installed[p]) : installed[p][i] = h
                                       THEN "guard" ELSE stage[h]]
          /\ installed' = [installed EXCEPT ![p] = << >>]
          /\ UNCHANGED <<queue, detached, arg>>
          /\ pc[p] = "com_publish" /\ pc'[p] = "com_finalize"
      BY <1>7 DEF commit_published, TypeOK
    <2> QED
      BY <1>0, <2>1, PlacesPublished
  <1>8. CASE commit_fail(p) \/ commit_applied(p) \/ publish(p) \/ detach_finalize(p) \/ commit_done(p)
              \/ rollback_start(p) \/ rollback(p) \/ rollback_done(p)
    <2>1. /\ UNCHANGED <<stage, queue, installed, detached>>
          /\ \/ pc'[p] \in DetachedPcs
             \/ pc'[p] = "com_dismantle" /\ pc[p] = "com_undo_install"
             \/ pc'[p] \in {"ready", "com_undo_install"} /\ detached[p] = << >>
             \/ pc'[p] = "com_undo_install" /\ pc[p] = "com_undo_install"
          /\ pc'[p] = "com_relink" => arg'[p] = Head(detached[p]).hook
      <3>1. CASE detach_finalize(p)
        BY <3>1 DEF detach_finalize, TypeOK, DetachedPcs
      <3>2. CASE commit_fail(p) \/ commit_applied(p) \/ publish(p)
        BY <3>2 DEF commit_fail, commit_applied, publish, TypeOK, DetachedPcs
      <3>3. CASE commit_done(p) \/ rollback_start(p) \/ rollback(p) \/ rollback_done(p)
        BY <3>3 DEF commit_done, rollback_start, rollback, rollback_done, TypeOK
      <3> QED
        BY <1>8, <3>1, <3>2, <3>3
    <2>2. pc[p] = "com_undo_install" => detached[p] = << >>
      BY <1>0 DEF ListOK, DetachedPcs
    <2>3. pc'[p] \notin DropPcs /\ (detached[p] # << >> => pc'[p] \in DetachedPcs)
      BY <2>1, <2>2 DEF DetachedPcs, DropPcs
    <2> QED
      BY <1>0, <2>1, <2>3, PlacesQuiet
  <1>9. CASE detach_relink(p) \/ rollback_detaches(p)
    <2> DEFINE D == [hook : Hooks, was : BOOLEAN]
    <2>1. detached[p] # << >> /\ detached[p] \in Seq(D) /\ Distinct(detached[p])
      BY <1>0, <1>9 DEF detach_relink, rollback_detaches, CursorOK, ListOK, TypeOK
    <2>2. \A d \in D : d.hook \in Hooks
      OBVIOUS
    <2> HIDE DEF D
    <2>3. CASE detach_relink(p)
      <3> DEFINE d == Head(detached[p])
      <3>1. /\ detached'[p] = Tail(detached[p]) /\ UNCHANGED <<queue, installed>>
            /\ pc[p] \in DetachedPcs /\ pc'[p] \in DetachedPcs \ {"com_relink"}
            /\ stage' = [stage EXCEPT ![d.hook] = "guard"]
        BY <1>0, <2>3 DEF detach_relink, TypeOK, DetachedPcs, ListOK
      <3>2. /\ Distinct(detached'[p]) /\ Elements(detached'[p]) = Elements(detached[p]) \ {d}
            /\ d \in Elements(detached[p]) /\ d.hook \in Hooks
        BY <2>1, <2>2, <3>1, DistinctSeq, ElementsOf
      <3> HIDE DEF d
      <3> QED
        BY <1>0, <3>1, <3>2, PlacesUndetach
    <2>4. CASE rollback_detaches(p)
      <3> DEFINE d == detached[p][Len(detached[p])]
      <3>1. /\ detached'[p] = SubSeq(detached[p], 1, Len(detached[p]) - 1)
            /\ UNCHANGED <<queue, installed>>
            /\ pc[p] \in DetachedPcs /\ pc'[p] \in DetachedPcs \ {"com_relink"}
            /\ stage' = [stage EXCEPT ![d.hook] = "guard"]
        BY <2>4 DEF rollback_detaches, TypeOK, DetachedPcs
      <3>2. /\ Distinct(detached'[p]) /\ Elements(detached'[p]) = Elements(detached[p]) \ {d}
            /\ d \in Elements(detached[p]) /\ d.hook \in Hooks
        BY <2>1, <2>2, <3>1, DistinctSeq, ElementsOf
      <3> HIDE DEF d
      <3> QED
        BY <1>0, <3>1, <3>2, PlacesUndetach
    <2> QED
      BY <1>9, <2>3, <2>4
  <1>10. CASE dismantle(p)
    <2>1. /\ installed[p] # << >> /\ stage' = [stage EXCEPT ![Head(installed[p])] = "gone"]
          /\ installed' = [installed EXCEPT ![p] = Tail(@)]
          /\ UNCHANGED <<queue, detached, pc, arg>>
      BY <1>10 DEF dismantle, Disciplined
    <2> QED
      BY <1>0, <2>1, PlacesDismantle
  <1>11. ASSUME NEW h \in Hooks, unhook(p, h) \/ Drop(p, h)
         PROVE  Places'
    <2>1. /\ stage[h] = "guard" /\ stage' = [stage EXCEPT ![h] = "dropping"]
          /\ UNCHANGED <<queue, installed, detached>>
          /\ pc[p] = "ready" /\ pc'[p] \in DropPcs /\ arg'[p] = h
      BY <1>11 DEF unhook, Drop, TypeOK, DropPcs
    <2> QED
      BY <1>0, <2>1, PlacesTake
  <1>12. CASE drop_write(p) \/ drop_release(p) \/ drop_relink(p) \/ drop_end(p)
    <2>1. pc[p] \in DropPcs /\ arg[p] \in Hooks /\ detached[p] = << >>
      <3>1. pc[p] \in DropPcs
        BY <1>12 DEF drop_write, drop_release, drop_relink, drop_end, DropPcs
      <3> QED
        BY <1>0, <3>1 DEF DropPcs, TypeOK, HookPcs, ListOK, DetachedPcs
    <2>2. /\ UNCHANGED <<queue, installed, detached>>
          /\ \/ UNCHANGED <<stage, arg>> /\ pc'[p] \in DropPcs
             \/ /\ \E x \in {"gone", "leaked"} : stage' = [stage EXCEPT ![arg[p]] = x]
                /\ pc'[p] = "ready"
      BY <1>12 DEF drop_write, drop_release, drop_relink, drop_end, DropPcs, TypeOK
    <2>3. CASE UNCHANGED <<stage, arg>> /\ pc'[p] \in DropPcs
      BY <1>0, <2>1, <2>2, <2>3, PlacesQuiet DEF DropPcs
    <2>4. CASE \E x \in {"gone", "leaked"} : stage' = [stage EXCEPT ![arg[p]] = x] /\ pc'[p] = "ready"
      BY <1>0, <2>1, <2>2, <2>4, PlacesLeave
    <2> QED
      BY <2>2, <2>3, <2>4
  <1> QED
    BY <1>1, <1>2, <1>3, <1>4, <1>5, <1>6, <1>7, <1>8, <1>9, <1>10, <1>11, <1>12
       DEF Step, Transaction, Commit, Unhook

-----------------------------------------------------------------------------
(***************************************************************************)
(* How a hook moves on                                                     *)
(***************************************************************************)
AttachMoves == {<<"none", "building">>, <<"building", "none">>, <<"building", "queued">>}
CallMoves == {<<"guard", "detaching">>, <<"queued", "gone">>, <<"detaching", "guard">>,
              <<"queued", "installed">>, <<"installed", "guard">>, <<"installed", "gone">>,
              <<"guard", "dropping">>, <<"dropping", "leaked">>, <<"dropping", "gone">>}

Later == {"guard", "detaching", "dropping", "gone", "leaked"}

LEMMA AttachMove ==
    ASSUME TypeOK, Builders, NEW p \in Procs, Attach(p), NEW h \in Hooks, stage'[h] # stage[h]
    PROVE  <<stage[h], stage'[h]>> \in AttachMoves
  <1> USE DEF hookVars, regVars, lockVars, txVars, callVars, Goto
  <1>1. ASSUME NEW g \in Hooks, NEW s, NEW follow, attach(p, g, s, follow)
        PROVE  stage[h] = "none" /\ stage'[h] = "building"
    BY <1>1 DEF attach, TypeOK
  <1>2. ASSUME attach_managed(p) \/ attach_stub(p) \/ attach_follow(p) \/ attach_check(p)
                \/ attach_relocate(p) \/ attach_snapshot(p)
        PROVE  stage[h] = "building" /\ stage'[h] \in {"none", "queued"}
    <2>1. /\ pc[p] \in AttachPcs
          /\ stage' = stage \/ \E x \in {"none", "queued"} : stage' = [stage EXCEPT ![arg[p]] = x]
      BY <1>2 DEF attach_managed, attach_stub, attach_follow, attach_check, attach_relocate,
         attach_snapshot, Reject, AttachPcs
    <2> QED
      BY <2>1 DEF Builders, TypeOK
  <1>3. CASE \E g \in Hooks, s \in Funcs \cup Gateways, f \in BOOLEAN : attach(p, g, s, f)
    <2>1. stage[h] = "none" /\ stage'[h] = "building"
      BY <1>1, <1>3
    <2> QED
      BY <2>1 DEF AttachMoves
  <1>4. CASE attach_managed(p) \/ attach_stub(p) \/ attach_follow(p) \/ attach_check(p)
              \/ attach_relocate(p) \/ attach_snapshot(p)
    <2>1. stage[h] = "building" /\ stage'[h] \in {"none", "queued"}
      BY <1>2, <1>4
    <2> QED
      BY <2>1 DEF AttachMoves
  <1> QED
    BY <1>3, <1>4 DEF Attach

\* What dropping the queue of p does to a hook.
LEMMA DropQueueMove ==
    ASSUME TypeOK, Places, NEW p \in Procs, DropQueue(p), NEW h \in Hooks
    PROVE  /\ stage'[h] # stage[h] =>
                \/ h \in Queued(p) /\ stage[h] = "queued" /\ stage'[h] = "gone"
                \/ h \notin Queued(p) /\ stage[h] = "detaching" /\ stage'[h] = "guard"
           /\ retired'[h] = IF h \in Queued(p) THEN retired[h] + 1 ELSE retired[h]
           /\ h \in Queued(p) => stage[h] = "queued" /\ stage'[h] = "gone"
  <1>1. DetachOp(h) \in Elements(queue[p]) <=>
            \E i \in 1 .. Len(queue[p]) : queue[p][i] = [op |-> "detach", hook |-> h]
    BY DEF DetachOp, Elements
  <1>2. stage'[h] = IF h \in Queued(p) THEN "gone"
                    ELSE IF DetachOp(h) \in Elements(queue[p]) THEN "guard" ELSE stage[h]
    BY <1>1 DEF DropQueue
  <1>3. /\ h \in Queued(p) => stage[h] = "queued"
        /\ DetachOp(h) \in Elements(queue[p]) => stage[h] = "detaching"
    BY QueueOps DEF Places, Place
  <1>4. retired'[h] = IF h \in Queued(p) THEN retired[h] + 1 ELSE retired[h]
    BY DEF DropQueue
  <1> QED
    BY <1>2, <1>3, <1>4

LEMMA CallMove ==
    ASSUME TypeOK, CursorOK, Places, Disciplined, NEW p \in Procs,
           Transaction(p) \/ Commit(p) \/ Toggle(p) \/ Unhook(p) \/ Int3(p),
           NEW h \in Hooks, stage'[h] # stage[h]
    PROVE  <<stage[h], stage'[h]>> \in CallMoves
  <1>0. ListOK(p) /\ Place(p, h)
    BY DEF Places
  <1> USE DEF hookVars, regVars, lockVars, txVars, callVars, Goto
  <1>1. CASE Begin(p) \/ update_thread(p) \/ Toggle(p) \/ Int3(p)
    BY <1>1 DEF Begin, update_thread, Toggle, enable, disable, Int3, arm_int3, remove_int3
  <1>2. CASE DropQueue(p)
    <2>1. \/ stage[h] = "queued" /\ stage'[h] = "gone"
          \/ stage[h] = "detaching" /\ stage'[h] = "guard"
      BY <1>2, DropQueueMove
    <2> QED
      BY <2>1 DEF CallMoves
  <1>3. CASE \E g \in Hooks : detach(p, g)
    <2>1. stage[h] = "guard" /\ stage'[h] = "detaching"
      BY <1>3 DEF detach, TypeOK
    <2> QED
      BY <2>1 DEF CallMoves
  <1>4. CASE abort(p) \/ commit(p) \/ commit_lock(p) \/ commit_failed(p)
    <2>1. DropQueue(p) \/ stage' = stage
      BY <1>4 DEF abort, commit, commit_lock, CommitFails, commit_failed
    <2> QED
      BY <1>2, <2>1
  <1>5. CASE commit_install(p)
    <2>1. PICK g \in Hooks : install_inline(p, g) \/ prepare_detach(p, g)
      BY <1>5 DEF commit_install
    <2>2. g = h /\ Head(queue[p]) = AttachOp(h) /\ queue[p] # << >> /\ stage'[h] = "installed"
      BY <1>5, <2>1 DEF commit_install, install_inline, prepare_detach, AttachOp, TypeOK
    <2>3. queue[p] \in Seq(Ops)
      BY DEF TypeOK
    <2>4. AttachOp(h) \in Elements(queue[p])
      BY <2>2, <2>3, ElementsOf
    <2>5. stage[h] = "queued" /\ stage'[h] = "installed"
      BY <1>0, <2>2, <2>4 DEF Place
    <2> QED
      BY <2>5 DEF CallMoves
  <1>6. CASE commit_published(p)
    <2>1. InInstalled(p, h) /\ stage'[h] = "guard"
      BY <1>6 DEF commit_published, InInstalled, Elements
    <2>2. stage[h] = "installed" /\ stage'[h] = "guard"
      BY <1>0, <2>1 DEF Place
    <2> QED
      BY <2>2 DEF CallMoves
  <1>7. CASE commit_fail(p) \/ commit_applied(p) \/ publish(p) \/ detach_finalize(p) \/ commit_done(p)
              \/ rollback_start(p) \/ rollback(p) \/ rollback_done(p)
    BY <1>7 DEF commit_fail, commit_applied, publish, detach_finalize, commit_done, rollback_start,
       rollback, rollback_done
  <1>8. CASE detach_relink(p) \/ rollback_detaches(p)
    <2> DEFINE D == [hook : Hooks, was : BOOLEAN]
    <2>1. detached[p] # << >> /\ detached[p] \in Seq(D)
      BY <1>8 DEF detach_relink, rollback_detaches, CursorOK, TypeOK
    <2> HIDE DEF D
    <2>2. PICK d \in Elements(detached[p]) : stage' = [stage EXCEPT ![d.hook] = "guard"]
      <3>1. Head(detached[p]) \in Elements(detached[p])
            /\ detached[p][Len(detached[p])] \in Elements(detached[p])
        BY <2>1, ElementsOf
      <3>2. CASE detach_relink(p)
        BY <1>0, <3>1, <3>2 DEF detach_relink, ListOK
      <3>3. CASE rollback_detaches(p)
        BY <3>1, <3>3 DEF rollback_detaches
      <3> QED
        BY <1>8, <3>2, <3>3
    <2>3. h = d.hook /\ stage'[h] = "guard"
      BY <2>2 DEF TypeOK
    <2>4. InDetached(p, h)
      BY <2>3 DEF InDetached
    <2>5. stage[h] = "detaching" /\ stage'[h] = "guard"
      BY <1>0, <2>3, <2>4 DEF Place
    <2> QED
      BY <2>5 DEF CallMoves
  <1>9. CASE dismantle(p)
    <2>1. installed[p] # << >> /\ stage' = [stage EXCEPT ![Head(installed[p])] = "gone"]
      BY <1>9 DEF dismantle, Disciplined
    <2>2. h = Head(installed[p]) /\ stage'[h] = "gone" /\ installed[p] \in Seq(Hooks)
      BY <2>1 DEF TypeOK
    <2>3. InInstalled(p, h)
      BY <2>1, <2>2, ElementsOf DEF InInstalled
    <2>4. stage[h] = "installed" /\ stage'[h] = "gone"
      BY <1>0, <2>2, <2>3 DEF Place
    <2> QED
      BY <2>4 DEF CallMoves
  <1>10. CASE \E g \in Hooks : unhook(p, g) \/ Drop(p, g)
    <2>1. stage[h] = "guard" /\ stage'[h] = "dropping"
      BY <1>10 DEF unhook, Drop, TypeOK
    <2> QED
      BY <2>1 DEF CallMoves
  <1>11. CASE drop_write(p) \/ drop_release(p) \/ drop_relink(p) \/ drop_end(p)
    <2>1. /\ pc[p] \in DropPcs
          /\ stage' = stage \/ \E x \in {"gone", "leaked"} : stage' = [stage EXCEPT ![arg[p]] = x]
      BY <1>11 DEF drop_write, drop_release, drop_relink, drop_end, DropPcs
    <2>2. h = arg[p] /\ stage'[h] \in {"gone", "leaked"}
      BY <2>1 DEF TypeOK
    <2>3. stage[h] = "dropping"
      BY <1>0, <2>1, <2>2 DEF Place
    <2> QED
      BY <2>2, <2>3 DEF CallMoves
  <1> QED
    BY <1>1, <1>3, <1>4, <1>5, <1>6, <1>7, <1>8, <1>9, <1>10, <1>11
       DEF Transaction, Commit, Unhook

-----------------------------------------------------------------------------
(***************************************************************************)
(* What a hook targets                                                     *)
(***************************************************************************)
LEMMA Addresses ==
    /\ \A g, h \in Hooks : /\ Gateway(g) = Gateway(h) => g = h
                           /\ Gateway(g) \notin Bodies /\ Gateway(g) # Body(h)
                           /\ Detour(g) \notin Gateways /\ Detour(g) \notin Bodies
                           /\ Body(g) \notin Gateways
                           /\ Gateway(g) \in Gateways
    /\ \A s \in Funcs : s \notin Gateways /\ s \notin Bodies
    /\ \A s \in Gateways : \E g \in Hooks : s = Gateway(g)
  BY SitesAssumption DEF Gateway, Body, Detour, Gateways, Bodies, Detours

\* A hook that has a target is never chained on itself, and what it is chained
\* on has been handed to a client before.
HookTarget(h) ==
    /\ leads[h] \notin Gateways
    /\ stage[h] # "none" => target[h] \notin Bodies /\ target[h] # Gateway(h)
    /\ ~Early(h) /\ target[h] \in Gateways => kind[h] = "ManagedGateway"
    /\ \A g \in Hooks : stage[h] # "none" /\ target[h] = Gateway(g) => stage[g] \in Later
\* While attach runs, the gateway it is to chain on stays chainable, and the
\* range it checked stays free.
AttachTarget(p) ==
    LET s == target[arg[p]] IN
    /\ pc[p] \in {"att_managed", "att_stub", "att_snapshot"} /\ s \in Gateways =>
          is_managed_gateway(s)
    /\ pc[p] = "att_stub" => s \in Gateways
    /\ pc[p] \in {"att_stub", "att_snapshot"} /\ s \in Gateways => kind[arg[p]] = "ManagedGateway"
    /\ pc[p] \in {"att_follow", "att_check", "att_relocate"} => s \notin Gateways
    /\ pc[p] \in {"att_relocate", "att_snapshot"} /\ s \notin Gateways => ~overlaps_live_patch(s)
Targets ==
    /\ \A h \in Hooks : HookTarget(h)
    /\ \A p \in Procs : AttachTarget(p)

(***************************************************************************)
(* Which hooks are registered                                              *)
(***************************************************************************)
Chained(g) == \E c \in Hooks : published[c] /\ target[c] = Gateway(g)
Relinking(h) == \E p \in Procs : pc[p] \in RelinkPcs /\ arg[p] = h
Reg(h) ==
    /\ published[h] => Holding(h) /\ active[h]
    /\ stage[h] = "installed" => active[h]
    /\ active[h] /\ Holding(h) /\ stage[h] # "installed" => published[h] \/ Relinking(h)
RegIn(p) ==
    /\ pc[p] \in RelinkPcs \cup {"drop_end"} => ~published[arg[p]]
    /\ pc[p] = "drop_end" => ~active[arg[p]]
    /\ \A i \in 1 .. Len(installed[p]) :
          published[installed[p][i]] <=> pc[p] = "com_publish" /\ i < idx[p]
Registered ==
    /\ \A h \in Hooks : Reg(h)
    /\ \A p \in Procs : RegIn(p)

\* One hook at most is chained on a gateway.
Counts == \A g \in Hooks : dependents[g] = IF Chained(g) THEN 1 ELSE 0

(***************************************************************************)
(* Who lets go of a trampoline                                             *)
(***************************************************************************)
Tramp(h) ==
    /\ stage[h] # "gone" => retired[h] = 0
    /\ h \in orphan <=> stage[h] = "gone" /\ Chained(h)
    /\ h \in orphan => retired[h] = 0
    /\ h \in managed => Holding(h) /\ ~Chained(h)
    /\ published[h] /\ ~Chained(h) /\ h \notin managed =>
          \E p \in Procs : link[p] = "alive" /\ h \in Linked(p)
    /\ stage[h] = "gone" => \/ retired[h] = 1
                            \/ h \in orphan
                            \/ \E p \in Procs : link[p] = "orphan" /\ h \in Linked(p)
TrampIn(p) ==
    /\ link[p] # "none" => pc[p] \in RelinkPcs
    /\ link[p] = "orphan" => \A g \in Linked(p) : stage[g] = "gone" /\ retired[g] = 0 /\ ~Chained(g)
    /\ link[p] = "alive" => \A g \in Linked(p) : stage[g] # "gone" /\ ~Chained(g)
    /\ pc[p] \in RelinkPcs /\ active[arg[p]] /\ target[arg[p]] \in Gateways => link[p] # "none"
    /\ pc[p] = "drop_end" => arg[p] \notin managed
    /\ pc[p] \in PatchPcs => \A h, g \in Hooks :
          Todo(p, h) /\ target[h] = Gateway(g) => stage[g] # "gone"
Trampolines ==
    /\ \A h \in Hooks : Tramp(h)
    /\ \A p \in Procs : TrampIn(p)

\* The code lock has one holder, and commits touch hooks under it.
LEMMA AloneInCode ==
    ASSUME CodeHeld, InstalledInCommit, NEW p \in Procs, pc[p] \in CodePcs,
           NEW q \in Procs, q # p
    PROVE  /\ pc[q] \notin CodePcs /\ pc[q] \notin PatchPcs /\ pc[q] \notin RelinkPcs
           /\ pc[q] # "drop_end" /\ installed[q] = << >>
  BY DEF CodeHeld, CodePcs, PatchPcs, RelinkPcs, InstalledInCommit

(***************************************************************************)
(* Steps that register and withdraw nothing                                *)
(***************************************************************************)
AsideMoves == AttachMoves \cup
    {<<"guard", "detaching">>, <<"queued", "gone">>, <<"detaching", "guard">>,
     <<"guard", "dropping">>, <<"dropping", "leaked">>}
Aside(p) ==
    /\ UNCHANGED <<active, published, managed, dependents, orphan, link>>
    /\ \A h \in Hooks : stage'[h] # stage[h] => <<stage[h], stage'[h]>> \in AsideMoves
    /\ \A h \in Hooks :
          retired'[h] = IF stage[h] = "queued" /\ stage'[h] = "gone" THEN retired[h] + 1 ELSE retired[h]
    /\ pc[p] \notin RelinkPcs \cup {"drop_end", "com_publish"}
    /\ pc'[p] \notin RelinkPcs \cup {"drop_end"}
    /\ pc'[p] = "com_publish" => idx'[p] = 1
    /\ installed'[p] = installed[p]
    /\ pc'[p] \in PatchPcs =>
          \/ pc[p] \in PatchPcs /\ \A h \in Hooks : h \in Queued(p)' => h \in Queued(p)
          \/ pc[p] = "com_code" /\ ~Orphaned(p) /\ queue'[p] = queue[p]

LEMMA AsideQuiet ==
    ASSUME TypeOK, NEW p \in Procs,
           UNCHANGED <<active, published, managed, dependents, orphan, link, retired>>,
           \A h \in Hooks : stage'[h] # stage[h] =>
               <<stage[h], stage'[h]>> \in AsideMoves \ {<<"queued", "gone">>},
           pc[p] \notin RelinkPcs \cup {"drop_end", "com_publish"},
           pc'[p] \notin RelinkPcs \cup {"drop_end"},
           pc'[p] = "com_publish" => idx'[p] = 1,
           installed'[p] = installed[p],
           pc'[p] \in PatchPcs => pc[p] \in PatchPcs /\ queue'[p] = queue[p]
    PROVE  Aside(p)
  <1>1. ASSUME NEW h \in Hooks, stage[h] = "queued", stage'[h] = "gone"
        PROVE  FALSE
    BY <1>1
  <1>2. queue'[p] = queue[p] => (\A h \in Hooks : h \in Queued(p)' => h \in Queued(p))
    BY DEF Queued
  <1> QED
    BY <1>1, <1>2 DEF Aside

LEMMA AsideDrop ==
    ASSUME TypeOK, Places, NEW p \in Procs, DropQueue(p),
           UNCHANGED <<active, published, managed, dependents, orphan, link, installed>>,
           pc[p] \notin RelinkPcs \cup {"drop_end", "com_publish"}, pc'[p] = "ready"
    PROVE  Aside(p)
  <1>1. \A h \in Hooks : stage'[h] # stage[h] => <<stage[h], stage'[h]>> \in AsideMoves
    BY DropQueueMove DEF AsideMoves
  <1>2. ASSUME NEW h \in Hooks
        PROVE  retired'[h] = IF stage[h] = "queued" /\ stage'[h] = "gone"
                             THEN retired[h] + 1 ELSE retired[h]
    <2>1. h \in Queued(p) <=> stage[h] = "queued" /\ stage'[h] = "gone"
      BY DropQueueMove
    <2> QED
      BY <2>1, DropQueueMove
  <1> QED
    BY <1>1, <1>2 DEF Aside, RelinkPcs, PatchPcs

AsideAction(p) ==
    \/ Transaction(p) \/ Attach(p) \/ Toggle(p) \/ Int3(p)
    \/ commit(p) \/ commit_lock(p) \/ commit_fail(p) \/ commit_applied(p) \/ commit_done(p)
    \/ commit_install(p) /\ UNCHANGED active /\ UNCHANGED stage
    \/ rollback_detaches(p) \/ rollback_start(p) \/ rollback(p) \/ rollback_done(p)
    \/ commit_failed(p)
    \/ (\E h \in Hooks : unhook(p, h) \/ Drop(p, h)) \/ drop_write(p)

LEMMA AsideStep ==
    ASSUME TypeOK, CursorOK, Builders, Places, Disciplined, NEW p \in Procs, AsideAction(p)
    PROVE  Aside(p)
  <1>0. ListOK(p) /\ (\A h \in Hooks : Place(p, h))
    BY DEF Places
  <1> DEFINE Out == RelinkPcs \cup {"drop_end"} \cup PatchPcs
             Quiet == UNCHANGED <<active, published, managed, dependents, orphan, link, retired,
                                  installed>>
  <1> USE DEF hookVars, regVars, lockVars, txVars, callVars, Goto
  <1>1. CASE Begin(p) \/ update_thread(p) \/ Toggle(p) \/ Int3(p)
    <2>1. Quiet /\ UNCHANGED <<stage, pc, queue>> /\ pc[p] = "ready"
      BY <1>1 DEF Begin, update_thread, Toggle, enable, disable, Int3, arm_int3, remove_int3
    <2> QED
      BY <2>1, AsideQuiet DEF RelinkPcs, PatchPcs
  <1>2. CASE abort(p) \/ commit_failed(p)
    <2>1. /\ DropQueue(p) /\ pc'[p] = "ready" /\ pc[p] \in {"ready", "com_dismantle"}
          /\ UNCHANGED <<active, published, managed, dependents, orphan, link, installed>>
      BY <1>2 DEF abort, commit_failed, TypeOK
    <2> QED
      BY <2>1, AsideDrop DEF RelinkPcs
  <1>3. CASE commit(p) \/ commit_lock(p)
    <2>1. CASE DropQueue(p) /\ pc'[p] = "ready"
      <3>1. /\ pc[p] \in {"ready", "com_code"}
            /\ UNCHANGED <<active, published, managed, dependents, orphan, link, installed>>
        BY <1>3 DEF commit, commit_lock
      <3> QED
        BY <2>1, <3>1, AsideDrop DEF RelinkPcs
    <2>2. CASE commit(p) /\ pc'[p] = "com_code" /\ UNCHANGED <<stage, retired, queue>>
      <3>1. Quiet /\ pc[p] = "ready"
        BY <2>2 DEF commit
      <3> QED
        BY <2>2, <3>1, AsideQuiet DEF RelinkPcs, PatchPcs
    <2>3. CASE commit_lock(p) /\ ~Orphaned(p) /\ pc'[p] = "com_install"
                /\ UNCHANGED <<stage, retired, queue>>
      <3>1. Quiet /\ pc[p] = "com_code"
        BY <2>3 DEF commit_lock
      <3> QED
        BY <2>3, <3>1 DEF Aside, RelinkPcs
    <2> QED
      BY <1>3, <2>1, <2>2, <2>3 DEF commit, commit_lock, CommitFails, TypeOK
  <1>4. CASE \E h \in Hooks : detach(p, h)
    <2>1. /\ Quiet /\ UNCHANGED pc /\ pc[p] = "ready"
          /\ \A h \in Hooks : stage'[h] # stage[h] => stage[h] = "guard" /\ stage'[h] = "detaching"
      BY <1>4 DEF detach, TypeOK
    <2> QED
      BY <2>1, AsideQuiet DEF RelinkPcs, PatchPcs, AsideMoves
  <1>5. CASE Attach(p)
    <2>1. /\ Quiet /\ pc[p] \in AttachPcs \cup {"ready"} /\ pc'[p] \in AttachPcs \cup {"ready"}
      BY <1>5 DEF Attach, attach, attach_managed, attach_stub, attach_follow, attach_check,
         attach_relocate, attach_snapshot, Reject, AttachPcs, TypeOK
    <2>2. pc[p] \notin Out /\ pc'[p] \notin Out /\ pc[p] # "com_publish" /\ pc'[p] # "com_publish"
      BY <2>1 DEF AttachPcs, RelinkPcs, PatchPcs
    <2>3. \A h \in Hooks : stage'[h] # stage[h] => <<stage[h], stage'[h]>> \in AttachMoves
      BY <1>5, AttachMove
    <2>4. <<"queued", "gone">> \notin AttachMoves
      BY DEF AttachMoves
    <2>5. \A h \in Hooks : stage'[h] # stage[h] =>
              <<stage[h], stage'[h]>> \in AsideMoves \ {<<"queued", "gone">>}
      BY <2>3, <2>4 DEF AsideMoves
    <2> HIDE DEF Out
    <2>6. pc[p] \notin RelinkPcs \cup {"drop_end", "com_publish"} /\ pc'[p] \notin PatchPcs
          /\ pc'[p] \notin RelinkPcs \cup {"drop_end"}
      BY <2>2 DEF Out
    <2> QED
      BY <2>1, <2>2, <2>5, <2>6, AsideQuiet
  <1>6. CASE commit_fail(p) \/ commit_applied(p) \/ commit_done(p) \/ rollback_start(p)
              \/ rollback(p) \/ rollback_done(p)
    <2>1. /\ Quiet /\ UNCHANGED <<stage, queue>>
          /\ pc[p] \in {"com_install", "com_finalize", "com_undo_detach", "com_undo_install"}
          /\ \/ pc'[p] = "com_publish" /\ idx'[p] = 1 /\ pc[p] = "com_install"
             \/ pc'[p] = "ready"
             \/ pc'[p] \in {"com_undo_detach", "com_undo_install", "com_dismantle"}
                /\ pc[p] # "com_finalize"
      BY <1>6 DEF commit_fail, commit_applied, commit_done, rollback_start, rollback, rollback_done,
         TypeOK
    <2> QED
      BY <2>1, AsideQuiet DEF RelinkPcs, PatchPcs
  <1>7. CASE commit_install(p) /\ UNCHANGED active /\ UNCHANGED stage
    <2>1. /\ UNCHANGED <<active, published, managed, dependents, orphan, link, retired, pc, stage>>
          /\ pc[p] = "com_install" /\ queue'[p] = Tail(queue[p]) /\ queue[p] # << >>
      BY <1>7 DEF commit_install, TypeOK
    <2>2. installed'[p] = installed[p]
      <3>1. PICK h \in Hooks : install_inline(p, h) \/ prepare_detach(p, h)
        BY <1>7 DEF commit_install
      <3>2. CASE install_inline(p, h)
        <4>1. Head(queue[p]) = AttachOp(h) /\ stage'[h] = "installed"
          BY <3>2 DEF install_inline, AttachOp, TypeOK
        <4>2. queue[p] \in Seq(Ops)
          BY DEF TypeOK
        <4>3. AttachOp(h) \in Elements(queue[p])
          BY <2>1, <4>1, <4>2, ElementsOf
        <4>4. stage[h] = "queued"
          BY <1>0, <4>3 DEF Place
        <4> QED
          BY <2>1, <4>1, <4>4
      <3>3. CASE prepare_detach(p, h)
        BY <3>3 DEF prepare_detach
      <3> QED
        BY <3>1, <3>2, <3>3
    <2>3. ASSUME NEW h \in Hooks, h \in Queued(p)'
          PROVE  h \in Queued(p)
      <3>1. queue[p] \in Seq(Ops)
        BY DEF TypeOK
      <3>2. Elements(queue'[p]) \subseteq Elements(queue[p])
        BY <2>1, <3>1, ElementsOf
      <3>3. AttachOp(h) \in Elements(queue'[p])
        BY <2>3 DEF Queued, Elements, AttachOp
      <3> QED
        BY <3>2, <3>3, QueueOps
    <2> QED
      BY <2>1, <2>2, <2>3 DEF Aside, RelinkPcs, PatchPcs
  <1>8. CASE rollback_detaches(p)
    <2>1. /\ Quiet /\ UNCHANGED <<queue, pc>> /\ pc[p] = "com_undo_detach"
          /\ \A h \in Hooks : stage'[h] # stage[h] => stage'[h] = "guard"
      BY <1>8 DEF rollback_detaches, TypeOK
    <2>2. ASSUME NEW h \in Hooks, stage'[h] # stage[h]
          PROVE  <<stage[h], stage'[h]>> = <<"detaching", "guard">>
      <3>1. <<stage[h], stage'[h]>> \in CallMoves
        BY <1>8, <2>2, CallMove DEF Commit
      <3>2. detached[p] # << >> /\ stage' = [stage EXCEPT ![detached[p][Len(detached[p])].hook] = "guard"]
        BY <1>8 DEF rollback_detaches
      <3>3. h = detached[p][Len(detached[p])].hook
        BY <2>2, <3>2 DEF TypeOK
      <3>4. detached[p][Len(detached[p])] \in Elements(detached[p])
        <4> DEFINE D == [hook : Hooks, was : BOOLEAN]
        <4>1. detached[p] \in Seq(D)
          BY DEF TypeOK
        <4> HIDE DEF D
        <4> QED
          BY <3>2, <4>1, ElementsOf
      <3>5. InDetached(p, h)
        BY <3>3, <3>4 DEF InDetached
      <3> QED
        BY <1>0, <2>1, <2>2, <3>5 DEF Place
    <2>3. <<"detaching", "guard">> \in AsideMoves \ {<<"queued", "gone">>}
      BY DEF AsideMoves
    <2> QED
      BY <2>1, <2>2, <2>3, AsideQuiet DEF RelinkPcs, PatchPcs
  <1>9. CASE \E h \in Hooks : unhook(p, h) \/ Drop(p, h)
    <2>1. /\ Quiet /\ UNCHANGED queue /\ pc[p] = "ready" /\ pc'[p] \in {"drop_begin", "drop_release"}
          /\ \A h \in Hooks : stage'[h] # stage[h] => stage[h] = "guard" /\ stage'[h] = "dropping"
      BY <1>9 DEF unhook, Drop, TypeOK
    <2> QED
      BY <2>1, AsideQuiet DEF RelinkPcs, PatchPcs, AsideMoves
  <1>10. CASE drop_write(p)
    <2>1. /\ Quiet /\ UNCHANGED queue /\ pc[p] = "drop_begin" /\ pc'[p] \in {"ready", "drop_release"}
          /\ \A h \in Hooks : stage'[h] # stage[h] => h = arg[p] /\ stage'[h] = "leaked"
      BY <1>10 DEF drop_write, TypeOK
    <2>2. \A h \in Hooks : stage'[h] # stage[h] => stage[h] = "dropping" /\ stage'[h] = "leaked"
      BY <1>0, <2>1 DEF Place, DropPcs
    <2> QED
      BY <2>1, <2>2, AsideQuiet DEF RelinkPcs, PatchPcs, AsideMoves
  <1> QED
    BY <1>1, <1>2, <1>3, <1>4, <1>5, <1>6, <1>7, <1>8, <1>9, <1>10 DEF AsideAction, Transaction

\* What such a step leaves in place.
LEMMA AsideKeeps ==
    ASSUME TypeOK, NotEarly, NEW p \in Procs, OthersKept(p), Aside(p),
           \A h \in Hooks : ~Early(h) => target'[h] = target[h]
    PROVE  /\ \A h \in Hooks : /\ Holding(h)' <=> Holding(h)
                               /\ stage'[h] = "installed" <=> stage[h] = "installed"
                               /\ stage[h] = "gone" => stage'[h] = "gone"
                               /\ stage'[h] = "gone" => stage[h] \in {"gone", "queued"}
                               /\ Chained(h)' <=> Chained(h)
                               /\ stage[h] \in Later => stage'[h] \in Later
           /\ \A q \in Procs : pc[q] \in RelinkPcs => pc'[q] = pc[q] /\ arg'[q] = arg[q]
           /\ \A q \in Procs : pc'[q] \in RelinkPcs \cup {"drop_end"} =>
                  pc'[q] = pc[q] /\ arg'[q] = arg[q]
           /\ \A q \in Procs : pc[q] \in RelinkPcs => Linked(q)' = Linked(q)
  <1>1. ASSUME NEW h \in Hooks
        PROVE  /\ Holding(h)' <=> Holding(h)
               /\ stage'[h] = "installed" <=> stage[h] = "installed"
               /\ stage[h] = "gone" => stage'[h] = "gone"
               /\ stage'[h] = "gone" => stage[h] \in {"gone", "queued"}
               /\ stage[h] \in Later => stage'[h] \in Later
    <2>1. stage'[h] = stage[h] \/ <<stage[h], stage'[h]>> \in AsideMoves
      BY DEF Aside
    <2> QED
      BY <2>1 DEF AsideMoves, AttachMoves, Holding, Later
  <1>2. \A h \in Hooks : published'[h] = published[h] /\ (published[h] => target'[h] = target[h])
    BY DEF Aside, NotEarly
  <1>3. \A h \in Hooks : Chained(h)' <=> Chained(h)
    BY <1>2 DEF Chained
  <1>4. \A q \in Procs : pc[q] \in RelinkPcs => pc'[q] = pc[q] /\ arg'[q] = arg[q]
    BY DEF Aside, OthersKept
  <1>5. \A q \in Procs : pc'[q] \in RelinkPcs \cup {"drop_end"} => pc'[q] = pc[q] /\ arg'[q] = arg[q]
    BY DEF Aside, OthersKept
  <1>6. ASSUME NEW q \in Procs, pc[q] \in RelinkPcs
        PROVE  Linked(q)' = Linked(q)
    <2>1. arg[q] \in Hooks /\ ~Early(arg[q])
      BY <1>6 DEF TypeOK, NotEarly, RelinkPcs, HookPcs, AttachPcs
    <2>2. arg'[q] = arg[q] /\ target'[arg[q]] = target[arg[q]]
      BY <1>4, <1>6, <2>1
    <2> QED
      BY <2>2 DEF Linked
  <1> QED
    BY <1>1, <1>3, <1>4, <1>5, <1>6

LEMMA RegisteredAside ==
    ASSUME TypeOK, NotEarly, Registered, NEW p \in Procs, OthersKept(p), Aside(p),
           \A h \in Hooks : ~Early(h) => target'[h] = target[h]
    PROVE  Registered'
  <1>1. ASSUME NEW h \in Hooks
        PROVE  Reg(h)'
    <2>1. /\ Holding(h)' <=> Holding(h)
          /\ stage'[h] = "installed" <=> stage[h] = "installed"
          /\ published'[h] = published[h] /\ active'[h] = active[h]
      BY AsideKeeps DEF Aside
    <2>2. Relinking(h) => Relinking(h)'
      BY AsideKeeps DEF Relinking
    <2>3. Reg(h)
      BY DEF Registered
    <2> QED
      BY <2>1, <2>2, <2>3 DEF Reg
  <1>2. ASSUME NEW q \in Procs
        PROVE  RegIn(q)'
    <2>1. RegIn(q) /\ published' = published /\ active' = active
      BY DEF Registered, Aside
    <2>2. pc'[q] \in RelinkPcs \cup {"drop_end"} => pc'[q] = pc[q] /\ arg'[q] = arg[q]
      BY AsideKeeps
    <2>3. installed'[q] = installed[q]
      BY DEF Aside, OthersKept
    <2>4. ASSUME NEW i \in 1 .. Len(installed[q])
          PROVE  published[installed[q][i]] <=> pc'[q] = "com_publish" /\ i < idx'[q]
      <3>1. CASE q = p
        <4>1. ~published[installed[q][i]]
          BY <2>1, <2>4, <3>1 DEF RegIn, Aside
        <4>2. ~(pc'[q] = "com_publish" /\ i < idx'[q])
          BY <2>4, <3>1 DEF Aside
        <4> QED
          BY <4>1, <4>2
      <3>2. CASE q # p
        BY <2>1, <2>4, <3>2 DEF RegIn, OthersKept
      <3> QED
        BY <3>1, <3>2
    <2> QED
      BY <2>1, <2>2, <2>3, <2>4 DEF RegIn
  <1> QED
    BY <1>1, <1>2 DEF Registered

LEMMA CountsAside ==
    ASSUME TypeOK, NotEarly, Counts, NEW p \in Procs, OthersKept(p), Aside(p),
           \A h \in Hooks : ~Early(h) => target'[h] = target[h]
    PROVE  Counts'
  <1>1. dependents' = dependents /\ \A g \in Hooks : Chained(g)' <=> Chained(g)
    BY AsideKeeps DEF Aside
  <1> QED
    BY <1>1 DEF Counts

LEMMA TrampolinesAside ==
    ASSUME TypeOK, NotEarly, InstalledInCommit, Targets, Registered, Trampolines,
           NEW p \in Procs, OthersKept(p), Aside(p),
           \A h \in Hooks : ~Early(h) => target'[h] = target[h]
    PROVE  Trampolines'
  <1>1. ASSUME NEW h \in Hooks
        PROVE  Tramp(h)'
    <2>1. /\ Holding(h)' <=> Holding(h)
          /\ stage[h] = "gone" => stage'[h] = "gone"
          /\ stage'[h] = "gone" => stage[h] \in {"gone", "queued"}
          /\ Chained(h)' <=> Chained(h)
      BY AsideKeeps
    <2>2. /\ UNCHANGED <<published, managed, orphan, link>>
          /\ retired'[h] = IF stage[h] = "queued" /\ stage'[h] = "gone" THEN retired[h] + 1 ELSE retired[h]
      BY DEF Aside
    <2>3. Tramp(h)
      BY DEF Trampolines
    <2>4. stage[h] = "queued" => ~Chained(h) /\ retired[h] = 0
      <3>1. Chained(h) => stage[h] \in Later
        BY DEF Chained, Targets, HookTarget, NotEarly, Early
      <3> QED
        BY <2>3, <3>1 DEF Tramp, Later
    <2>5. ASSUME NEW q \in Procs, link[q] # "none", h \in Linked(q)
          PROVE  link'[q] = link[q] /\ h \in Linked(q)'
      <3>1. pc[q] \in RelinkPcs
        BY <2>5 DEF Trampolines, TrampIn
      <3>2. Linked(q)' = Linked(q)
        BY <3>1, AsideKeeps
      <3> QED
        BY <2>2, <2>5, <3>2
    <2>6. CASE stage[h] = "queued" /\ stage'[h] = "gone"
      <3>1. retired'[h] = 1
        BY <2>2, <2>4, <2>6
      <3>2. h \notin orphan /\ h \notin managed /\ ~published[h]
        BY <2>3, <2>6 DEF Tramp, Registered, Reg, Holding
      <3> QED
        BY <2>1, <2>2, <2>4, <2>6, <3>1, <3>2 DEF Tramp
    <2>7. CASE ~(stage[h] = "queued" /\ stage'[h] = "gone")
      <3>1. retired'[h] = retired[h] /\ (stage'[h] = "gone" <=> stage[h] = "gone")
        BY <2>1, <2>2, <2>7
      <3>2. (\E q \in Procs : link[q] = "alive" /\ h \in Linked(q)) =>
              \E q \in Procs : link'[q] = "alive" /\ h \in Linked(q)'
        BY <2>5
      <3>3. (\E q \in Procs : link[q] = "orphan" /\ h \in Linked(q)) =>
              \E q \in Procs : link'[q] = "orphan" /\ h \in Linked(q)'
        BY <2>5
      <3> QED
        BY <2>1, <2>2, <2>3, <3>1, <3>2, <3>3 DEF Tramp
    <2> QED
      BY <2>6, <2>7
  <1>2. ASSUME NEW q \in Procs
        PROVE  TrampIn(q)'
    <2>1. TrampIn(q) /\ UNCHANGED <<active, managed, link>>
      BY DEF Trampolines, Aside
    <2>2. /\ pc[q] \in RelinkPcs => pc'[q] = pc[q] /\ arg'[q] = arg[q] /\ Linked(q)' = Linked(q)
          /\ pc'[q] \in RelinkPcs \cup {"drop_end"} => pc'[q] = pc[q] /\ arg'[q] = arg[q]
      BY AsideKeeps
    <2>3. ASSUME link[q] # "none"
          PROVE  /\ pc'[q] \in RelinkPcs
                 /\ link[q] = "orphan" => \A g \in Linked(q)' :
                       stage'[g] = "gone" /\ retired'[g] = 0 /\ ~Chained(g)'
                 /\ link[q] = "alive" => \A g \in Linked(q)' : stage'[g] # "gone" /\ ~Chained(g)'
      <3>1. pc[q] \in RelinkPcs /\ arg[q] \in Hooks /\ ~Early(arg[q])
        BY <2>1, <2>3 DEF TrampIn, TypeOK, NotEarly, RelinkPcs, HookPcs, AttachPcs
      <3>2. ASSUME NEW g \in Linked(q)
            PROVE  /\ link[q] = "orphan" => stage'[g] = "gone" /\ retired'[g] = 0 /\ ~Chained(g)'
                   /\ link[q] = "alive" => stage'[g] # "gone" /\ ~Chained(g)'
        <4>1. g \in Hooks /\ stage[g] \in Later
          BY <3>1, <3>2 DEF Linked, Targets, HookTarget, Early
        <4>2. Chained(g)' <=> Chained(g)
          BY <4>1, AsideKeeps
        <4>3. stage'[g] = "gone" <=> stage[g] = "gone"
          BY <4>1, AsideKeeps DEF Later
        <4>4. retired'[g] = retired[g]
          BY <4>1 DEF Aside, Later
        <4> QED
          BY <2>1, <3>2, <4>2, <4>3, <4>4 DEF TrampIn
      <3> QED
        BY <2>2, <3>1, <3>2
    <2>4. ASSUME pc'[q] \in RelinkPcs, active[arg'[q]], target'[arg'[q]] \in Gateways
          PROVE  link[q] # "none"
      <3>1. pc[q] \in RelinkPcs /\ arg'[q] = arg[q]
        BY <2>2, <2>4
      <3>2. arg[q] \in Hooks /\ ~Early(arg[q])
        BY <3>1 DEF TypeOK, NotEarly, RelinkPcs, HookPcs, AttachPcs
      <3> QED
        BY <2>1, <2>4, <3>1, <3>2 DEF TrampIn
    <2>5. ASSUME pc'[q] \in PatchPcs, NEW h \in Hooks, NEW g \in Hooks, Todo(q, h)',
                 target'[h] = Gateway(g)
          PROVE  stage'[g] # "gone"
      <3>1. /\ Todo(q, h)
            /\ pc[q] \in PatchPcs \/ (~Orphaned(q) /\ h \in Queued(q))
        <4>1. CASE q # p
          <5>1. pc'[q] = pc[q] /\ queue'[q] = queue[q] /\ installed'[q] = installed[q]
            BY <4>1 DEF OthersKept
          <5>2. Queued(q)' = Queued(q) /\ (InInstalled(q, h)' <=> InInstalled(q, h))
            BY <5>1 DEF Queued, InInstalled
          <5> QED
            BY <2>5, <5>1, <5>2 DEF Todo
        <4>2. CASE q = p
          <5>1. InInstalled(q, h)' <=> InInstalled(q, h)
            BY <4>2 DEF InInstalled, Aside
          <5>2. InInstalled(q, h) => pc[q] \in PatchPcs
            BY DEF InInstalled, Elements, InstalledInCommit
          <5>3. CASE pc[q] \in PatchPcs /\ \A x \in Hooks : x \in Queued(q)' => x \in Queued(q)
            BY <2>5, <5>1, <5>3 DEF Todo
          <5>4. CASE pc[q] = "com_code" /\ ~Orphaned(q) /\ queue'[q] = queue[q]
            <6>1. Queued(q)' = Queued(q)
              BY <5>4 DEF Queued
            <6> QED
              BY <2>5, <5>1, <5>2, <5>4, <6>1 DEF Todo
          <5> QED
            BY <2>5, <4>2, <5>3, <5>4 DEF Aside
        <4> QED
          BY <4>1, <4>2
      <3>2. ~Early(h) /\ target[h] = Gateway(g)
        BY <2>5, <3>1, TodoIsSettled
      <3>3. stage[g] \in Later
        BY <3>2 DEF Targets, HookTarget, Early
      <3>4. stage[g] # "gone"
        <4>1. CASE pc[q] \in PatchPcs
          BY <2>1, <3>1, <3>2, <4>1 DEF TrampIn
        <4>2. CASE ~Orphaned(q) /\ h \in Queued(q)
          <5>1. kind[h] = "ManagedGateway"
            BY <3>2, Addresses DEF Targets, HookTarget
          <5>2. is_managed_gateway(Gateway(g))
            BY <3>2, <4>2, <5>1 DEF Orphaned
          <5>3. g \in managed
            BY <5>2, Addresses DEF is_managed_gateway, TypeOK
          <5> QED
            BY <5>3 DEF Trampolines, Tramp, Holding
        <4> QED
          BY <3>1, <4>1, <4>2
      <3> QED
        BY <3>3, <3>4, AsideKeeps DEF Later
    <2>6. pc'[q] = "drop_end" => arg'[q] \notin managed
      BY <2>1, <2>2 DEF TrampIn
    <2> QED
      BY <2>1, <2>3, <2>4, <2>5, <2>6 DEF TrampIn
  <1> QED
    BY <1>1, <1>2 DEF Trampolines

-----------------------------------------------------------------------------
(***************************************************************************)
(* Steps that register or withdraw a hook                                  *)
(***************************************************************************)
Base ==
    /\ TypeOK /\ CursorOK /\ NotEarly /\ InstalledInCommit /\ CommitClear /\ PublishedDisjoint
    /\ CodeHeld /\ Places /\ Targets /\ Registered /\ Counts /\ Trampolines

Ledger == Registered /\ Counts /\ Trampolines

\* The holder of the code lock is alone with the registries.
LEMMA OthersLedger ==
    ASSUME Base, NEW p \in Procs, pc[p] \in CodePcs, OthersKept(p), NEW q \in Procs, q # p
    PROVE  /\ pc[q] \notin RelinkPcs /\ pc[q] \notin PatchPcs /\ link[q] = "none"
           /\ RegIn(q)' /\ TrampIn(q)'
  <1>1. /\ pc[q] \notin CodePcs /\ pc[q] \notin PatchPcs /\ pc[q] \notin RelinkPcs
        /\ pc[q] # "drop_end" /\ installed[q] = << >>
    BY AloneInCode DEF Base
  <1>2. link[q] = "none"
    BY <1>1 DEF Base, Trampolines, TrampIn
  <1>3. pc'[q] = pc[q] /\ installed'[q] = << >> /\ link'[q] = "none"
    BY <1>1, <1>2 DEF OthersKept
  <1>4. RegIn(q)'
    BY <1>1, <1>3 DEF RegIn
  <1>5. TrampIn(q)'
    BY <1>1, <1>3 DEF TrampIn
  <1> QED
    BY <1>1, <1>2, <1>4, <1>5

\* What is chained on what.
LEMMA ChainFacts ==
    ASSUME Base
    PROVE  /\ \A g \in Hooks : Chained(g) => stage[g] \in Later
           /\ \A c, d \in Hooks : published[c] /\ published[d] /\ target[c] = target[d] => c = d
           /\ \A g, h \in Hooks : ~Early(h) /\ target[h] = Gateway(g) =>
                  /\ kind[h] = "ManagedGateway" /\ g # h /\ stage[g] \in Later
                  /\ \A x \in Hooks : target[h] = Gateway(x) <=> x = g
  <1>1. \A g, h \in Hooks : ~Early(h) /\ target[h] = Gateway(g) =>
            /\ kind[h] = "ManagedGateway" /\ g # h /\ stage[g] \in Later
            /\ \A x \in Hooks : target[h] = Gateway(x) <=> x = g
    BY Addresses DEF Base, Targets, HookTarget, Early
  <1>2. \A g \in Hooks : Chained(g) => stage[g] \in Later
    BY <1>1 DEF Chained, Base, NotEarly
  <1>3. \A c, d \in Hooks : published[c] /\ published[d] /\ target[c] = target[d] => c = d
    BY DEF Base, PublishedDisjoint, Overlaps, InRange
  <1> QED
    BY <1>1, <1>2, <1>3

\* install_inline: a queued hook becomes an installed one.
LEMMA LedgerInstall ==
    ASSUME Base, NEW p \in Procs, OthersKept(p), NEW h \in Hooks,
           commit_install(p), install_inline(p, h)
    PROVE  Ledger'
  <1> DEFINE n == Len(installed[p])
  <1>1. /\ pc[p] = "com_install" /\ queue[p] # << >> /\ Head(queue[p]) = AttachOp(h)
        /\ queue' = [queue EXCEPT ![p] = Tail(@)]
        /\ UNCHANGED <<pc, arg, link, target, published, managed, dependents, orphan, retired>>
    BY DEF commit_install, install_inline, regVars, callVars, AttachOp
  <1>2. /\ stage'[h] = "installed" /\ active'[h] = TRUE
        /\ \A x \in Hooks : x # h => stage'[x] = stage[x] /\ active'[x] = active[x]
        /\ installed[p] \in Seq(Hooks) /\ installed'[p] = Append(installed[p], h)
        /\ queue[p] \in Seq(Ops) /\ queue'[p] = Tail(queue[p])
    BY <1>1 DEF install_inline, Base, TypeOK
  <1>3. AttachOp(h) \in Elements(queue[p]) /\ Elements(queue'[p]) \subseteq Elements(queue[p])
    BY <1>1, <1>2, ElementsOf
  <1>4. TypeOK /\ stage[h] = "queued" /\ h \in Queued(p)
    BY <1>3, QueueOps DEF Base, Places, Place
  <1>5. pc[p] \in CodePcs /\ pc[p] \notin RelinkPcs /\ pc[p] # "drop_end" /\ pc[p] \in PatchPcs
    BY <1>1 DEF CodePcs, RelinkPcs, PatchPcs
  <1>6. /\ Reg(h) /\ RegIn(p) /\ Tramp(h) /\ TrampIn(p) /\ link[p] = "none"
    BY <1>5 DEF Base, Registered, Trampolines, TrampIn
  <1>7. ~published[h] /\ h \notin managed
    BY <1>4, <1>6 DEF Reg, Tramp, Holding
  <1>8. \A x \in Hooks : (Chained(x)' <=> Chained(x)) /\ (Relinking(x)' <=> Relinking(x))
    BY <1>1 DEF Chained, Relinking
  <1>9. ASSUME NEW x \in Hooks
        PROVE  Reg(x)'
    <2>1. CASE x = h
      BY <1>1, <1>2, <1>7, <2>1 DEF Reg
    <2>2. CASE x # h
      <3>1. Reg(x)
        BY DEF Base, Registered
      <3> QED
        BY <1>1, <1>2, <1>8, <2>2, <3>1 DEF Reg, Holding
    <2> QED
      BY <2>1, <2>2
  <1>10. RegIn(p)'
    <2>1. /\ Len(installed'[p]) = n + 1 /\ installed'[p][n + 1] = h /\ n \in Nat
          /\ \A i \in 1 .. n : installed'[p][i] = installed[p][i]
      BY <1>2
    <2>2. \A i \in 1 .. n : ~published[installed[p][i]]
      BY <1>1, <1>6 DEF RegIn
    <2> HIDE DEF n
    <2>3. ASSUME NEW i \in 1 .. n + 1
          PROVE  ~published[installed'[p][i]]
      <3>1. i \in 1 .. n \/ i = n + 1
        BY <2>1
      <3> QED
        BY <1>7, <2>1, <2>2, <3>1
    <2> QED
      BY <1>1, <1>5, <2>1, <2>3 DEF RegIn
  <1>11. ASSUME NEW x \in Hooks
         PROVE  Tramp(x)'
    <2>1. Tramp(x) /\ Linked(p)' = Linked(p) /\ \A q \in Procs : Linked(q)' = Linked(q)
      BY <1>1 DEF Base, Trampolines, Linked
    <2>2. CASE x = h
      BY <1>1, <1>2, <1>4, <1>7, <1>8, <2>1, <2>2 DEF Tramp
    <2>3. CASE x # h
      BY <1>1, <1>2, <1>8, <2>1, <2>3 DEF Tramp, Holding
    <2> QED
      BY <2>2, <2>3
  <1>12. TrampIn(p)'
    <2>1. ASSUME NEW x \in Hooks, Todo(p, x)'
          PROVE  Todo(p, x)
      <3>1. x \in Queued(p)' => x \in Queued(p)
        <4>1. x \in Queued(p)' => AttachOp(x) \in Elements(queue'[p])
          BY DEF Queued, Elements, AttachOp
        <4> QED
          BY <1>3, <1>4, <4>1, QueueOps
      <3>2. InInstalled(p, x)' => InInstalled(p, x) \/ x = h
        BY <1>2, ElementsOf DEF InInstalled
      <3> QED
        BY <1>4, <2>1, <3>1, <3>2 DEF Todo
    <2>2. ASSUME NEW x \in Hooks, NEW g \in Hooks, Todo(p, x)', target[x] = Gateway(g)
          PROVE  stage'[g] # "gone"
      BY <1>2, <1>5, <1>6, <2>1, <2>2 DEF TrampIn
    <2> QED
      BY <1>1, <1>5, <1>6, <2>2 DEF TrampIn
  <1>13. Counts'
    BY <1>1, <1>8 DEF Base, Counts
  <1>14. \A q \in Procs : q # p => RegIn(q)' /\ TrampIn(q)'
    BY <1>5, OthersLedger
  <1> QED
    BY <1>9, <1>10, <1>11, <1>12, <1>13, <1>14 DEF Ledger, Registered, Trampolines

\* publish: one installed hook is registered.
LEMMA LedgerPublish ==
    ASSUME Base, NEW p \in Procs, OthersKept(p), publish(p)
    PROVE  Ledger'
  <1> DEFINE k == idx[p]
             h == installed[p][k]
             On == {g \in Hooks : target[h] = Gateway(g)}
  <1>1. pc[p] = "com_publish" /\ k \in 1 .. Len(installed[p]) /\ h \in Hooks
    <2>1. pc[p] = "com_publish" /\ k <= Len(installed[p]) /\ k > 0 /\ k \in Nat
      BY DEF publish, Base, CursorOK, TypeOK
    <2>2. installed[p] \in Seq(Hooks) /\ k \in 1 .. Len(installed[p])
      BY <2>1 DEF Base, TypeOK
    <2> QED
      BY <2>1, <2>2
  <1>2. InInstalled(p, h)
    BY <1>1 DEF InInstalled, Elements
  <1>3. stage[h] = "installed" /\ Todo(p, h) /\ ~Early(h)
    BY <1>1, <1>2 DEF Base, Places, Place, Todo, NotEarly
  <1>4. On = {g \in Hooks : kind[h] = "ManagedGateway" /\ target[h] = Gateway(g)}
    BY <1>1, <1>3, ChainFacts
  <1>5. /\ managed' = (managed \ On) \cup {h}
        /\ \A g \in Hooks : dependents'[g] = IF g \in On THEN dependents[g] + 1 ELSE dependents[g]
        /\ published'[h] = TRUE /\ \A x \in Hooks : x # h => published'[x] = published[x]
        /\ idx'[p] = k + 1
        /\ UNCHANGED <<pc, arg, link, target, stage, active, orphan, retired, queue, installed>>
    <2>1. /\ managed' = (managed \ On) \cup {h}
          /\ dependents' = [g \in Hooks |-> IF g \in On THEN dependents[g] + 1 ELSE dependents[g]]
      BY <1>4 DEF publish
    <2>2. /\ published'[h] = TRUE /\ \A x \in Hooks : x # h => published'[x] = published[x]
          /\ idx'[p] = k + 1
          /\ UNCHANGED <<pc, arg, link, target, stage, active, orphan, retired, queue, installed>>
      BY <1>1 DEF publish, callVars, Base, TypeOK
    <2> QED
      BY <2>1, <2>2
  <1>6. /\ Reg(h) /\ RegIn(p) /\ TrampIn(p)
        /\ pc[p] \in CodePcs /\ pc[p] \notin RelinkPcs /\ pc[p] # "drop_end" /\ pc[p] \in PatchPcs
        /\ link[p] = "none"
    BY <1>1 DEF Base, Registered, Trampolines, TrampIn, CodePcs, RelinkPcs, PatchPcs
  <1>7. ~published[h]
    <2>1. ~(k < k)
      BY <1>1
    <2> QED
      BY <1>1, <1>6, <2>1 DEF RegIn
  <1>8. ~Chained(h) /\ h \notin On /\ active[h]
    BY <1>1, <1>3, <1>6, ChainFacts DEF Later, Reg
  <1>9. ASSUME NEW g \in Hooks, g \in On
        PROVE  /\ ~Chained(g) /\ stage[g] # "gone" /\ dependents[g] = 0
    <2>1. stage[g] # "gone"
      BY <1>1, <1>3, <1>6, <1>9 DEF TrampIn
    <2>2. ASSUME NEW c \in Hooks, published[c], target[c] = Gateway(g)
          PROVE  FALSE
      <3>1. c # h /\ target[c] = target[h] /\ pc[p] \in CommitPcs
        BY <1>1, <1>7, <1>9, <2>2 DEF CommitPcs
      <3>2. ~Overlaps(target[c], target[h])
        BY <1>1, <1>3, <2>2, <3>1 DEF Base, CommitClear
      <3> QED
        BY <3>1, <3>2 DEF Overlaps, InRange
    <2> QED
      BY <2>1, <2>2 DEF Chained, Base, Counts
  <1> HIDE DEF h
  <1>10. \A x \in Hooks : /\ Chained(x)' <=> Chained(x) \/ x \in On
                          /\ Relinking(x)' <=> Relinking(x)
    <2>1. ASSUME NEW x \in Hooks
          PROVE  Chained(x)' <=> Chained(x) \/ x \in On
      BY <1>1, <1>5, <1>7 DEF Chained
    <2> QED
      BY <1>5, <2>1 DEF Relinking
  <1>11. ASSUME NEW x \in Hooks
         PROVE  Reg(x)'
    <2>1. CASE x = h
      BY <1>3, <1>5, <1>8, <2>1 DEF Reg, Holding
    <2>2. CASE x # h
      <3>1. Reg(x)
        BY DEF Base, Registered
      <3> QED
        BY <1>5, <1>10, <2>2, <3>1 DEF Reg, Holding
    <2> QED
      BY <2>1, <2>2
  <1>12. RegIn(p)'
    <2>1. ASSUME NEW i \in 1 .. Len(installed[p])
          PROVE  published'[installed[p][i]] <=> i < k + 1
      <3>1. installed[p][i] = h => i = k
        BY <1>1, <2>1 DEF Base, Places, ListOK, Distinct, h
      <3>2. published[installed[p][i]] <=> i < k
        BY <1>1, <1>6, <2>1 DEF RegIn
      <3>3. installed[p][i] \in Hooks /\ i \in Nat /\ k \in Nat
        BY <1>1, <2>1 DEF Base, TypeOK
      <3>4. CASE i = k
        BY <1>5, <3>3, <3>4 DEF h
      <3>5. CASE i # k
        <4>1. published'[installed[p][i]] = published[installed[p][i]]
          BY <1>5, <3>1, <3>3, <3>5
        <4> QED
          BY <3>2, <3>3, <3>5, <4>1
      <3> QED
        BY <3>4, <3>5
    <2> QED
      BY <1>1, <1>5, <1>6, <2>1 DEF RegIn
  <1>13. ASSUME NEW x \in Hooks
         PROVE  Tramp(x)'
    <2>1. Tramp(x) /\ \A q \in Procs : Linked(q)' = Linked(q)
      BY <1>5 DEF Base, Trampolines, Linked
    <2>2. x \in orphan <=> stage[x] = "gone" /\ (Chained(x) \/ x \in On)
      BY <1>9, <2>1 DEF Tramp
    <2>3. x \in managed' => Holding(x) /\ ~Chained(x) /\ x \notin On
      BY <1>3, <1>5, <1>8, <2>1 DEF Tramp, Holding
    <2>4. ASSUME published'[x], ~Chained(x), x \notin On, x \notin managed'
          PROVE  \E q \in Procs : link[q] = "alive" /\ x \in Linked(q)
      <3>1. published[x] /\ x \notin managed
        BY <1>5, <2>4
      <3> QED
        BY <2>1, <2>4, <3>1 DEF Tramp
    <2> QED
      BY <1>5, <1>10, <2>1, <2>2, <2>3, <2>4 DEF Tramp, Holding
  <1>14. TrampIn(p)'
    <2>1. \A x \in Hooks : Todo(p, x)' <=> Todo(p, x)
      BY <1>5 DEF Todo, Queued, InInstalled
    <2> QED
      BY <1>5, <1>6, <2>1 DEF TrampIn
  <1>15. Counts'
    <2>1. ASSUME NEW g \in Hooks
          PROVE  dependents'[g] = IF Chained(g)' THEN 1 ELSE 0
      <3>1. dependents[g] = IF Chained(g) THEN 1 ELSE 0
        BY DEF Base, Counts
      <3>2. CASE g \in On
        BY <1>5, <1>9, <1>10, <3>2
      <3>3. CASE g \notin On
        BY <1>5, <1>10, <3>1, <3>3
      <3> QED
        BY <3>2, <3>3
    <2> QED
      BY <2>1 DEF Counts
  <1>16. \A q \in Procs : q # p => RegIn(q)' /\ TrampIn(q)'
    BY <1>6, OthersLedger
  <1> QED
    BY <1>11, <1>12, <1>13, <1>14, <1>15, <1>16 DEF Ledger, Registered, Trampolines

\* commit_published: every installed hook has been registered.
LEMMA LedgerPublished ==
    ASSUME Base, NEW p \in Procs, OthersKept(p), commit_published(p)
    PROVE  Ledger'
  <1>1. /\ pc[p] = "com_publish" /\ idx[p] > Len(installed[p]) /\ pc'[p] = "com_finalize"
        /\ installed'[p] = << >>
        /\ \A h \in Hooks : stage'[h] = IF InInstalled(p, h) THEN "guard" ELSE stage[h]
        /\ UNCHANGED <<arg, link, target, published, active, managed, dependents, orphan, retired>>
    <2>1. /\ pc[p] = "com_publish" /\ idx[p] > Len(installed[p])
          /\ UNCHANGED <<arg, link, target, published, active, managed, dependents, orphan, retired>>
      BY DEF commit_published, regVars
    <2>2. pc'[p] = "com_finalize" /\ installed'[p] = << >>
      BY DEF commit_published, Goto, Base, TypeOK
    <2>3. \A h \in Hooks : stage'[h] = IF InInstalled(p, h) THEN "guard" ELSE stage[h]
      BY DEF commit_published, InInstalled, Elements
    <2> QED
      BY <2>1, <2>2, <2>3
  <1>2. /\ RegIn(p) /\ TrampIn(p) /\ pc[p] \in CodePcs
        /\ pc[p] \notin RelinkPcs /\ pc'[p] \notin RelinkPcs
        /\ pc'[p] # "drop_end" /\ pc'[p] \notin PatchPcs /\ link[p] = "none"
    BY <1>1 DEF Base, Registered, Trampolines, TrampIn, CodePcs, RelinkPcs, PatchPcs
  <1>3. ASSUME NEW h \in Hooks
        PROVE  /\ InInstalled(p, h) => stage[h] = "installed" /\ published[h]
               /\ Holding(h)' <=> Holding(h)
               /\ stage'[h] = "gone" <=> stage[h] = "gone"
               /\ stage'[h] # "installed" \/ stage[h] = "installed"
               /\ stage'[h] # stage[h] => published[h]
    <2>1. ASSUME InInstalled(p, h)
          PROVE  stage[h] = "installed" /\ published[h]
      <3>1. PICK i \in 1 .. Len(installed[p]) : h = installed[p][i]
        BY <2>1 DEF InInstalled, Elements
      <3>2. i < idx[p]
        BY <1>1, <3>1 DEF Base, TypeOK
      <3> QED
        BY <1>1, <1>2, <2>1, <3>1, <3>2 DEF RegIn, Base, Places, Place
    <2> QED
      BY <1>1, <2>1 DEF Holding
  <1>4. \A x \in Hooks : Chained(x)' <=> Chained(x)
    BY <1>1 DEF Chained
  <1>5. ASSUME NEW x \in Hooks
        PROVE  Reg(x)'
    <2>1. Reg(x)
      BY DEF Base, Registered
    <2>2. Relinking(x) => Relinking(x)'
      <3>1. \A q \in Procs : q # p => pc'[q] = pc[q]
        BY DEF OthersKept
      <3> QED
        BY <1>1, <1>2, <3>1 DEF Relinking
    <2> QED
      BY <1>1, <1>3, <2>1, <2>2 DEF Reg
  <1>6. RegIn(p)'
    BY <1>1, <1>2 DEF RegIn
  <1>7. ASSUME NEW x \in Hooks
        PROVE  Tramp(x)'
    <2>1. Tramp(x) /\ \A q \in Procs : Linked(q)' = Linked(q)
      BY <1>1 DEF Base, Trampolines, Linked
    <2> QED
      BY <1>1, <1>3, <1>4, <2>1 DEF Tramp
  <1>8. TrampIn(p)'
    BY <1>1, <1>2 DEF TrampIn
  <1>9. Counts'
    BY <1>1, <1>4 DEF Base, Counts
  <1>10. \A q \in Procs : q # p => RegIn(q)' /\ TrampIn(q)'
    BY <1>2, OthersLedger
  <1> QED
    BY <1>5, <1>6, <1>7, <1>8, <1>9, <1>10 DEF Ledger, Registered, Trampolines

\* The first half of a release: the range and the dependency are withdrawn.
LEMMA LedgerRelease ==
    ASSUME Base, NEW p \in Procs, OthersKept(p), NEW h \in Hooks, Release(p, h),
           stage[h] \in {"detaching", "dropping"},
           pc[p] \in {"com_finalize", "drop_release"}, pc'[p] \in RelinkPcs, arg'[p] = h,
           UNCHANGED <<stage, target, active, retired, managed, installed>>
    PROVE  Ledger'
  <1> DEFINE G == {g \in Hooks : published[h] /\ target[h] = Gateway(g)}
  <1>1. /\ pc[p] \in CodePcs /\ pc[p] \notin RelinkPcs /\ pc'[p] # "drop_end"
        /\ pc'[p] \notin PatchPcs /\ pc'[p] # "com_publish" /\ installed[p] = << >>
    BY DEF CodePcs, RelinkPcs, PatchPcs, Base, InstalledInCommit
  <1>2. \A q \in Procs : pc[q] \notin RelinkPcs /\ link[q] = "none"
    BY <1>1, OthersLedger DEF Base, Trampolines, TrampIn
  <1>3. ~Early(h) /\ Holding(h) /\ Reg(h) /\ stage[h] # "installed"
    BY DEF Early, Holding, Base, Registered
  <1>4. G = {g \in Hooks : published[h] /\ kind[h] = "ManagedGateway" /\ target[h] = Gateway(g)}
    BY <1>3, ChainFacts
  <1>5. \A g \in G : Chained(g) /\ dependents[g] = 1 /\ G = {g}
    BY <1>3, ChainFacts DEF Chained, Base, Counts
  <1>6. {g \in G : dependents[g] <= 1} = G
    BY <1>5
  <1>7. /\ published'[h] = FALSE /\ \A x \in Hooks : x # h => published'[x] = published[x]
        /\ \A g \in Hooks : dependents'[g] = IF g \in G THEN 0 ELSE dependents[g]
        /\ orphan' = orphan \ G
        /\ link'[p] = IF G = {} THEN "none" ELSE IF G \cap orphan = {} THEN "alive" ELSE "orphan"
    <2>1. published' = [published EXCEPT ![h] = FALSE]
      BY DEF Release
    <2>2. /\ dependents' = [g \in Hooks |-> IF g \in {x \in G : dependents[x] <= 1} THEN 0
                                            ELSE IF g \in G THEN dependents[g] - 1 ELSE dependents[g]]
          /\ orphan' = orphan \ {g \in G : dependents[g] <= 1}
          /\ link' = [link EXCEPT ![p] = IF G = {} THEN "none"
                                         ELSE IF G \cap orphan = {} THEN "alive"
                                         ELSE IF {g \in G : dependents[g] <= 1} # {} THEN "orphan"
                                         ELSE "none"]
      BY <1>4 DEF Release
    <2> HIDE DEF G
    <2>3. \A g \in Hooks : dependents'[g] = IF g \in G THEN 0 ELSE dependents[g]
      BY <1>6, <2>2
    <2>4. link'[p] = IF G = {} THEN "none" ELSE IF G \cap orphan = {} THEN "alive" ELSE "orphan"
      BY <1>6, <2>2 DEF Base, TypeOK
    <2> QED
      BY <1>6, <2>1, <2>2, <2>3, <2>4 DEF Base, TypeOK
  <1>8. Linked(p)' = {g \in Hooks : target[h] = Gateway(g)} /\ G \subseteq Linked(p)'
    BY DEF Linked
  <1>9. \A x \in Hooks : Chained(x)' <=> Chained(x) /\ x \notin G
    <2>1. ASSUME NEW x \in Hooks
          PROVE  Chained(x)' <=> Chained(x) /\ x \notin G
      <3>1. CASE x \in G
        <4>1. \A c \in Hooks : published[c] /\ target[c] = Gateway(x) => c = h
          BY <3>1, ChainFacts
        <4> QED
          BY <1>7, <3>1, <4>1 DEF Chained
      <3>2. CASE x \notin G
        BY <1>7, <3>2 DEF Chained
      <3> QED
        BY <3>1, <3>2
    <2> QED
      BY <2>1
  <1>10. Counts'
    <2> HIDE DEF G
    <2> QED
      BY <1>7, <1>9 DEF Base, Counts
  <1>11. ASSUME NEW x \in Hooks
         PROVE  Reg(x)'
    <2>1. CASE x = h
      BY <1>3, <1>7, <2>1 DEF Reg, Relinking, Holding
    <2>2. CASE x # h
      <3>1. Reg(x) /\ ~Relinking(x)
        BY <1>2 DEF Base, Registered, Relinking
      <3> QED
        BY <1>7, <2>2, <3>1 DEF Reg, Holding
    <2> QED
      BY <2>1, <2>2
  <1>12. RegIn(p)'
    BY <1>1, <1>7 DEF RegIn
  <1>13. ASSUME NEW x \in Hooks
         PROVE  Tramp(x)'
    <2>1. Tramp(x)
      BY DEF Base, Trampolines
    <2> HIDE DEF G
    <2>2. x \in G => Chained(x) /\ x \notin managed /\ x \in Linked(p)' /\ G = {x}
      BY <1>5, <1>8, <2>1 DEF Tramp
    <2>3. x \in orphan' <=> stage[x] = "gone" /\ Chained(x)'
      BY <1>7, <1>9, <2>1 DEF Tramp
    <2>4. ASSUME published'[x], ~Chained(x)', x \notin managed
          PROVE  link'[p] = "alive" /\ x \in Linked(p)'
      <3>1. published[x]
        BY <1>7, <2>4
      <3>2. x \in G
        BY <1>2, <1>9, <2>1, <2>4, <3>1 DEF Tramp
      <3>3. x \notin orphan
        BY <2>1, <3>1 DEF Tramp, Base, Registered, Reg, Holding
      <3>4. G # {} /\ G \cap orphan = {}
        BY <2>2, <3>2, <3>3
      <3> QED
        BY <1>7, <2>2, <3>2, <3>4
    <2>5. ASSUME stage[x] = "gone", retired[x] # 1, x \notin orphan'
          PROVE  link'[p] = "orphan" /\ x \in Linked(p)'
      <3>1. x \in orphan
        BY <1>2, <2>1, <2>5 DEF Tramp
      <3>2. x \in G
        BY <1>7, <2>5, <3>1
      <3>3. G # {} /\ G \cap orphan # {}
        BY <3>1, <3>2
      <3> QED
        BY <1>7, <2>2, <3>2, <3>3
    <2>6. x \in managed => ~Chained(x)'
      BY <1>9, <2>1 DEF Tramp
    <2> QED
      BY <1>7, <2>1, <2>3, <2>4, <2>5, <2>6 DEF Tramp, Holding
  <1>14. TrampIn(p)'
    <2>1. G # {} => Linked(p)' = G
      BY <1>8
    <2>2. ASSUME active[h], target[h] \in Gateways
          PROVE  G # {}
      <3>1. published[h]
        BY <1>2, <1>3, <2>2 DEF Reg, Relinking
      <3> QED
        BY <2>2, <3>1, Addresses
    <2> HIDE DEF G
    <2>3. ASSUME link'[p] = "orphan", NEW g \in Linked(p)'
          PROVE  stage[g] = "gone" /\ retired[g] = 0 /\ ~Chained(g)'
      <3>1. G # {} /\ G \cap orphan # {} /\ g \in G
        BY <1>7, <2>1, <2>3
      <3>2. G = {g} /\ g \in orphan /\ g \in Hooks
        BY <1>5, <3>1 DEF Base, TypeOK
      <3>3. Tramp(g)
        BY <3>2 DEF Base, Trampolines
      <3> QED
        BY <1>9, <3>1, <3>2, <3>3 DEF Tramp
    <2>4. ASSUME link'[p] = "alive", NEW g \in Linked(p)'
          PROVE  stage[g] # "gone" /\ ~Chained(g)'
      <3>1. G # {} /\ G \cap orphan = {} /\ g \in G
        BY <1>7, <2>1, <2>4
      <3>2. Chained(g) /\ g \notin orphan /\ g \in Hooks
        BY <1>5, <3>1 DEF G
      <3>3. Tramp(g)
        BY <3>2 DEF Base, Trampolines
      <3> QED
        BY <1>9, <3>1, <3>2, <3>3 DEF Tramp
    <2>5. active'[arg'[p]] /\ target'[arg'[p]] \in Gateways => link'[p] # "none"
      BY <1>7, <2>2
    <2> QED
      BY <1>1, <2>3, <2>4, <2>5 DEF TrampIn
  <1>15. \A q \in Procs : q # p => RegIn(q)' /\ TrampIn(q)'
    BY <1>1, OthersLedger
  <1> QED
    BY <1>10, <1>11, <1>12, <1>13, <1>14, <1>15 DEF Ledger, Registered, Trampolines

\* The second half: the gateway below is chainable again or retired.
LEMMA LedgerRelink ==
    ASSUME Base, NEW p \in Procs, OthersKept(p), pc[p] \in RelinkPcs,
           managed' = RelinkManaged(p) \ {arg[p]}, retired' = RelinkRetired(p),
           link' = [link EXCEPT ![p] = "none"], active' = [active EXCEPT ![arg[p]] = FALSE],
           UNCHANGED <<target, published, dependents, orphan, installed>>,
           \/ UNCHANGED <<stage, arg>> /\ pc'[p] \in {"drop_begin", "drop_end"}
           \/ stage' = [stage EXCEPT ![arg[p]] = "guard"] /\ pc'[p] = "com_finalize"
    PROVE  Ledger'
  <1> DEFINE h == arg[p]
             L == Linked(p)
  <1>1. /\ pc[p] \in CodePcs /\ pc[p] \notin PatchPcs /\ pc'[p] \notin RelinkPcs
        /\ pc'[p] \notin PatchPcs /\ pc'[p] # "com_publish" /\ installed[p] = << >>
        /\ h \in Hooks /\ ~Early(h)
    BY DEF CodePcs, RelinkPcs, PatchPcs, Base, InstalledInCommit, TypeOK, HookPcs, NotEarly, AttachPcs
  <1>2. /\ Reg(h) /\ RegIn(p) /\ Tramp(h) /\ TrampIn(p) /\ ~published[h]
        /\ \A q \in Procs : q # p => pc[q] \notin RelinkPcs /\ link[q] = "none"
    BY <1>1, OthersLedger DEF Base, Registered, Trampolines, RegIn
  <1>3. stage[h] \in {"detaching", "dropping"}
    <2>1. CASE pc[p] = "drop_relink"
      BY <1>1, <2>1 DEF Base, Places, Place, DropPcs
    <2>2. CASE pc[p] = "com_relink"
      <3> DEFINE D == [hook : Hooks, was : BOOLEAN]
      <3>1. detached[p] # << >> /\ detached[p] \in Seq(D) /\ h = Head(detached[p]).hook
        BY <2>2 DEF Base, CursorOK, TypeOK, Places, ListOK
      <3> HIDE DEF D
      <3>2. Head(detached[p]) \in Elements(detached[p])
        BY <3>1, ElementsOf
      <3>3. InDetached(p, h)
        BY <3>1, <3>2 DEF InDetached
      <3> QED
        BY <1>1, <3>3 DEF Base, Places, Place
    <2> QED
      BY <2>1, <2>2 DEF RelinkPcs
  <1>4. \A g \in L : g \in Hooks /\ g # h /\ stage[g] \in Later
    BY <1>1, ChainFacts DEF Linked
  <1> HIDE DEF h, L
  <1>5. /\ \A x \in Hooks : x # h => stage'[x] = stage[x] /\ active'[x] = active[x]
        /\ stage'[h] \in {"detaching", "dropping", "guard"} /\ active'[h] = FALSE
        /\ link'[p] = "none"
        /\ managed' = (managed \cup (IF link[p] = "alive" THEN L ELSE {})) \ {h}
        /\ \A g \in Hooks : retired'[g] = IF link[p] = "orphan" /\ g \in L THEN retired[g] + 1
                                          ELSE retired[g]
    <2>1. /\ \A x \in Hooks : x # h => stage'[x] = stage[x] /\ active'[x] = active[x]
          /\ stage'[h] \in {"detaching", "dropping", "guard"} /\ active'[h] = FALSE
          /\ link'[p] = "none"
      BY <1>1, <1>3 DEF Base, TypeOK, h
    <2> QED
      BY <2>1 DEF RelinkManaged, RelinkRetired, h, L
  <1>6. \A x \in Hooks : Chained(x)' <=> Chained(x)
    BY DEF Chained
  <1>7. ASSUME NEW x \in Hooks
        PROVE  Reg(x)'
    <2>1. CASE x = h
      BY <1>2, <1>5, <2>1 DEF Reg
    <2>2. CASE x # h
      <3>1. Reg(x) /\ ~Relinking(x)
        BY <1>2, <2>2 DEF Base, Registered, Relinking, h
      <3> QED
        BY <1>5, <2>2, <3>1 DEF Reg, Holding
    <2> QED
      BY <2>1, <2>2
  <1>8. pc'[p] = "drop_end" => arg'[p] = h
    BY DEF h
  <1>9. RegIn(p)'
    BY <1>1, <1>2, <1>5, <1>8 DEF RegIn
  <1>10. ASSUME NEW x \in Hooks
         PROVE  Tramp(x)'
    <2>1. Tramp(x)
      BY DEF Base, Trampolines
    <2>2. /\ link[p] = "orphan" /\ x \in L => stage[x] = "gone" /\ retired[x] = 0 /\ ~Chained(x)
          /\ link[p] = "alive" /\ x \in L => stage[x] # "gone" /\ ~Chained(x) /\ Holding(x)
      BY <1>2, <1>4 DEF TrampIn, L, Later, Holding
    <2>3. (Holding(x)' <=> Holding(x)) /\ (stage'[x] = "gone" <=> stage[x] = "gone")
      BY <1>3, <1>5 DEF Holding
    <2>4. ASSUME published[x], ~Chained(x), x \notin managed'
          PROVE  FALSE
      <3>1. x # h
        BY <1>2, <2>4
      <3>2. x \notin managed /\ ~(link[p] = "alive" /\ x \in L)
        BY <1>5, <2>4, <3>1
      <3> QED
        BY <1>2, <2>1, <2>4, <3>2 DEF Tramp, L
    <2>5. ASSUME stage[x] = "gone", x \notin orphan
          PROVE  retired'[x] = 1
      <3>1. CASE retired[x] = 1
        BY <1>5, <2>2, <3>1
      <3>2. CASE retired[x] # 1
        <4>1. link[p] = "orphan" /\ x \in L
          BY <1>2, <2>1, <2>5, <3>2 DEF Tramp, L
        <4> QED
          BY <1>5, <2>2, <4>1
      <3> QED
        BY <3>1, <3>2
    <2>6. x \in managed' => Holding(x) /\ ~Chained(x)
      BY <1>5, <2>1, <2>2 DEF Tramp
    <2>7. /\ stage[x] # "gone" => retired'[x] = 0
          /\ x \in orphan => retired'[x] = 0
      BY <1>5, <2>1, <2>2 DEF Tramp
    <2> QED
      BY <1>6, <2>1, <2>3, <2>4, <2>5, <2>6, <2>7 DEF Tramp
  <1>11. TrampIn(p)'
    BY <1>1, <1>5, <1>8 DEF TrampIn
  <1>12. Counts'
    BY <1>6 DEF Base, Counts
  <1>13. \A q \in Procs : q # p => RegIn(q)' /\ TrampIn(q)'
    BY <1>1, OthersLedger
  <1> QED
    BY <1>7, <1>9, <1>10, <1>11, <1>12, <1>13 DEF Ledger, Registered, Trampolines

\* drop_end: the trampoline is retired, or inherited by the hook chained on it.
LEMMA LedgerEnd ==
    ASSUME Base, NEW p \in Procs, OthersKept(p), drop_end(p)
    PROVE  Ledger'
  <1> DEFINE h == arg[p]
  <1>1. /\ pc[p] = "drop_end" /\ pc'[p] = "ready" /\ h \in Hooks /\ stage[h] = "dropping"
        /\ pc[p] \in CodePcs /\ pc[p] \notin RelinkPcs
        /\ pc'[p] \notin RelinkPcs /\ pc'[p] \notin PatchPcs /\ installed[p] = << >>
    <2>1. pc[p] = "drop_end" /\ pc'[p] = "ready"
      BY DEF drop_end, Goto, Base, TypeOK
    <2>2. h \in Hooks
      BY <2>1 DEF Base, TypeOK, HookPcs
    <2>3. stage[h] = "dropping"
      BY <2>1, <2>2 DEF Base, Places, Place, DropPcs
    <2> QED
      BY <2>1, <2>2, <2>3 DEF CodePcs, RelinkPcs, PatchPcs, Base, InstalledInCommit
  <1>2. /\ RegIn(p) /\ Tramp(h) /\ TrampIn(p) /\ link[p] = "none"
        /\ \A q \in Procs : link[q] = "none" /\ pc[q] \notin RelinkPcs
    BY <1>1, OthersLedger DEF Base, Registered, Trampolines, TrampIn
  <1>3. ~published[h] /\ ~active[h] /\ h \notin managed
    BY <1>1, <1>2 DEF RegIn, TrampIn
  <1>4. dependents[h] = IF Chained(h) THEN 1 ELSE 0
    BY <1>1 DEF Base, Counts
  <1>5. /\ orphan' = IF Chained(h) THEN orphan \cup {h} ELSE orphan
        /\ retired'[h] = IF Chained(h) THEN retired[h] ELSE retired[h] + 1
        /\ \A x \in Hooks : x # h => retired'[x] = retired[x] /\ stage'[x] = stage[x]
        /\ stage'[h] = "gone"
        /\ UNCHANGED <<target, active, published, managed, dependents, installed, link>>
    <2>1. dependents[h] > 0 <=> Chained(h)
      BY <1>4
    <2>2. /\ orphan' = IF Chained(h) THEN orphan \cup {h} ELSE orphan
          /\ retired' = IF Chained(h) THEN retired ELSE [retired EXCEPT ![h] = @ + 1]
      BY <2>1 DEF drop_end, orphan_chained_gateway, RetiresTrampoline
    <2>3. /\ \A x \in Hooks : x # h => stage'[x] = stage[x]
          /\ stage'[h] = "gone"
          /\ UNCHANGED <<target, active, published, managed, dependents, installed, link>>
      BY <1>1 DEF drop_end, txVars, Base, TypeOK
    <2>4. retired'[h] = IF Chained(h) THEN retired[h] ELSE retired[h] + 1
      BY <1>1, <2>2 DEF Base, TypeOK
    <2>5. \A x \in Hooks : x # h => retired'[x] = retired[x]
      BY <1>1, <2>2 DEF Base, TypeOK
    <2> QED
      BY <2>2, <2>3, <2>4, <2>5
  <1>6. \A x \in Hooks : Chained(x)' <=> Chained(x)
    BY <1>5 DEF Chained
  <1> HIDE DEF h
  <1>7. ASSUME NEW x \in Hooks
        PROVE  Reg(x)'
    <2>1. CASE x = h
      BY <1>3, <1>5, <2>1 DEF Reg
    <2>2. CASE x # h
      <3>1. Reg(x) /\ ~Relinking(x)
        BY <1>2 DEF Base, Registered, Relinking
      <3> QED
        BY <1>5, <2>2, <3>1 DEF Reg, Holding
    <2> QED
      BY <2>1, <2>2
  <1>8. RegIn(p)'
    BY <1>1, <1>5 DEF RegIn
  <1>9. ASSUME NEW x \in Hooks
        PROVE  Tramp(x)'
    <2>1. Tramp(x)
      BY DEF Base, Trampolines
    <2>2. CASE x = h
      BY <1>1, <1>2, <1>3, <1>5, <1>6, <2>1, <2>2 DEF Tramp
    <2>3. CASE x # h
      BY <1>2, <1>5, <1>6, <2>1, <2>3 DEF Tramp, Holding
    <2> QED
      BY <2>2, <2>3
  <1>10. TrampIn(p)'
    BY <1>1, <1>2, <1>5 DEF TrampIn
  <1>11. Counts'
    BY <1>5, <1>6 DEF Base, Counts
  <1>12. \A q \in Procs : q # p => RegIn(q)' /\ TrampIn(q)'
    BY <1>1, OthersLedger
  <1> QED
    BY <1>7, <1>8, <1>9, <1>10, <1>11, <1>12 DEF Ledger, Registered, Trampolines

\* dismantle: a hook that was never published goes.
LEMMA LedgerDismantle ==
    ASSUME Base, Disciplined, NEW p \in Procs, OthersKept(p), dismantle(p)
    PROVE  Ledger'
  <1> DEFINE h == Head(installed[p])
  <1>1. /\ pc[p] = "com_dismantle" /\ installed[p] # << >> /\ installed[p] \in Seq(Hooks)
        /\ pc[p] \in CodePcs /\ pc[p] \in PatchPcs /\ pc[p] \notin RelinkPcs
    BY DEF dismantle, Base, TypeOK, CodePcs, PatchPcs, RelinkPcs
  <1>2. h \in Hooks /\ InInstalled(p, h)
    BY <1>1, ElementsOf DEF InInstalled
  <1>3. stage[h] = "installed"
    BY <1>2 DEF Base, Places, Place
  <1>4. /\ RegIn(p) /\ Tramp(h) /\ TrampIn(p) /\ link[p] = "none"
        /\ \A q \in Procs : link[q] = "none" /\ pc[q] \notin RelinkPcs
    BY <1>1, <1>2, OthersLedger DEF Base, Registered, Trampolines, TrampIn
  <1>5. \A x \in Hooks : InInstalled(p, x) => ~published[x]
    BY <1>1, <1>4 DEF RegIn, InInstalled, Elements
  <1>6. ~Chained(h)
    BY <1>2, <1>3, ChainFacts DEF Later
  <1>7. /\ stage'[h] = "gone" /\ retired'[h] = retired[h] + 1
        /\ \A x \in Hooks : x # h => retired'[x] = retired[x] /\ stage'[x] = stage[x]
        /\ managed' = managed \ {h} /\ installed'[p] = Tail(installed[p])
        /\ UNCHANGED <<target, active, published, dependents, orphan, link, pc, arg, queue>>
    BY <1>2 DEF dismantle, Disciplined, callVars, Base, TypeOK
  <1>8. \A x \in Hooks : (Chained(x)' <=> Chained(x)) /\ (InInstalled(p, x)' => InInstalled(p, x))
    <2>1. Elements(installed'[p]) \subseteq Elements(installed[p])
      BY <1>1, <1>7, ElementsOf
    <2> QED
      BY <1>7, <2>1 DEF Chained, InInstalled
  <1> HIDE DEF h
  <1>9. ASSUME NEW x \in Hooks
        PROVE  Reg(x)'
    <2>1. CASE x = h
      BY <1>2, <1>5, <1>7, <2>1 DEF Reg, Holding
    <2>2. CASE x # h
      <3>1. Reg(x) /\ ~Relinking(x)
        BY <1>4 DEF Base, Registered, Relinking
      <3> QED
        BY <1>7, <2>2, <3>1 DEF Reg, Holding
    <2> QED
      BY <2>1, <2>2
  <1>10. RegIn(p)'
    <2>1. ASSUME NEW i \in 1 .. Len(installed'[p])
          PROVE  ~published[installed'[p][i]]
      <3>1. Elements(installed'[p]) \subseteq Elements(installed[p])
            /\ Elements(installed[p]) \subseteq Hooks
        BY <1>1, <1>7, ElementsOf
      <3>2. installed'[p][i] \in Elements(installed'[p])
        BY <2>1 DEF Elements
      <3> QED
        BY <1>5, <3>1, <3>2 DEF InInstalled
    <2>2. pc'[p] = "com_dismantle"
      BY <1>1, <1>7
    <2> QED
      BY <1>7, <2>1, <2>2 DEF RegIn, RelinkPcs
  <1>11. ASSUME NEW x \in Hooks
         PROVE  Tramp(x)'
    <2>1. Tramp(x)
      BY DEF Base, Trampolines
    <2>2. CASE x = h
      BY <1>3, <1>4, <1>6, <1>7, <1>8, <2>1, <2>2, <1>5, <1>2 DEF Tramp
    <2>3. CASE x # h
      BY <1>4, <1>7, <1>8, <2>1, <2>3 DEF Tramp, Holding
    <2> QED
      BY <2>2, <2>3
  <1>12. TrampIn(p)'
    <2>1. ASSUME NEW x \in Hooks, NEW g \in Hooks, Todo(p, x)', target[x] = Gateway(g)
          PROVE  stage'[g] # "gone"
      <3>1. Queued(p)' = Queued(p)
        BY <1>7 DEF Queued
      <3>2. Todo(p, x)
        BY <1>8, <2>1, <3>1 DEF Todo
      <3>3. stage[g] # "gone" /\ stage[g] \in Later
        BY <1>1, <1>4, <2>1, <3>2, ChainFacts, TodoIsSettled DEF TrampIn, Base
      <3>4. g # h
        BY <1>3, <3>3 DEF Later
      <3> QED
        BY <1>7, <3>3, <3>4
    <2> QED
      BY <1>1, <1>4, <1>7, <2>1 DEF TrampIn, RelinkPcs
  <1>13. Counts'
    BY <1>7, <1>8 DEF Base, Counts
  <1>14. \A q \in Procs : q # p => RegIn(q)' /\ TrampIn(q)'
    BY <1>1, OthersLedger
  <1> QED
    BY <1>9, <1>10, <1>11, <1>12, <1>13, <1>14 DEF Ledger, Registered, Trampolines

\* Every step keeps the books.
LEMMA LedgerKept ==
    ASSUME Base, Builders, Disciplined, NEW p \in Procs, Step(p)
    PROVE  Ledger'
  <1>0. OthersKept(p) /\ \A h \in Hooks : ~Early(h) => target'[h] = target[h]
    BY OthersAreKept, TargetIsSettled DEF Base, Step
  <1>1. CASE AsideAction(p)
    <2>1. Aside(p)
      BY <1>1, AsideStep DEF Base
    <2>2. Registered' /\ Counts'
      BY <1>0, <2>1, RegisteredAside, CountsAside DEF Base
    <2>3. Trampolines'
      BY <1>0, <2>1, TrampolinesAside DEF Base
    <2> QED
      BY <2>2, <2>3 DEF Ledger
  <1>2. CASE commit_install(p)
    <2>1. PICK h \in Hooks : install_inline(p, h) \/ prepare_detach(p, h)
      BY <1>2 DEF commit_install
    <2>2. CASE install_inline(p, h)
      BY <1>0, <1>2, <2>2, LedgerInstall
    <2>3. CASE prepare_detach(p, h)
      BY <1>1, <1>2, <2>3 DEF AsideAction, prepare_detach
    <2> QED
      BY <2>1, <2>2, <2>3
  <1>3. CASE publish(p)
    BY <1>0, <1>3, LedgerPublish
  <1>4. CASE commit_published(p)
    BY <1>0, <1>4, LedgerPublished
  <1>5. CASE detach_finalize(p)
    <2> DEFINE D == [hook : Hooks, was : BOOLEAN]
               h == Head(detached[p]).hook
    <2>1. detached[p] # << >> /\ detached[p] \in Seq(D)
      BY <1>5 DEF detach_finalize, Base, TypeOK
    <2>2. \A d \in D : d.hook \in Hooks
      OBVIOUS
    <2> HIDE DEF D
    <2>3. Head(detached[p]) \in Elements(detached[p]) /\ h \in Hooks
      BY <2>1, <2>2, ElementsOf
    <2>4. stage[h] = "detaching"
      BY <2>3 DEF Base, Places, Place, InDetached
    <2>5. /\ Release(p, h) /\ pc[p] = "com_finalize" /\ pc'[p] \in RelinkPcs /\ arg'[p] = h
          /\ UNCHANGED <<stage, target, active, retired, managed, installed>>
      BY <1>5 DEF detach_finalize, Goto, txVars, Base, TypeOK, RelinkPcs
    <2> HIDE DEF h
    <2> QED
      BY <1>0, <2>3, <2>4, <2>5, LedgerRelease
  <1>6. CASE drop_release(p)
    <2>1. arg[p] \in Hooks /\ pc[p] = "drop_release"
      BY <1>6 DEF drop_release, Base, TypeOK, HookPcs
    <2>2. stage[arg[p]] = "dropping"
      BY <2>1 DEF Base, Places, Place, DropPcs
    <2>3. /\ Release(p, arg[p]) /\ pc'[p] \in RelinkPcs /\ arg'[p] = arg[p]
          /\ UNCHANGED <<stage, target, active, retired, managed, installed>>
      BY <1>6 DEF drop_release, Goto, txVars, Base, TypeOK, RelinkPcs
    <2> QED
      BY <1>0, <2>1, <2>2, <2>3, LedgerRelease
  <1>7. CASE detach_relink(p) \/ drop_relink(p)
    <2>1. /\ pc[p] \in RelinkPcs
          /\ managed' = RelinkManaged(p) \ {arg[p]} /\ retired' = RelinkRetired(p)
          /\ link' = [link EXCEPT ![p] = "none"] /\ active' = [active EXCEPT ![arg[p]] = FALSE]
          /\ UNCHANGED <<target, published, dependents, orphan, installed>>
      BY <1>7 DEF detach_relink, drop_relink, txVars, RelinkPcs
    <2>2. \/ UNCHANGED <<stage, arg>> /\ pc'[p] \in {"drop_begin", "drop_end"}
          \/ stage' = [stage EXCEPT ![arg[p]] = "guard"] /\ pc'[p] = "com_finalize"
      BY <1>7 DEF detach_relink, drop_relink, Goto, Base, TypeOK
    <2> QED
      BY <1>0, <2>1, <2>2, LedgerRelink
  <1>8. CASE drop_end(p)
    BY <1>0, <1>8, LedgerEnd
  <1>9. CASE dismantle(p)
    BY <1>0, <1>9, LedgerDismantle
  <1> QED
    BY <1>1, <1>2, <1>3, <1>4, <1>5, <1>6, <1>7, <1>8, <1>9
       DEF Step, AsideAction, Commit, Unhook

-----------------------------------------------------------------------------
(***************************************************************************)
(* Targets is preserved                                                    *)
(***************************************************************************)

\* While q is inside attach, another thread can do little.
LEMMA CalmStep ==
    ASSUME TypeOK, AttachesAlone, Disciplined, NEW p \in Procs, Step(p),
           NEW q \in Procs, q # p, pc[q] \in AttachPcs
    PROVE  Begin(p) \/ update_thread(p) \/ abort(p)
  <1>1. pc[p] = "ready" /\ "ready" \notin AttachPcs
    BY DEF AttachesAlone, AttachPcs
  <1>2. ~MayCall(p) /\ ~MayAttach(p)
    BY <1>1 DEF MayCall, MayAttach, Disciplined
  <1>3. ~Attach(p) /\ ~Toggle(p) /\ ~Int3(p) /\ ~(\E h \in Hooks : detach(p, h))
    BY <1>1, <1>2 DEF Attach, attach, attach_managed, attach_stub, attach_follow, attach_check,
       attach_relocate, attach_snapshot, Toggle, enable, disable, Int3, arm_int3, remove_int3, detach
  <1>4. ~Unhook(p)
    BY <1>1, <1>2 DEF Unhook, unhook, Drop, drop_write, drop_release, drop_relink, drop_end
  <1>5. ~Commit(p)
    BY <1>1, <1>2 DEF Commit, commit, commit_lock, commit_install, commit_fail,
       commit_applied, publish, commit_published, detach_finalize, detach_relink, commit_done,
       rollback_detaches, rollback_start, rollback, rollback_done, dismantle, commit_failed
  <1> QED
    BY <1>3, <1>4, <1>5 DEF Step, Transaction

\* A step outside attach touches no target.
LEMMA TargetsCall ==
    ASSUME Base, Builders, AttachesAlone, Disciplined, NEW p \in Procs, Step(p),
           Transaction(p) \/ Commit(p) \/ Toggle(p) \/ Unhook(p) \/ Int3(p)
    PROVE  Targets'
  <1>0. TypeOK /\ CursorOK /\ Places /\ OthersKept(p)
    BY OthersAreKept DEF Base
  <1>1. UNCHANGED <<target, kind, leads>> /\ pc'[p] \notin AttachPcs
    <2> USE DEF hookVars, regVars, lockVars, txVars, callVars, Goto
    <2>1. CASE Transaction(p) \/ Toggle(p) \/ Int3(p)
      <3>1. UNCHANGED <<target, kind, leads, pc>> /\ pc[p] = "ready"
        BY <2>1 DEF Transaction, Begin, update_thread, abort, detach, Toggle, enable,
           disable, Int3, arm_int3, remove_int3
      <3> QED
        BY <3>1 DEF AttachPcs
    <2>2. CASE Unhook(p)
      BY <1>0, <2>2 DEF Unhook, unhook, Drop, drop_write, drop_release, drop_relink, drop_end,
         AttachPcs, TypeOK
    <2>3. CASE Commit(p)
      <3>1. UNCHANGED <<target, kind, leads>>
        BY <2>3 DEF Commit, commit, commit_lock, commit_install, commit_fail,
           commit_applied, publish, commit_published, detach_finalize, detach_relink, commit_done,
           rollback_detaches, rollback_start, rollback, rollback_done, dismantle, commit_failed
      <3>2. pc'[p] \notin AttachPcs
        BY <1>0, <2>3 DEF Commit, commit, commit_lock, CommitFails, commit_install, commit_fail,
           commit_applied, publish, commit_published, detach_finalize, detach_relink, commit_done,
           rollback_detaches, rollback_start, rollback, rollback_done, dismantle, commit_failed,
           AttachPcs, TypeOK
      <3> QED
        BY <3>1, <3>2
    <2> QED
      BY <2>1, <2>2, <2>3
  <1>2. ASSUME NEW h \in Hooks
        PROVE  /\ stage'[h] = "none" <=> stage[h] = "none"
               /\ Early(h)' <=> Early(h)
               /\ stage[h] \in Later => stage'[h] \in Later
    <2>1. stage'[h] = stage[h] \/ <<stage[h], stage'[h]>> \in CallMoves
      BY <1>0, CallMove
    <2> QED
      BY <2>1 DEF CallMoves, Early, Later
  <1>3. ASSUME NEW h \in Hooks
        PROVE  HookTarget(h)'
    <2>1. HookTarget(h)
      BY DEF Base, Targets
    <2> QED
      BY <1>1, <1>2, <2>1 DEF HookTarget
  <1>4. ASSUME NEW q \in Procs
        PROVE  AttachTarget(q)'
    <2>1. CASE pc'[q] \notin AttachPcs
      BY <2>1 DEF AttachTarget, AttachPcs
    <2>2. CASE pc'[q] \in AttachPcs
      <3>1. q # p /\ pc'[q] = pc[q] /\ arg'[q] = arg[q] /\ pc[q] \in AttachPcs
        BY <1>0, <1>1, <2>2 DEF OthersKept
      <3>2. UNCHANGED <<managed, livePatches, armed>>
        BY <1>0, <3>1, CalmStep DEF Begin, update_thread, abort, regVars
      <3>3. AttachTarget(q)
        BY DEF Base, Targets
      <3> QED
        BY <1>1, <3>1, <3>2, <3>3
           DEF AttachTarget, is_managed_gateway, overlaps_live_patch, armed_in_range
    <2> QED
      BY <2>1, <2>2
  <1> QED
    BY <1>3, <1>4 DEF Targets

\* A step of attach on the hook h.
LEMMA TargetsOne ==
    ASSUME Base, NEW p \in Procs, OthersKept(p), \A q \in Procs \ {p} : pc[q] = "ready",
           NEW h \in Hooks, stage[h] \in {"none", "building"},
           \A x \in Hooks \ {h} : /\ stage'[x] = stage[x] /\ target'[x] = target[x]
                                  /\ kind'[x] = kind[x] /\ leads'[x] = leads[x],
           HookTarget(h)', AttachTarget(p)'
    PROVE  Targets'
  <1>1. ASSUME NEW x \in Hooks \ {h}
        PROVE  HookTarget(x)'
    <2>1. HookTarget(x)
      BY DEF Base, Targets
    <2>2. \A g \in Hooks : stage[g] \in Later => stage'[g] \in Later
      BY DEF Later
    <2>3. Early(x)' <=> Early(x)
      BY DEF Early
    <2> QED
      BY <2>1, <2>2, <2>3 DEF HookTarget
  <1>2. ASSUME NEW q \in Procs \ {p}
        PROVE  AttachTarget(q)'
    <2>1. pc'[q] = "ready"
      BY DEF OthersKept
    <2> QED
      BY <2>1 DEF AttachTarget
  <1> QED
    BY <1>1, <1>2 DEF Targets

\* While nobody holds the code lock every patch is a published one.
LEMMA CodeFree ==
    ASSUME Base, codeOwner = NoProc
    PROVE  /\ \A q \in Procs : link[q] = "none"
           /\ \A h \in Hooks : stage[h] # "installed"
           /\ \A h \in Hooks : active[h] /\ Holding(h) => published[h]
  <1>1. ASSUME NEW q \in Procs
        PROVE  pc[q] \notin CodePcs /\ pc[q] \notin RelinkPcs /\ pc[q] \notin PatchPcs
    BY ProcsAssumption DEF Base, CodeHeld, CodePcs, RelinkPcs, PatchPcs
  <1>2. \A q \in Procs : link[q] = "none" /\ installed[q] = << >>
    BY <1>1 DEF Base, Trampolines, TrampIn, InstalledInCommit
  <1>3. \A h \in Hooks : stage[h] # "installed"
    BY <1>2 DEF Base, Places, InInstalled, Elements
  <1>4. \A h \in Hooks : active[h] /\ Holding(h) => published[h]
    BY <1>1, <1>3 DEF Base, Registered, Reg, Relinking
  <1> QED
    BY <1>2, <1>3, <1>4

LEMMA AttachLockFree ==
    ASSUME Base, NEW p \in Procs, pc[p] \in AttachPcs \cup {"ready"},
           \A q \in Procs \ {p} : pc[q] = "ready"
    PROVE  codeOwner = NoProc
  <1>1. \A q \in Procs : pc[q] \notin CodePcs
    BY DEF AttachPcs, CodePcs
  <1> QED
    BY <1>1 DEF Base, CodeHeld, TypeOK

\* The entry of attach.
LEMMA TargetsEntry ==
    ASSUME Base, Disciplined, NEW p \in Procs, OthersKept(p),
           NEW h \in Hooks, NEW s \in Funcs \cup Gateways, NEW follow \in BOOLEAN,
           attach(p, h, s, follow)
    PROVE  Targets'
  <1>1. /\ pc[p] = "ready" /\ (\A q \in Procs : pc[q] = "ready") /\ stage[h] = "none"
        /\ Attachable(s) /\ (follow => ~is_chained_gateway(s)) /\ (follow \/ s \in Funcs)
        /\ UNCHANGED <<kind, leads, managed, livePatches, armed>>
    BY DEF attach, MayAttach, Disciplined, regVars
  <1>2. /\ stage'[h] = "building" /\ target'[h] = s /\ arg'[p] = h
        /\ pc'[p] = IF follow THEN "att_managed" ELSE "att_check"
        /\ \A x \in Hooks \ {h} : stage'[x] = stage[x] /\ target'[x] = target[x]
    BY DEF attach, Goto, Base, TypeOK
  <1>3. codeOwner = NoProc
    BY <1>1, AttachLockFree
  <1>4. ASSUME NEW g \in Hooks, s = Gateway(g)
        PROVE  published[g] /\ g # h /\ stage[g] \in Later
    <2>1. PICK x \in Hooks : s = Gateway(x) /\ published[x]
                               /\ stage[x] \in {"queued", "installed", "guard", "detaching"}
      BY <1>1, <1>4, Addresses DEF Attachable, Disciplined
    <2>2. x = g
      BY <1>4, <2>1, Addresses
    <2>3. Holding(g) /\ stage[g] # "installed"
      BY <1>3, <2>1, <2>2, CodeFree DEF Base, Registered, Reg
    <2> QED
      BY <1>1, <2>1, <2>2, <2>3 DEF Holding, Later
  <1>5. HookTarget(h)'
    <2>1. leads'[h] \notin Gateways
      BY <1>1 DEF Base, Targets, HookTarget
    <2>2. s \notin Bodies /\ s # Gateway(h)
      BY <1>4, Addresses
    <2>3. Early(h)'
      BY <1>2 DEF Early
    <2>4. \A g \in Hooks : s = Gateway(g) => stage'[g] \in Later
      BY <1>2, <1>4
    <2> QED
      BY <1>2, <2>1, <2>2, <2>3, <2>4 DEF HookTarget
  <1>6. AttachTarget(p)'
    <2>1. CASE follow
      <3>1. ASSUME s \in Gateways
            PROVE  is_managed_gateway(s)
        <4>1. PICK g \in Hooks : s = Gateway(g)
          BY <3>1, Addresses
        <4>2. dependents[g] = 0 /\ published[g]
          BY <1>1, <1>4, <2>1, <4>1 DEF is_chained_gateway, Base, TypeOK
        <4>3. ~Chained(g)
          BY <4>2 DEF Base, Counts
        <4>4. g \in managed
          BY <1>3, <4>2, <4>3, CodeFree DEF Base, Trampolines, Tramp
        <4> QED
          BY <4>1, <4>4 DEF is_managed_gateway
      <3> QED
        BY <1>1, <1>2, <2>1, <3>1 DEF AttachTarget, is_managed_gateway
    <2>2. CASE ~follow
      <3>1. s \notin Gateways
        BY <1>1, <2>2, Addresses
      <3> QED
        BY <1>2, <2>2, <3>1 DEF AttachTarget
    <2> QED
      BY <2>1, <2>2
  <1> QED
    BY <1>1, <1>2, <1>5, <1>6, TargetsOne

\* The steps after it.
LEMMA TargetsAttach ==
    ASSUME Base, Builders, AttachesAlone, NEW p \in Procs, OthersKept(p),
           attach_managed(p) \/ attach_stub(p) \/ attach_follow(p) \/ attach_check(p)
               \/ attach_relocate(p) \/ attach_snapshot(p)
    PROVE  Targets'
  <1>0. pc[p] \in AttachPcs
    BY DEF attach_managed, attach_stub, attach_follow, attach_check, attach_relocate,
       attach_snapshot, AttachPcs
  <1>h. PICK h \in Hooks : h = arg[p]
    BY <1>0 DEF Base, TypeOK, HookPcs
  <1> USE <1>h
  <1> DEFINE s == target[h]
  <1>1. pc[p] \in AttachPcs /\ h \in Hooks /\ stage[h] = "building"
        /\ \A q \in Procs \ {p} : pc[q] = "ready"
    BY <1>0 DEF Builders, AttachesAlone
  <1>2. HookTarget(h) /\ AttachTarget(p) /\ TypeOK
    BY <1>1 DEF Base, Targets
  <1> DEFINE Rest == \A x \in Hooks \ {h} : /\ stage'[x] = stage[x] /\ target'[x] = target[x]
                                             /\ kind'[x] = kind[x] /\ leads'[x] = leads[x]
  <1>3. ASSUME Reject(p)
        PROVE  Targets'
    <2>1. stage'[h] = "none" /\ leads'[h] = leads[h] /\ pc'[p] = "ready" /\ Rest
      BY <1>1, <1>2, <1>3 DEF Reject, Goto, TypeOK
    <2>2. HookTarget(h)'
      BY <1>2, <2>1 DEF HookTarget, Early
    <2>3. AttachTarget(p)'
      BY <2>1 DEF AttachTarget
    <2> QED
      BY <1>1, <2>1, <2>2, <2>3, TargetsOne
  <1>4. ASSUME UNCHANGED <<stage, target, leads, arg>>, Rest, AttachTarget(p)'
        PROVE  Targets'
    <2>1. HookTarget(h)'
      <3>1. Early(h)' /\ \A g \in Hooks : stage'[g] = stage[g]
        BY <1>1, <1>4 DEF Early
      <3> QED
        BY <1>1, <1>2, <1>4, <3>1 DEF HookTarget
    <2> QED
      BY <1>1, <1>4, <2>1, TargetsOne
  <1> USE DEF Goto
  <1>5. CASE attach_managed(p)
    <2>1. CASE is_managed_gateway(s) /\ ~Reject(p)
      <3>1. /\ kind' = [kind EXCEPT ![h] = "ManagedGateway"] /\ pc'[p] = "att_stub"
            /\ UNCHANGED <<stage, target, leads, arg, managed>>
        BY <1>2, <1>5, <2>1 DEF attach_managed, regVars, TypeOK
      <3>2. s \in Gateways /\ kind'[h] = "ManagedGateway" /\ Rest
        BY <1>1, <1>2, <2>1, <3>1, Addresses DEF is_managed_gateway, TypeOK
      <3>3. AttachTarget(p)'
        BY <1>1, <2>1, <3>1, <3>2 DEF AttachTarget, is_managed_gateway
      <3> QED
        BY <1>4, <3>1, <3>2, <3>3
    <2>2. CASE ~is_managed_gateway(s)
      <3>1. UNCHANGED <<stage, target, kind, leads, arg>> /\ pc'[p] = "att_follow" /\ pc[p] = "att_managed"
        BY <1>2, <1>5, <2>2 DEF attach_managed, hookVars, TypeOK
      <3>2. s \notin Gateways
        BY <1>2, <2>2, <3>1 DEF AttachTarget
      <3>3. AttachTarget(p)'
        BY <3>1, <3>2 DEF AttachTarget
      <3> QED
        BY <1>4, <3>1, <3>3
    <2> QED
      BY <1>3, <2>1, <2>2
  <1>6. CASE attach_stub(p)
    <2>1. CASE ~Reject(p)
      <3>1. pc[p] = "att_stub" /\ pc'[p] = "att_snapshot" /\ UNCHANGED <<stage, target, kind, arg, managed>>
        BY <1>2, <1>6, <2>1 DEF attach_stub, regVars, TypeOK
      <3>2. /\ leads'[h] \notin Gateways /\ \A x \in Hooks \ {h} : leads'[x] = leads[x]
        <4>1. PICK t \in Site : /\ leads' = [leads EXCEPT ![h] = t]
                                /\ \/ \E g \in Hooks : t = leads[g]
                                   \/ \E c \in Hooks : t = Detour(c)
          BY <1>6, <2>1 DEF attach_stub
        <4>2. t \notin Gateways
          BY <4>1, Addresses DEF Base, Targets, HookTarget
        <4> QED
          BY <1>1, <1>2, <4>1, <4>2 DEF TypeOK
      <3>3. HookTarget(h)'
        <4>1. Early(h)'
          BY <1>1, <3>1 DEF Early
        <4> QED
          BY <1>2, <3>1, <3>2, <4>1 DEF HookTarget
      <3>4. AttachTarget(p)'
        BY <1>2, <3>1 DEF AttachTarget, is_managed_gateway
      <3> QED
        BY <1>1, <3>1, <3>2, <3>3, <3>4, TargetsOne
    <2> QED
      BY <1>3, <2>1
  <1>7. CASE attach_follow(p)
    <2>1. pc[p] = "att_follow" /\ s \notin Gateways
      BY <1>2, <1>7 DEF attach_follow, AttachTarget
    <2>2. UNCHANGED <<stage, kind, leads, arg>>
      BY <1>7 DEF attach_follow
    <2>3. CASE UNCHANGED target
      <3>1. pc'[p] \in {"att_follow", "att_check"}
        BY <1>2, <1>7, <2>1 DEF attach_follow, TypeOK
      <3>2. AttachTarget(p)'
        BY <2>1, <2>2, <2>3, <3>1 DEF AttachTarget
      <3> QED
        BY <1>4, <2>2, <2>3, <3>2
    <2>4. CASE target' # target
      <3>1. PICK t \in Site : /\ \/ \E c \in Hooks : t = Detour(c)
                                 \/ \E g \in Hooks : s = Gateway(g)
                              /\ target' = [target EXCEPT ![h] = t] /\ pc' = pc
        BY <1>7, <2>4 DEF attach_follow
      <3>2. PICK c \in Hooks : t = Detour(c)
        BY <2>1, <3>1, Addresses
      <3>3. target'[h] = t /\ (\A x \in Hooks \ {h} : target'[x] = target[x])
            /\ t \notin Gateways /\ t \notin Bodies
        BY <1>1, <1>2, <3>1, <3>2, Addresses DEF TypeOK
      <3>4. HookTarget(h)'
        <4>1. Early(h)' /\ \A g \in Hooks : t # Gateway(g)
          BY <1>1, <2>2, <3>3, Addresses DEF Early
        <4> QED
          BY <1>1, <1>2, <2>2, <3>3, <4>1 DEF HookTarget
      <3>5. AttachTarget(p)'
        BY <2>1, <2>2, <3>1, <3>3 DEF AttachTarget
      <3> QED
        BY <1>1, <2>2, <3>3, <3>4, <3>5, TargetsOne
    <2> QED
      BY <2>3, <2>4
  <1>8. CASE attach_check(p)
    <2>1. CASE ~Reject(p)
      <3>1. /\ pc[p] = "att_check" /\ pc'[p] = "att_relocate" /\ ~overlaps_live_patch(s)
            /\ UNCHANGED <<stage, target, kind, leads, arg, livePatches, armed>>
        BY <1>2, <1>8, <2>1 DEF attach_check, hookVars, regVars, TypeOK
      <3>2. AttachTarget(p)'
        BY <1>2, <3>1 DEF AttachTarget, overlaps_live_patch, armed_in_range
      <3> QED
        BY <1>4, <3>1, <3>2
    <2> QED
      BY <1>3, <2>1
  <1>9. CASE attach_relocate(p)
    <2>1. /\ pc[p] = "att_relocate" /\ pc'[p] = "att_snapshot"
          /\ leads' = [leads EXCEPT ![h] = Body(h)]
          /\ UNCHANGED <<stage, target, kind, arg, livePatches, armed>>
      BY <1>2, <1>9 DEF attach_relocate, regVars, TypeOK
    <2>2. leads'[h] \notin Gateways /\ \A x \in Hooks \ {h} : leads'[x] = leads[x]
      BY <1>1, <1>2, <2>1, Addresses DEF TypeOK
    <2>3. HookTarget(h)'
      <3>1. Early(h)'
        BY <1>1, <2>1 DEF Early
      <3> QED
        BY <1>2, <2>1, <2>2, <3>1 DEF HookTarget
    <2>4. AttachTarget(p)'
      BY <1>2, <2>1 DEF AttachTarget, overlaps_live_patch, armed_in_range
    <2> QED
      BY <1>1, <2>1, <2>2, <2>3, <2>4, TargetsOne
  <1>10. CASE attach_snapshot(p)
    <2>1. /\ pc[p] = "att_snapshot" /\ pc'[p] = "ready" /\ stage'[h] = "queued"
          /\ UNCHANGED <<target, kind, leads>> /\ \A x \in Hooks \ {h} : stage'[x] = stage[x]
      BY <1>1, <1>2, <1>10 DEF attach_snapshot, TypeOK
    <2>2. HookTarget(h)'
      <3>1. s \in Gateways => kind[h] = "ManagedGateway"
        BY <1>2, <2>1 DEF AttachTarget
      <3>2. \A g \in Hooks : s = Gateway(g) => stage'[g] \in Later
        BY <1>1, <1>2, <2>1 DEF HookTarget
      <3> QED
        BY <1>1, <1>2, <2>1, <3>1, <3>2 DEF HookTarget
    <2>3. AttachTarget(p)'
      BY <2>1 DEF AttachTarget
    <2> QED
      BY <1>1, <2>1, <2>2, <2>3, TargetsOne
  <1> QED
    BY <1>5, <1>6, <1>7, <1>8, <1>9, <1>10

LEMMA TargetsKept ==
    ASSUME Base, Builders, AttachesAlone, Disciplined, NEW p \in Procs, Step(p)
    PROVE  Targets'
  <1>0. OthersKept(p)
    BY OthersAreKept DEF Base
  <1>1. CASE Attach(p)
    BY <1>0, <1>1, TargetsEntry, TargetsAttach DEF Attach
  <1>2. CASE Transaction(p) \/ Commit(p) \/ Toggle(p) \/ Unhook(p) \/ Int3(p)
    BY <1>2, TargetsCall
  <1> QED
    BY <1>1, <1>2 DEF Step

-----------------------------------------------------------------------------
(***************************************************************************)
(* What the code holds                                                     *)
(***************************************************************************)

\* A jump belongs to an enabled hook on that site, a 0xCC to an INT3 hook.
Owned ==
    \A s \in Site :
        /\ code[s] \in Hooks => /\ target[code[s]] = s /\ Holding(code[s])
                                /\ active[code[s]] /\ enabled[code[s]]
        /\ code[s] = "cc" => s \in armed

\* Nothing but original code was ever copied, for whoever copies it later.
Originals ==
    /\ \A s \in Funcs : saved[s] = "orig"
    /\ \A h \in Hooks : orig[h] = "orig" /\ body[h] = "orig"

\* A hook in a client's hands is not enabled once it was released.
Switched(h) == enabled[h] /\ stage[h] \in {"guard", "detaching"} => active[h]

\* A hook that is being released has left the code already.
Withdrawn(p) ==
    /\ pc[p] \in {"drop_release", "drop_relink", "drop_end"} => code[target[arg[p]]] # arg[p]
    /\ \A d \in Elements(detached[p]) : ~enabled[d.hook] /\ (d.was => active[d.hook])

Patched ==
    /\ Owned /\ Originals
    /\ \A h \in Hooks : Switched(h)
    /\ \A p \in Procs : Withdrawn(p)

LEMMA Contents ==
    ASSUME TypeOK
    PROVE  /\ "orig" \notin Hooks /\ "cc" \notin Hooks /\ NoHook \notin Hooks
           /\ \A h \in Hooks : target[h] \in Site /\ h # "cc"
           /\ Funcs \subseteq Site
           /\ \A p \in Procs : \A d \in Elements(detached[p]) : d.hook \in Hooks
  <1> DEFINE D == [hook : Hooks, was : BOOLEAN]
  <1>1. \A d \in D : d.hook \in Hooks
    OBVIOUS
  <1>2. \A p \in Procs : detached[p] \in Seq(D)
    BY DEF TypeOK
  <1> HIDE DEF D
  <1>3. \A p \in Procs : \A d \in Elements(detached[p]) : d.hook \in Hooks
    BY <1>1, <1>2, ElementsOf
  <1> QED
    BY <1>3, HooksAssumption DEF NoHook, TypeOK, Site

\* Steps that leave the code alone, and the hooks in it.
LEMMA PatchedStill ==
    ASSUME Base, Patched, NEW p \in Procs, OthersKept(p),
           UNCHANGED <<code, enabled, active, armed>>,
           \A h \in Hooks : ~Early(h) => target'[h] = target[h],
           \A h \in Hooks : Holding(h) => Holding(h)',
           \A h \in Hooks : stage'[h] \in {"guard", "detaching"} =>
                               stage[h] \in {"guard", "detaching", "installed"},
           Originals', Withdrawn(p)'
    PROVE  Patched'
  <1>0. TypeOK
    BY DEF Base
  <1>1. Owned'
    <2> SUFFICES ASSUME NEW s \in Site, code[s] \in Hooks
                 PROVE  \E x \in Hooks : /\ x = code[s] /\ target'[x] = s
                                         /\ Holding(x)' /\ active[x] /\ enabled[x]
      BY DEF Patched, Owned, Holding
    <2>1. PICK h \in Hooks : h = code[s]
      OBVIOUS
    <2>2. target[h] = s /\ Holding(h) /\ active[h] /\ enabled[h]
      BY <2>1 DEF Patched, Owned
    <2>3. ~Early(h)
      BY <2>2 DEF Holding, Early
    <2> QED
      BY <2>1, <2>2, <2>3
  <1>2. ASSUME NEW h \in Hooks
        PROVE  Switched(h)'
    <2>1. Switched(h) /\ Reg(h)
      BY DEF Patched, Base, Registered
    <2> QED
      BY <2>1 DEF Switched, Reg
  <1>3. ASSUME NEW q \in Procs, q # p
        PROVE  Withdrawn(q)'
    <2>1. Withdrawn(q)
      BY DEF Patched
    <2>2. pc'[q] = pc[q] /\ arg'[q] = arg[q] /\ detached'[q] = detached[q]
      BY <1>3 DEF OthersKept
    <2>3. pc[q] \in {"drop_release", "drop_relink", "drop_end"} => target'[arg[q]] = target[arg[q]]
      BY <1>0 DEF Base, NotEarly, HookPcs, AttachPcs, TypeOK
    <2> QED
      BY <2>1, <2>2, <2>3 DEF Withdrawn
  <1> QED
    BY <1>1, <1>2, <1>3 DEF Patched

\* A step that switches one hook, which no other thread has in hand.
LEMMA PatchedOne ==
    ASSUME Base, Patched, NEW p \in Procs, OthersKept(p), NEW h \in Hooks,
           Mine(p, h) \/ stage[h] = "guard",
           \A x \in Hooks : x # h => /\ stage'[x] = stage[x] /\ enabled'[x] = enabled[x]
                                     /\ active'[x] = active[x],
           UNCHANGED <<target, armed, saved, orig, body>>,
           \/ code' = code
           \/ \E b \in {"orig", h} : code' = [code EXCEPT ![target[h]] = b],
           code'[target[h]] = h => Holding(h)' /\ active'[h] /\ enabled'[h],
           Switched(h)', Withdrawn(p)'
    PROVE  Patched'
  <1>0. TypeOK
    BY DEF Base
  <1>1. /\ \A s \in Site : s # target[h] => code'[s] = code[s]
        /\ code'[target[h]] \in {"orig", h, code[target[h]]}
    BY <1>0, Contents DEF TypeOK
  <1>2. Owned'
    <2>1. ASSUME NEW s \in Site, code'[s] \in Hooks
          PROVE  \E x \in Hooks : /\ x = code'[s] /\ target[x] = s
                                  /\ Holding(x)' /\ active'[x] /\ enabled'[x]
      <3>1. PICK x \in Hooks : x = code'[s]
        BY <2>1
      <3>2. CASE x = h /\ s = target[h]
        BY <3>1, <3>2
      <3>3. CASE ~(x = h /\ s = target[h])
        <4>1. code[s] = x
          BY <1>0, <1>1, <3>1, <3>3, Contents
        <4>2. target[x] = s /\ Holding(x) /\ active[x] /\ enabled[x]
          BY <4>1 DEF Patched, Owned
        <4>3. x # h
          BY <3>3, <4>2
        <4>4. stage'[x] = stage[x] /\ enabled'[x] = enabled[x] /\ active'[x] = active[x]
          BY <4>3
        <4> QED
          BY <3>1, <4>2, <4>4 DEF Holding
      <3> QED
        BY <3>2, <3>3
    <2>2. ASSUME NEW s \in Site, code'[s] = "cc"
          PROVE  s \in armed
      <3>1. code[s] = "cc"
        BY <1>0, <1>1, <2>2, Contents
      <3> QED
        BY <3>1 DEF Patched, Owned
    <2> QED
      BY <2>1, <2>2 DEF Owned, Holding
  <1>3. Originals'
    BY DEF Patched, Originals
  <1>4. ASSUME NEW x \in Hooks, x # h
        PROVE  Switched(x)'
    <2>1. stage'[x] = stage[x] /\ enabled'[x] = enabled[x] /\ active'[x] = active[x] /\ Switched(x)
      BY <1>4 DEF Patched
    <2> QED
      BY <2>1 DEF Switched
  <1>5. ASSUME NEW q \in Procs, q # p
        PROVE  Withdrawn(q)'
    <2>1. Withdrawn(q)
      BY DEF Patched
    <2>2. pc'[q] = pc[q] /\ arg'[q] = arg[q] /\ detached'[q] = detached[q]
      BY <1>5 DEF OthersKept
    <2>3. ~Mine(q, h)
      <3>1. stage[h] = "guard" => ~Mine(q, h)
        BY <1>0, MineStage DEF Base, MineStages
      <3> QED
        BY <1>5, <3>1 DEF Base, Places
    <2>4. ASSUME pc[q] \in {"drop_release", "drop_relink", "drop_end"}
          PROVE  code'[target[arg[q]]] # arg[q]
      <3>1. PICK x \in Hooks : x = arg[q]
        BY <1>0, <2>4 DEF TypeOK, HookPcs
      <3>2. x # h /\ code[target[x]] # x /\ target[x] \in Site
        BY <1>0, <2>1, <2>3, <2>4, <3>1, Contents DEF Mine, DropPcs, Withdrawn
      <3>3. code'[target[x]] # x
        BY <1>0, <1>1, <3>2, Contents
      <3> QED
        BY <3>1, <3>3
    <2>5. ASSUME NEW d \in Elements(detached[q])
          PROVE  ~enabled'[d.hook] /\ (d.was => active'[d.hook])
      <3>1. d.hook \in Hooks /\ d.hook # h
        BY <1>0, <2>3, Contents DEF Mine, InDetached
      <3> QED
        BY <2>1, <3>1 DEF Withdrawn
    <2> QED
      BY <2>2, <2>4, <2>5 DEF Withdrawn
  <1> QED
    BY <1>2, <1>3, <1>4, <1>5 DEF Patched

\* A thread that is not releasing a hook has nothing to withdraw.
ReleasePcs == {"drop_release", "drop_relink", "drop_end"}

LEMMA WithdrawnKept ==
    ASSUME Patched, NEW p \in Procs, pc'[p] \notin ReleasePcs,
           \A d \in Elements(detached'[p]) :
               /\ d \in Elements(detached[p])
               /\ enabled'[d.hook] = enabled[d.hook] /\ active'[d.hook] = active[d.hook]
    PROVE  Withdrawn(p)'
  BY DEF Patched, Withdrawn, ReleasePcs

LEMMA NothingDetached ==
    ASSUME Base, NEW p \in Procs, pc[p] \notin DetachedPcs
    PROVE  detached[p] = << >> /\ Elements(detached[p]) = {}
  BY DEF Base, Places, ListOK, Elements

\* Calls that neither write code nor switch a hook.
StillAction(p) ==
    \/ Transaction(p)
    \/ commit(p) \/ commit_lock(p) \/ commit_fail(p) \/ commit_applied(p) \/ publish(p)
    \/ commit_published(p) \/ detach_finalize(p) \/ commit_done(p) \/ rollback_start(p)
    \/ rollback_done(p) \/ commit_failed(p)
    \/ \E h \in Hooks : Drop(p, h)

LEMMA PatchedCalls ==
    ASSUME Base, Builders, Patched, NEW p \in Procs, OthersKept(p), Step(p), StillAction(p)
    PROVE  Patched'
  <1> USE DEF hookVars, regVars, lockVars, txVars, callVars, Goto
  <1>0. TypeOK /\ Places /\ \A h \in Hooks : ~Early(h) => target'[h] = target[h]
    BY TargetIsSettled DEF Base, Step
  <1>1. /\ UNCHANGED <<code, enabled, active, armed, saved, orig, body, detached>>
        /\ pc'[p] \notin ReleasePcs
    <2>0. CASE Transaction(p)
      <3>1. UNCHANGED pc /\ pc[p] = "ready"
        BY <2>0 DEF Transaction, Begin, update_thread, abort, detach
      <3>2. UNCHANGED <<code, enabled, active, armed, saved, orig, body, detached>>
        BY <2>0 DEF Transaction, Begin, update_thread, abort, detach
      <3> QED
        BY <3>1, <3>2 DEF ReleasePcs
    <2>1. CASE \E h \in Hooks : Drop(p, h)
      BY <1>0, <2>1 DEF Drop, ReleasePcs, TypeOK
    <2>2. CASE commit(p) \/ commit_lock(p) \/ commit_fail(p) \/ commit_applied(p) \/ publish(p)
      BY <1>0, <2>2 DEF commit, commit_lock, CommitFails, commit_fail, commit_applied, publish,
         ReleasePcs, TypeOK
    <2>3. CASE commit_published(p) \/ detach_finalize(p) \/ commit_done(p) \/ rollback_start(p)
                  \/ rollback_done(p) \/ commit_failed(p)
      BY <1>0, <2>3 DEF commit_published, detach_finalize, commit_done, rollback_start,
         rollback_done, commit_failed, ReleasePcs, TypeOK
    <2> QED
      BY <2>0, <2>1, <2>2, <2>3 DEF StillAction
  <1>2. ASSUME NEW h \in Hooks, stage'[h] # stage[h]
        PROVE  <<stage[h], stage'[h]>> \in {<<"guard", "detaching">>, <<"queued", "gone">>,
                   <<"detaching", "guard">>, <<"installed", "guard">>, <<"guard", "dropping">>}
    <2>1. CASE DropQueue(p)
      <3>1. \/ stage[h] = "queued" /\ stage'[h] = "gone"
            \/ stage[h] = "detaching" /\ stage'[h] = "guard"
        BY <1>0, <1>2, <2>1, DropQueueMove
      <3> QED
        BY <3>1
    <2>2. CASE \E g \in Hooks : detach(p, g) \/ Drop(p, g)
      <3>1. stage[h] = "guard" /\ stage'[h] \in {"detaching", "dropping"}
        BY <1>0, <1>2, <2>2 DEF detach, Drop, TypeOK
      <3> QED
        BY <3>1
    <2>3. CASE commit_published(p)
      <3>1. \E i \in 1 .. Len(installed[p]) : installed[p][i] = h
        BY <1>0, <1>2, <2>3 DEF commit_published
      <3>2. InInstalled(p, h)
        BY <3>1 DEF InInstalled, Elements
      <3>3. stage[h] = "installed" /\ stage'[h] = "guard"
        BY <1>0, <2>3, <3>1, <3>2 DEF Places, Place, commit_published
      <3> QED
        BY <3>3
    <2>4. CASE ~DropQueue(p) /\ ~commit_published(p) /\ ~\E g \in Hooks : detach(p, g) \/ Drop(p, g)
      <3>1. stage' = stage
        BY <2>4 DEF StillAction, Transaction, Begin, update_thread, abort, commit, commit_lock,
           CommitFails, commit_fail, commit_applied, publish, detach_finalize, commit_done,
           rollback_start, rollback_done, commit_failed
      <3> QED
        BY <1>2, <3>1
    <2> QED
      BY <2>1, <2>2, <2>3, <2>4
  <1>3. ASSUME NEW h \in Hooks
        PROVE  /\ Holding(h) => Holding(h)'
               /\ stage'[h] \in {"guard", "detaching"} =>
                     stage[h] \in {"guard", "detaching", "installed"}
    BY <1>2 DEF Holding
  <1>4. Originals'
    BY <1>1 DEF Patched, Originals
  <1>5. Withdrawn(p)'
    BY <1>1, WithdrawnKept
  <1> QED
    BY <1>0, <1>1, <1>3, <1>4, <1>5, PatchedStill

\* A range that no patch reaches into is read as it was.
LEMMA OriginalIsRead ==
    ASSUME Base, Patched, codeOwner = NoProc, NEW s \in Site,
           \/ ~overlaps_live_patch(s)
           \/ s \in Gateways /\ is_managed_gateway(s)
    PROVE  ReadBytes(s) = "orig"
  <1>0. TypeOK
    BY DEF Base
  <1>1. ASSUME NEW t \in Site, code[t] \in Hooks, Overlaps(s, t)
        PROVE  FALSE
    <2>1. PICK c \in Hooks : c = code[t]
      BY <1>1
    <2>2. target[c] = t /\ Holding(c) /\ active[c]
      BY <2>1 DEF Patched, Owned
    <2>3. published[c] /\ t \in livePatches
      BY <2>2, CodeFree DEF Base, PublishedDisjoint
    <2>4. CASE ~overlaps_live_patch(s)
      BY <1>1, <2>3, <2>4 DEF overlaps_live_patch
    <2>5. CASE s \in Gateways /\ is_managed_gateway(s)
      <3>1. s \notin Funcs
        BY <2>5, Addresses
      <3>2. s = t
        BY <1>1, <3>1, CoversAssumption DEF Overlaps, InRange
      <3>3. PICK g \in managed : s = Gateway(g)
        BY <2>5 DEF is_managed_gateway
      <3>4. g \in Hooks /\ ~Chained(g)
        BY <1>0, <3>3 DEF Base, Trampolines, Tramp, TypeOK
      <3> QED
        BY <2>2, <2>3, <3>2, <3>3, <3>4 DEF Chained
    <2> QED
      BY <2>4, <2>5
  <1>2. ASSUME NEW t \in Site, code[t] = "cc", InRange(s, t)
        PROVE  FALSE
    <2>1. t \in armed /\ t \in Funcs
      BY <1>0, <1>2 DEF Patched, Owned, TypeOK
    <2>2. CASE ~overlaps_live_patch(s)
      BY <1>2, <2>1, <2>2 DEF overlaps_live_patch, armed_in_range
    <2>3. CASE s \in Gateways
      BY <1>2, <2>1, <2>3, Addresses, CoversAssumption DEF InRange
    <2> QED
      BY <2>2, <2>3
  <1>3. Patches(s) = {}
    BY <1>1, <1>2 DEF Patches
  <1> QED
    BY <1>3 DEF ReadBytes

LEMMA PatchedAttach ==
    ASSUME Base, Builders, AttachesAlone, Patched, NEW p \in Procs, OthersKept(p), Step(p), Attach(p)
    PROVE  Patched'
  <1> USE DEF hookVars, regVars, lockVars, txVars, callVars, Goto
  <1>0. TypeOK /\ Places /\ \A h \in Hooks : ~Early(h) => target'[h] = target[h]
    BY TargetIsSettled DEF Base, Step
  <1>1. UNCHANGED <<code, enabled, active, armed, saved, detached>> /\ pc'[p] \notin ReleasePcs
    BY <1>0 DEF Attach, attach, attach_managed, attach_stub, attach_follow, attach_check,
       attach_relocate, attach_snapshot, Reject, ReleasePcs, TypeOK
  <1>2. ASSUME NEW h \in Hooks
        PROVE  /\ Holding(h) => Holding(h)'
               /\ stage'[h] \in {"guard", "detaching"} =>
                     stage[h] \in {"guard", "detaching", "installed"}
    <2>1. stage'[h] # stage[h] => <<stage[h], stage'[h]>> \in AttachMoves
      BY <1>0, AttachMove
    <2> QED
      BY <2>1 DEF Holding, AttachMoves
  <1>3. Originals'
    <2>1. CASE attach_relocate(p) \/ attach_snapshot(p)
      <3>1. pc[p] \in {"att_relocate", "att_snapshot"} /\ pc[p] \in AttachPcs
        BY <2>1 DEF attach_relocate, attach_snapshot, AttachPcs
      <3>2. PICK h \in Hooks : h = arg[p]
        BY <1>0, <3>1 DEF TypeOK, HookPcs
      <3>3. codeOwner = NoProc
        BY <3>1, AttachLockFree DEF AttachesAlone
      <3>4. \/ ~overlaps_live_patch(target[h])
            \/ target[h] \in Gateways /\ is_managed_gateway(target[h])
        <4>1. AttachTarget(p)
          BY DEF Base, Targets
        <4> QED
          BY <3>1, <3>2, <4>1 DEF AttachTarget
      <3>5. ReadBytes(target[h]) = "orig"
        BY <1>0, <3>3, <3>4, OriginalIsRead DEF TypeOK
      <3>6. \/ body' = [body EXCEPT ![h] = "orig"] /\ orig' = orig
            \/ orig' = [orig EXCEPT ![h] = "orig"] /\ body' = body
        BY <2>1, <3>2, <3>5 DEF attach_relocate, attach_snapshot
      <3> QED
        BY <1>0, <1>1, <3>6 DEF Patched, Originals, TypeOK
    <2>2. CASE ~attach_relocate(p) /\ ~attach_snapshot(p)
      <3>1. UNCHANGED <<orig, body>>
        BY <2>2 DEF Attach, attach, attach_managed, attach_stub, attach_follow, attach_check, Reject
      <3> QED
        BY <1>1, <3>1 DEF Patched, Originals
    <2> QED
      BY <2>1, <2>2
  <1>4. Withdrawn(p)'
    BY <1>1, WithdrawnKept
  <1> QED
    BY <1>0, <1>1, <1>2, <1>3, <1>4, PatchedStill

\* The steps of a commit that write code or switch a hook.
LEMMA PatchedInstall ==
    ASSUME Base, Patched, Disciplined, NEW p \in Procs, OthersKept(p), NEW h \in Hooks,
           commit_install(p), install_inline(p, h) \/ prepare_detach(p, h)
    PROVE  Patched'
  <1>0. TypeOK /\ Places /\ queue[p] # << >> /\ queue[p] \in Seq(Ops) /\ pc'[p] = "com_install"
    BY DEF Base, TypeOK, commit_install, callVars
  <1>1. Head(queue[p]) \in {AttachOp(h), DetachOp(h)} /\ Head(queue[p]) \in Elements(queue[p])
    BY <1>0, ElementsOf DEF install_inline, prepare_detach, AttachOp, DetachOp
  <1>2. InQueue(p, h) /\ Mine(p, h)
    BY <1>0, <1>1, QueueOps DEF Mine
  <1>3. \A d \in Elements(detached[p]) : d.hook \in Hooks /\ d.hook # h
    BY <1>0, <1>2, Contents DEF Places, Place, InDetached
  <1>4. UNCHANGED <<target, armed, saved, orig, body>>
    BY DEF commit_install, regVars
  <1>5. CASE install_inline(p, h)
    <2>1. /\ code' = [code EXCEPT ![target[h]] = h]
          /\ stage'[h] = "installed" /\ active'[h] /\ enabled'[h] /\ detached' = detached
          /\ \A x \in Hooks : x # h => /\ stage'[x] = stage[x] /\ enabled'[x] = enabled[x]
                                       /\ active'[x] = active[x]
      BY <1>0, <1>5 DEF install_inline, TypeOK
    <2>2. Switched(h)' /\ Holding(h)'
      BY <2>1 DEF Switched, Holding
    <2>3. Withdrawn(p)'
      BY <1>0, <1>3, <2>1, WithdrawnKept DEF ReleasePcs
    <2> QED
      BY <1>2, <1>4, <2>1, <2>2, <2>3, PatchedOne
  <1>6. CASE prepare_detach(p, h)
    <2> DEFINE d == [hook |-> h, was |-> enabled[h]]
               D == [hook : Hooks, was : BOOLEAN]
    <2>1. /\ code' = IF enabled[h] THEN [code EXCEPT ![target[h]] = "orig"] ELSE code
          /\ ~enabled'[h] /\ \A x \in Hooks : x # h => enabled'[x] = enabled[x]
          /\ detached'[p] = Append(detached[p], d)
          /\ UNCHANGED <<stage, active>>
      BY <1>0, <1>6 DEF prepare_detach, TypeOK, Patched, Originals
    <2>2. code'[target[h]] # h
      <3>1. target[h] \in Site /\ h # "orig"
        BY <1>0, Contents
      <3>2. ~enabled[h] => code[target[h]] # h
        BY <3>1 DEF Patched, Owned
      <3> QED
        BY <1>0, <2>1, <3>1, <3>2 DEF TypeOK
    <2>3. Switched(h)'
      BY <2>1 DEF Switched
    <2>4. d.hook = h /\ (d.was => active[h])
      <3>1. Head(queue[p]) = DetachOp(h)
        BY <1>6 DEF prepare_detach, DetachOp
      <3>2. stage[h] = "detaching" /\ Switched(h)
        BY <1>0, <1>1, <3>1 DEF Places, Place, Patched
      <3> QED
        BY <3>2 DEF Switched
    <2>5. detached[p] \in Seq(D) /\ d \in D
      BY <1>0 DEF TypeOK
    <2> HIDE DEF d, D
    <2>6. \A e \in Elements(detached'[p]) : e = d \/ e \in Elements(detached[p])
      BY <2>1, <2>5, ElementsOf
    <2>7. Withdrawn(p)'
      <3>1. ASSUME NEW e \in Elements(detached'[p])
            PROVE  ~enabled'[e.hook] /\ (e.was => active'[e.hook])
        <4>1. CASE e = d
          BY <2>1, <2>4, <4>1
        <4>2. CASE e # d
          <5>1. e \in Elements(detached[p])
            BY <2>6, <4>2
          <5>2. e.hook \in Hooks /\ e.hook # h /\ ~enabled[e.hook] /\ (e.was => active[e.hook])
            BY <1>3, <5>1 DEF Patched, Withdrawn
          <5> QED
            BY <2>1, <5>2
        <4> QED
          BY <4>1, <4>2
      <3> QED
        BY <1>0, <3>1 DEF Withdrawn
    <2>8. \/ code' = code
          \/ \E b \in {"orig", h} : code' = [code EXCEPT ![target[h]] = b]
      BY <2>1
    <2>9. \A x \in Hooks : x # h => /\ stage'[x] = stage[x] /\ enabled'[x] = enabled[x]
                                    /\ active'[x] = active[x]
      BY <2>1
    <2> QED
      BY <1>2, <1>4, <2>2, <2>3, <2>7, <2>8, <2>9, PatchedOne
  <1> QED
    BY <1>5, <1>6

\* The hook at either end of the list of detached ones leaves it.
LEMMA PatchedUndetach ==
    ASSUME Base, Patched, Disciplined, NEW p \in Procs, OthersKept(p),
           detach_relink(p) \/ rollback_detaches(p)
    PROVE  Patched'
  <1> DEFINE D == [hook : Hooks, was : BOOLEAN]
             e == IF pc[p] = "com_relink" THEN Head(detached[p])
                  ELSE detached[p][Len(detached[p])]
  <1>0. TypeOK /\ Places /\ ListOK(p) /\ pc[p] \in {"com_relink", "com_undo_detach"}
    BY DEF Base, Places, detach_relink, rollback_detaches
  <1>1. detached[p] # << >> /\ detached[p] \in Seq(D)
    <2>1. detached[p] # << >>
      BY DEF detach_relink, rollback_detaches, Base, CursorOK
    <2> QED
      BY <1>0, <2>1 DEF TypeOK
  <1>2. pc'[p] \in {"com_finalize", "com_undo_detach"}
    BY <1>0 DEF detach_relink, rollback_detaches, Goto, callVars, TypeOK
  <1>3. detached'[p] = IF pc[p] = "com_relink" THEN Tail(detached[p])
                       ELSE SubSeq(detached[p], 1, Len(detached[p]) - 1)
    BY <1>0 DEF detach_relink, rollback_detaches, TypeOK
  <1> HIDE DEF D
  <1>4. Distinct(detached[p])
    BY <1>0 DEF ListOK
  <1>5. e \in Elements(detached[p]) /\ Elements(detached'[p]) = Elements(detached[p]) \ {e}
    <2>1. CASE pc[p] = "com_relink"
      BY <1>1, <1>3, <1>4, <2>1, ElementsOf, DistinctSeq
    <2>2. CASE pc[p] # "com_relink"
      <3>1. Len(detached[p]) \in 1 .. Len(detached[p])
        BY <1>1
      <3>2. detached[p][Len(detached[p])] \in Elements(detached[p])
        BY <3>1 DEF Elements
      <3> QED
        BY <1>1, <1>3, <1>4, <2>2, <3>2, DistinctSeq
    <2> QED
      BY <2>1, <2>2
  <1>6. PICK d \in Elements(detached[p]) : d = e
    BY <1>5
  <1>7. PICK h \in Hooks : h = d.hook
    BY <1>0, Contents
  <1>8. Mine(p, h) /\ ~enabled[h] /\ (d.was => active[h]) /\ stage[h] = "detaching"
    BY <1>0, <1>7 DEF Mine, InDetached, Patched, Withdrawn, Places, Place
  <1>9. \A x \in Elements(detached'[p]) : /\ x \in Elements(detached[p])
                                          /\ x.hook \in Hooks /\ x.hook # h
    BY <1>0, <1>5, <1>6, <1>7, Contents DEF ListOK
  <1>10. code[target[h]] # h
    BY <1>0, <1>8, Contents DEF Patched, Owned
  <1>11. UNCHANGED <<target, armed, saved, orig, body>>
    BY DEF detach_relink, rollback_detaches, regVars
  <1>12. CASE detach_relink(p)
    <2>1. arg[p] = h /\ pc[p] = "com_relink"
      BY <1>0, <1>6, <1>7, <1>12 DEF detach_relink, ListOK
    <2>2. /\ UNCHANGED <<code, enabled>> /\ stage'[h] = "guard"
          /\ \A x \in Hooks : x # h => /\ stage'[x] = stage[x] /\ enabled'[x] = enabled[x]
                                       /\ active'[x] = active[x]
      BY <1>0, <1>12, <2>1 DEF detach_relink, TypeOK
    <2>3. Switched(h)'
      BY <1>8, <2>2 DEF Switched
    <2>4. Withdrawn(p)'
      BY <1>2, <1>9, <2>2, WithdrawnKept DEF ReleasePcs
    <2> QED
      BY <1>8, <1>10, <1>11, <2>2, <2>3, <2>4, PatchedOne
  <1>13. CASE rollback_detaches(p)
    <2>1. d = detached[p][Len(detached[p])]
      BY <1>6, <1>13 DEF rollback_detaches
    <2>2. /\ stage'[h] = "guard" /\ active' = active
          /\ \/ /\ d.was /\ enabled'[h]
                /\ code' = [code EXCEPT ![target[h]] = h]
             \/ code' = code /\ enabled' = enabled
          /\ \A x \in Hooks : x # h => stage'[x] = stage[x] /\ enabled'[x] = enabled[x]
      BY <1>0, <1>7, <1>13, <2>1 DEF rollback_detaches, detach_rollback, TypeOK
    <2>3. Switched(h)' /\ (code'[target[h]] = h => Holding(h)' /\ active'[h] /\ enabled'[h])
      BY <1>8, <1>10, <2>2 DEF Switched, Holding
    <2>4. Withdrawn(p)'
      BY <1>2, <1>9, <2>2, WithdrawnKept DEF ReleasePcs
    <2> QED
      BY <1>8, <1>11, <2>2, <2>3, <2>4, PatchedOne
  <1> QED
    BY <1>12, <1>13

\* A failed commit takes its hooks out of the code again.
LEMMA PatchedRollback ==
    ASSUME Base, Patched, Disciplined, NEW p \in Procs, OthersKept(p), rollback(p) \/ dismantle(p)
    PROVE  Patched'
  <1>0. TypeOK /\ Places /\ installed[p] \in Seq(Hooks)
        /\ pc[p] \in {"com_undo_install", "com_dismantle"} /\ pc' = pc /\ detached' = detached
    BY DEF Base, TypeOK, rollback, dismantle, callVars
  <1>1. PICK h \in Hooks : /\ InInstalled(p, h)
                           /\ rollback(p) => h = installed[p][idx[p]]
                           /\ dismantle(p) => h = Head(installed[p])
    <2>1. CASE rollback(p)
      <3>1. idx[p] \in 1 .. Len(installed[p]) /\ ~dismantle(p)
        BY <1>0, <2>1 DEF rollback, dismantle, Base, CursorOK, TypeOK
      <3>2. installed[p][idx[p]] \in Elements(installed[p]) /\ Elements(installed[p]) \subseteq Hooks
        BY <1>0, <3>1, ElementsOf
      <3> QED
        BY <3>1, <3>2 DEF InInstalled
    <2>2. CASE dismantle(p)
      <3>1. installed[p] # << >> /\ ~rollback(p)
        BY <2>2 DEF rollback, dismantle
      <3>2. Head(installed[p]) \in Elements(installed[p]) /\ Elements(installed[p]) \subseteq Hooks
        BY <1>0, <3>1, ElementsOf
      <3> QED
        BY <3>1, <3>2 DEF InInstalled
    <2> QED
      BY <2>1, <2>2
  <1>2. Mine(p, h) /\ stage[h] = "installed"
    BY <1>0, <1>1 DEF Mine, Places, Place
  <1>3. /\ code' = [code EXCEPT ![target[h]] = "orig"]
        /\ UNCHANGED <<target, armed, saved, orig, body, active>>
        /\ stage'[h] \in {"installed", "gone"}
        /\ \A x \in Hooks : x # h => stage'[x] = stage[x] /\ enabled'[x] = enabled[x]
    <2>1. CASE rollback(p)
      BY <1>0, <1>1, <1>2, <2>1 DEF rollback, Disciplined, TypeOK, Patched, Originals, regVars
    <2>2. CASE dismantle(p)
      BY <1>0, <1>1, <2>2 DEF dismantle, Disciplined, TypeOK, Patched, Originals
    <2> QED
      BY <2>1, <2>2
  <1>4. code'[target[h]] # h
    BY <1>0, <1>3, Contents DEF TypeOK
  <1>5. Switched(h)'
    BY <1>3 DEF Switched
  <1>6. Withdrawn(p)'
    <2>1. Elements(detached[p]) = {}
      BY <1>0, NothingDetached DEF DetachedPcs
    <2> QED
      BY <1>0, <2>1, WithdrawnKept DEF ReleasePcs
  <1> QED
    BY <1>2, <1>3, <1>4, <1>5, <1>6, PatchedOne

\* enable and disable.
LEMMA PatchedToggle ==
    ASSUME Base, Patched, NEW p \in Procs, OthersKept(p), Toggle(p)
    PROVE  Patched'
  <1>1. PICK h \in Hooks : enable(p, h) \/ disable(p, h)
    BY DEF Toggle
  <1>0. /\ TypeOK /\ pc[p] = "ready" /\ pc' = pc /\ detached' = detached /\ stage[h] = "guard"
        /\ UNCHANGED <<stage, target, armed, saved, orig, body, active>>
    BY <1>1 DEF Base, enable, disable, callVars, txVars, regVars
  <1>2. Withdrawn(p)'
    <2>1. Elements(detached[p]) = {}
      BY <1>0, NothingDetached DEF DetachedPcs
    <2> QED
      BY <1>0, <2>1, WithdrawnKept DEF ReleasePcs
  <1>3. CASE enable(p, h)
    <2>1. /\ code' = [code EXCEPT ![target[h]] = h] /\ active[h] /\ enabled'[h]
          /\ \A x \in Hooks : x # h => enabled'[x] = enabled[x]
      BY <1>0, <1>3 DEF enable, TypeOK
    <2>2. Switched(h)' /\ Holding(h)'
      BY <1>0, <2>1 DEF Switched, Holding
    <2> QED
      BY <1>0, <1>2, <2>1, <2>2, PatchedOne
  <1>4. CASE disable(p, h)
    <2>1. /\ code' = [code EXCEPT ![target[h]] = "orig"] /\ ~enabled'[h]
          /\ \A x \in Hooks : x # h => enabled'[x] = enabled[x]
      BY <1>0, <1>4 DEF disable, TypeOK, Patched, Originals
    <2>2. Switched(h)'
      BY <2>1 DEF Switched
    <2>3. code'[target[h]] # h
      BY <1>0, <2>1, Contents DEF TypeOK
    <2> QED
      BY <1>0, <1>2, <2>1, <2>2, <2>3, PatchedOne
  <1> QED
    BY <1>1, <1>3, <1>4

\* The steps of unhook and drop.
LEMMA PatchedUnhook ==
    ASSUME Base, Builders, Patched, NEW p \in Procs, OthersKept(p), Step(p),
           \/ \E h \in Hooks : unhook(p, h)
           \/ drop_write(p) \/ drop_release(p) \/ drop_relink(p) \/ drop_end(p)
    PROVE  Patched'
  <1> USE DEF Goto
  <1>0. /\ TypeOK /\ Places /\ pc[p] \in {"ready"} \cup DropPcs
        /\ UNCHANGED <<target, armed, saved, orig, body, detached>>
    BY DEF Base, unhook, drop_write, drop_release, drop_relink, drop_end, DropPcs, txVars, regVars,
       Release
  <1>1. Elements(detached[p]) = {} /\ Elements(detached'[p]) = {}
    BY <1>0, NothingDetached DEF DetachedPcs, DropPcs
  <1>2. Originals'
    BY <1>0 DEF Patched, Originals
  <1>3. ASSUME pc'[p] \in ReleasePcs => code'[target[arg'[p]]] # arg'[p]
        PROVE  Withdrawn(p)'
    BY <1>0, <1>1, <1>3 DEF Withdrawn, ReleasePcs
  <1>4. ASSUME NEW h \in Hooks, Mine(p, h) \/ stage[h] = "guard",
               UNCHANGED <<code, enabled, active>>,
               \A x \in Hooks : x # h => stage'[x] = stage[x],
               Holding(h)', stage'[h] \notin {"guard", "detaching"} \/ stage' = stage,
               pc'[p] \in ReleasePcs => code'[target[arg'[p]]] # arg'[p]
        PROVE  Patched'
    <2>1. \A x \in Hooks : Holding(x) => Holding(x)'
      BY <1>4 DEF Holding
    <2>2. \A x \in Hooks : stage'[x] \in {"guard", "detaching"} =>
                               stage[x] \in {"guard", "detaching", "installed"}
      BY <1>4
    <2>3. Withdrawn(p)'
      BY <1>3, <1>4
    <2> QED
      BY <1>0, <1>2, <1>4, <2>1, <2>2, <2>3, PatchedStill
  <1>5. ASSUME NEW h \in Hooks, unhook(p, h)
        PROVE  Patched'
    <2>1. /\ stage[h] = "guard" /\ stage'[h] = "dropping" /\ arg'[p] = h
          /\ \A x \in Hooks : x # h => stage'[x] = stage[x]
          /\ UNCHANGED <<enabled, active>>
          /\ \/ code' = [code EXCEPT ![target[h]] = "orig"] /\ pc'[p] = "drop_release"
             \/ code' = code /\ pc'[p] = "drop_begin"
      BY <1>0, <1>5 DEF unhook, TypeOK, Patched, Originals
    <2>2. Switched(h)' /\ Holding(h)'
      BY <2>1 DEF Switched, Holding
    <2>3. CASE code' = code /\ pc'[p] = "drop_begin"
      BY <1>4, <2>1, <2>2, <2>3 DEF ReleasePcs
    <2>4. CASE code' = [code EXCEPT ![target[h]] = "orig"]
      <3>1. code'[target[h]] # h
        BY <1>0, <2>4, Contents DEF TypeOK
      <3>2. Withdrawn(p)'
        BY <1>3, <2>1, <3>1
      <3> QED
        BY <1>0, <2>1, <2>2, <2>4, <3>1, <3>2, PatchedOne
    <2> QED
      BY <2>1, <2>3, <2>4
  <1>6. ASSUME drop_write(p) \/ drop_release(p) \/ drop_relink(p) \/ drop_end(p)
        PROVE  Patched'
    <2>0. pc[p] \in DropPcs
      BY <1>6 DEF drop_write, drop_release, drop_relink, drop_end, DropPcs
    <2>1. PICK h \in Hooks : h = arg[p]
      BY <1>0, <2>0 DEF TypeOK, HookPcs, DropPcs
    <2>2. Mine(p, h) /\ stage[h] = "dropping" /\ Holding(h)
      BY <1>0, <2>0, <2>1 DEF Mine, Places, Place, Holding
    <2>3. pc[p] \in ReleasePcs => code[target[h]] # h
      BY <2>1 DEF Patched, Withdrawn, ReleasePcs
    <2>4. CASE drop_write(p)
      <3>1. /\ UNCHANGED <<enabled, active>>
            /\ \A x \in Hooks : x # h => stage'[x] = stage[x]
            /\ \/ /\ active[h] /\ code' = [code EXCEPT ![target[h]] = "orig"]
                  /\ UNCHANGED <<stage, arg>>
               \/ ~active[h] /\ UNCHANGED <<code, stage, arg>>
               \/ code' = code /\ stage'[h] = "leaked" /\ pc'[p] = "ready"
        BY <1>0, <2>1, <2>4 DEF drop_write, MustRestore, TypeOK, Patched, Originals
      <3>2. CASE active[h] /\ code' = [code EXCEPT ![target[h]] = "orig"] /\ UNCHANGED <<stage, arg>>
        <4>1. code'[target[h]] # h
          BY <1>0, <3>2, Contents DEF TypeOK
        <4>2. Withdrawn(p)'
          BY <1>3, <2>1, <3>2, <4>1
        <4>3. Switched(h)'
          BY <2>2, <3>2 DEF Switched
        <4> QED
          BY <1>0, <2>2, <3>1, <3>2, <4>1, <4>2, <4>3, PatchedOne
      <3>3. CASE ~active[h] /\ UNCHANGED <<code, stage, arg>>
        <4>1. code[target[h]] # h
          BY <1>0, <3>3, Contents DEF Patched, Owned
        <4>2. Holding(h)'
          BY <2>2, <3>3 DEF Holding
        <4> QED
          BY <1>0, <1>4, <2>1, <2>2, <3>1, <3>3, <4>1, <4>2
      <3>4. CASE code' = code /\ stage'[h] = "leaked" /\ pc'[p] = "ready"
        <4>1. Holding(h)'
          BY <3>4 DEF Holding
        <4> QED
          BY <1>4, <2>2, <3>1, <3>4, <4>1 DEF ReleasePcs
      <3> QED
        BY <3>1, <3>2, <3>3, <3>4
    <2>5. CASE drop_release(p)
      <3>1. UNCHANGED <<code, stage, enabled, active, arg>> /\ pc[p] \in ReleasePcs
        BY <2>5 DEF drop_release, ReleasePcs
      <3>2. Holding(h)'
        BY <2>2, <3>1 DEF Holding
      <3> QED
        BY <1>0, <1>4, <2>1, <2>2, <2>3, <3>1, <3>2
    <2>6. CASE drop_relink(p)
      <3>1. /\ UNCHANGED <<code, stage, enabled, arg>> /\ pc[p] \in ReleasePcs
            /\ \A x \in Hooks : x # h => active'[x] = active[x]
        BY <1>0, <2>1, <2>6 DEF drop_relink, ReleasePcs, TypeOK
      <3>2. Switched(h)'
        BY <2>2, <3>1 DEF Switched
      <3>3. Withdrawn(p)'
        BY <1>0, <1>3, <2>1, <2>3, <3>1
      <3> QED
        BY <1>0, <2>2, <2>3, <3>1, <3>2, <3>3, PatchedOne
    <2>7. CASE drop_end(p)
      <3>1. /\ UNCHANGED <<code, active>> /\ pc[p] \in ReleasePcs /\ pc'[p] = "ready"
            /\ \A x \in Hooks : x # h => stage'[x] = stage[x] /\ enabled'[x] = enabled[x]
            /\ stage'[h] = "gone"
        BY <1>0, <2>1, <2>7 DEF drop_end, ReleasePcs, TypeOK
      <3>2. Switched(h)'
        BY <3>1 DEF Switched
      <3>3. Withdrawn(p)'
        BY <1>3, <3>1 DEF ReleasePcs
      <3> QED
        BY <1>0, <2>2, <2>3, <3>1, <3>2, <3>3, PatchedOne
    <2> QED
      BY <1>6, <2>4, <2>5, <2>6, <2>7
  <1> QED
    BY <1>5, <1>6

\* A 0xCC replaces original code, and gives it back.
LEMMA PatchedInt3 ==
    ASSUME Base, Patched, Disciplined, NEW p \in Procs, OthersKept(p), Int3(p)
    PROVE  Patched'
  <1> USE DEF hookVars, txVars, callVars
  <1>1. PICK s \in Int3Funcs : arm_int3(p, s) \/ remove_int3(p, s)
    BY DEF Int3
  <1>0. /\ TypeOK /\ s \in Funcs /\ s \in Site
        /\ UNCHANGED <<stage, target, orig, body, active, enabled, pc, arg, detached>>
    BY <1>1, FuncsAssumption, Contents DEF Base, arm_int3, remove_int3
  <1>2. /\ code' = [code EXCEPT ![s] = IF arm_int3(p, s) THEN "cc" ELSE "orig"]
        /\ \A t \in Funcs : saved'[t] = "orig"
        /\ arm_int3(p, s) => armed' = armed \cup {s}
        /\ ~arm_int3(p, s) => armed' = armed \ {s}
    <2>1. CASE arm_int3(p, s)
      <3>1. code[s] = "orig"
        <4>1. ASSUME code[s] \in Hooks
              PROVE  FALSE
          <5>1. PICK c \in Hooks : c = code[s]
            BY <4>1
          <5>2. target[c] = s /\ Holding(c) /\ active[c]
            BY <1>0, <5>1 DEF Patched, Owned
          <5>3. published[c] /\ s \in livePatches
            BY <2>1, <5>2, CodeFree DEF arm_int3, Base, PublishedDisjoint
          <5> QED
            BY <2>1, <5>3 DEF arm_int3, InRange
        <4>2. code[s] # "cc"
          BY <1>0, <2>1 DEF arm_int3, Patched, Owned
        <4> QED
          BY <1>0, <4>1, <4>2 DEF TypeOK, Content
      <3> QED
        BY <1>0, <2>1, <3>1 DEF arm_int3, Patched, Originals, TypeOK
    <2>2. CASE ~arm_int3(p, s)
      BY <1>0, <1>1, <2>2 DEF remove_int3, Patched, Originals, Disciplined, TypeOK
    <2> QED
      BY <2>1, <2>2
  <1>3. Owned'
    <2>1. ASSUME NEW t \in Site, code'[t] \in Hooks
          PROVE  /\ code'[t] = code[t] /\ target[code[t]] = t /\ Holding(code[t])
                 /\ active[code[t]] /\ enabled[code[t]]
      <3>1. code'[t] = code[t]
        BY <1>0, <1>2, <2>1, Contents DEF TypeOK
      <3> QED
        BY <2>1, <3>1 DEF Patched, Owned
    <2>2. ASSUME NEW t \in Site, code'[t] = "cc"
          PROVE  t \in armed'
      <3>1. CASE t = s
        BY <1>0, <1>2, <2>2, <3>1 DEF TypeOK
      <3>2. CASE t # s
        BY <1>0, <1>2, <2>2, <3>2 DEF TypeOK, Patched, Owned
      <3> QED
        BY <3>1, <3>2
    <2> QED
      BY <1>0, <2>1, <2>2 DEF Owned, Holding
  <1>4. Originals' /\ \A h \in Hooks : Switched(h)'
    BY <1>0, <1>2 DEF Patched, Originals, Switched
  <1>5. ASSUME NEW q \in Procs
        PROVE  Withdrawn(q)'
    <2>1. Withdrawn(q)
      BY DEF Patched
    <2>2. ASSUME pc[q] \in {"drop_release", "drop_relink", "drop_end"}
          PROVE  code'[target[arg[q]]] # arg[q]
      <3>1. arg[q] \in Hooks /\ code[target[arg[q]]] # arg[q]
        BY <1>0, <2>1, <2>2 DEF TypeOK, HookPcs, Withdrawn
      <3> QED
        BY <1>0, <1>2, <3>1, Contents DEF TypeOK
    <2> QED
      BY <1>0, <2>1, <2>2 DEF Withdrawn
  <1> QED
    BY <1>3, <1>4, <1>5 DEF Patched

LEMMA PatchedKept ==
    ASSUME Base, Builders, AttachesAlone, Disciplined, Patched, NEW p \in Procs, Step(p)
    PROVE  Patched'
  <1>0. OthersKept(p)
    BY OthersAreKept DEF Base
  <1>1. CASE StillAction(p)
    BY <1>0, <1>1, PatchedCalls
  <1>2. CASE Attach(p)
    BY <1>0, <1>2, PatchedAttach
  <1>3. CASE commit_install(p)
    BY <1>0, <1>3, PatchedInstall DEF commit_install
  <1>4. CASE detach_relink(p) \/ rollback_detaches(p)
    BY <1>0, <1>4, PatchedUndetach
  <1>5. CASE rollback(p) \/ dismantle(p)
    BY <1>0, <1>5, PatchedRollback
  <1>6. CASE Toggle(p)
    BY <1>0, <1>6, PatchedToggle
  <1>7. CASE \/ \E h \in Hooks : unhook(p, h)
             \/ drop_write(p) \/ drop_release(p) \/ drop_relink(p) \/ drop_end(p)
    BY <1>0, <1>7, PatchedUnhook
  <1>8. CASE Int3(p)
    BY <1>0, <1>8, PatchedInt3
  <1> QED
    BY <1>1, <1>2, <1>3, <1>4, <1>5, <1>6, <1>7, <1>8 DEF Step, StillAction, Commit, Unhook

-----------------------------------------------------------------------------
(***************************************************************************)
(* The theorems                                                            *)
(***************************************************************************)
Safe ==
    /\ Inv
    /\ CodeHeld /\ AttachesAlone
    /\ Places /\ Targets
    /\ Registered /\ Counts /\ Trampolines
    /\ Patched

LEMMA InitSafe == Init => Safe
  <1> SUFFICES ASSUME Init PROVE Safe
    OBVIOUS
  <1>1. Inv /\ TypeOK
    BY InitInv, InitType
  <1>2. \A p \in Procs : /\ pc[p] = "ready" /\ queue[p] = << >> /\ installed[p] = << >>
                         /\ detached[p] = << >> /\ link[p] = "none"
    BY DEF Init
  <1>3. \A h \in Hooks : /\ stage[h] = "none" /\ ~published[h] /\ retired[h] = 0 /\ dependents[h] = 0
                         /\ ~active[h] /\ ~enabled[h] /\ leads[h] = Body(h)
                         /\ orig[h] = "orig" /\ body[h] = "orig"
    BY DEF Init
  <1>4. CodeHeld /\ AttachesAlone
    BY <1>2, ProcsAssumption DEF Init, CodeHeld, AttachesAlone, CodePcs, AttachPcs
  <1>5. \A p \in Procs : /\ Elements(queue[p]) = {} /\ Elements(installed[p]) = {}
                         /\ Elements(detached[p]) = {}
    <2>1. Elements(<< >>) = {}
      BY DEF Elements
    <2> QED
      BY <1>2, <2>1
  <1>6. Places
    <2>1. ASSUME NEW p \in Procs
          PROVE  ListOK(p)
      BY <1>2, <1>5 DEF ListOK, Distinct
    <2>2. ASSUME NEW p \in Procs, NEW h \in Hooks
          PROVE  Place(p, h) /\ ~Mine(p, h)
      BY <1>2, <1>5 DEF Place, Mine, InQueue, InInstalled, InDetached, DropPcs
    <2> QED
      BY <1>3, <2>1, <2>2 DEF Places
  <1>7. Targets
    <2>1. \A h \in Hooks : HookTarget(h)
      BY <1>3, Addresses DEF HookTarget, Early
    <2>2. \A p \in Procs : AttachTarget(p)
      BY <1>2 DEF AttachTarget
    <2> QED
      BY <2>1, <2>2 DEF Targets
  <1>8. Registered
    <2>1. \A h \in Hooks : Reg(h)
      BY <1>3 DEF Reg
    <2>2. ASSUME NEW p \in Procs
          PROVE  RegIn(p)
      <3>1. pc[p] = "ready" /\ ~\E i \in 1 .. Len(installed[p]) : TRUE
        BY <1>2
      <3>2. pc[p] \notin RelinkPcs \cup {"drop_end"}
        BY <3>1 DEF RelinkPcs
      <3> QED
        BY <3>1, <3>2 DEF RegIn
    <2> QED
      BY <2>1, <2>2 DEF Registered
  <1>9. \A h \in Hooks : ~Chained(h)
    BY <1>3 DEF Chained
  <1>10. Counts
    BY <1>3, <1>9 DEF Counts
  <1>11. Trampolines
    <2>1. \A h \in Hooks : Tramp(h)
      BY <1>3, <1>9 DEF Tramp, Init
    <2>2. \A p \in Procs : TrampIn(p)
      BY <1>2 DEF TrampIn, RelinkPcs, PatchPcs
    <2> QED
      BY <2>1, <2>2 DEF Trampolines
  <1>12. Patched
    <2>1. Owned
      BY <1>1, Contents DEF Init, Owned
    <2>2. Originals
      BY <1>3 DEF Init, Originals
    <2>3. \A p \in Procs : Withdrawn(p)
      BY <1>2, <1>5 DEF Withdrawn
    <2> QED
      BY <1>3, <2>1, <2>2, <2>3 DEF Patched, Switched
  <1> QED
    BY <1>1, <1>4, <1>6, <1>7, <1>8, <1>10, <1>11, <1>12 DEF Safe

LEMMA StutterSafe ==
    ASSUME Safe, UNCHANGED vars
    PROVE  Safe'
  <1> USE DEF vars, hookVars, regVars, lockVars, txVars, callVars
  <1>1. Inv'
    BY StepInv DEF Safe
  <1>2. CodeHeld' /\ AttachesAlone'
    BY DEF Safe, CodeHeld, AttachesAlone
  <1>3. Places'
    <2>1. \A p \in Procs : ListOK(p)' <=> ListOK(p)
      BY DEF ListOK, Distinct
    <2>2. \A p \in Procs, h \in Hooks : (Place(p, h)' <=> Place(p, h)) /\ (Mine(p, h)' <=> Mine(p, h))
                                       /\ (InInstalled(p, h)' <=> InInstalled(p, h))
      BY DEF Place, Mine, InQueue, InInstalled, InDetached
    <2> QED
      BY <2>1, <2>2 DEF Safe, Places
  <1>4. Targets'
    BY DEF Safe, Targets, HookTarget, AttachTarget, Early, is_managed_gateway, overlaps_live_patch,
       armed_in_range
  <1>5. /\ \A h \in Hooks : (Chained(h)' <=> Chained(h)) /\ (Relinking(h)' <=> Relinking(h))
                            /\ (Holding(h)' <=> Holding(h))
        /\ \A p \in Procs : Linked(p)' = Linked(p) /\ \A h \in Hooks : Todo(p, h)' <=> Todo(p, h)
    BY DEF Chained, Relinking, Holding, Linked, Todo, Queued, InInstalled
  <1>6. Registered'
    <2>1. \A h \in Hooks : Reg(h)' <=> Reg(h)
      BY <1>5 DEF Reg
    <2>2. \A p \in Procs : RegIn(p)' <=> RegIn(p)
      BY DEF RegIn
    <2> QED
      BY <2>1, <2>2 DEF Safe, Registered
  <1>7. Counts'
    BY <1>5 DEF Safe, Counts
  <1>8. Trampolines'
    <2>1. \A h \in Hooks : Tramp(h)' <=> Tramp(h)
      BY <1>5 DEF Tramp
    <2>2. ASSUME NEW p \in Procs
          PROVE  TrampIn(p)'
      <3>1. TrampIn(p)
        BY DEF Safe, Trampolines
      <3>2. pc'[p] \in PatchPcs => \A h, g \in Hooks :
                (Todo(p, h) /\ target[h] = Gateway(g))' => stage'[g] # "gone"
        BY <1>5, <3>1 DEF TrampIn
      <3>3. \A g : g \in Linked(p)' <=> g \in Linked(p)
        BY <1>5
      <3>4. \A g \in Linked(p) : Chained(g)' <=> Chained(g)
        BY <1>5 DEF Linked
      <3> QED
        BY <3>1, <3>2, <3>3, <3>4 DEF TrampIn
    <2> QED
      BY <2>1, <2>2 DEF Safe, Trampolines
  <1>9. Patched'
    BY DEF Safe, Patched, Owned, Originals, Switched, Withdrawn, Holding
  <1> QED
    BY <1>1, <1>2, <1>3, <1>4, <1>6, <1>7, <1>8, <1>9 DEF Safe

LEMMA StepSafe ==
    ASSUME Disciplined
    PROVE  Safe /\ [Next]_vars => Safe'
  <1> SUFFICES ASSUME Safe, [Next]_vars
               PROVE  Safe'
    OBVIOUS
  <1>1. CASE UNCHANGED vars
    BY <1>1, StutterSafe
  <1>2. CASE Next
    <2>1. PICK p \in Procs : Step(p)
      BY <1>2 DEF Next, Step
    <2>2. Base /\ Builders /\ CursorOK /\ TypeOK
      BY DEF Safe, Base, Inv
    <2>3. Inv'
      BY StepInv DEF Safe
    <2>4. CodeHeld' /\ AttachesAlone'
      BY <2>1, <2>2, LocksKept DEF Safe
    <2>5. Places'
      BY <2>1, <2>2, PlacesKept DEF Safe
    <2>6. Targets'
      BY <2>1, <2>2, TargetsKept DEF Safe
    <2>7. Registered' /\ Counts' /\ Trampolines'
      BY <2>1, <2>2, LedgerKept DEF Safe, Ledger
    <2>8. Patched'
      BY <2>1, <2>2, PatchedKept DEF Safe
    <2> QED
      BY <2>3, <2>4, <2>5, <2>6, <2>7, <2>8 DEF Safe
  <1> QED
    BY <1>1, <1>2

(***************************************************************************)
(* Every jump in the code belongs to a hook that still targets that site   *)
(* and whose trampoline was not released, and every 0xCC to an INT3 hook:  *)
(* whatever install, restore and toggle writes the system refuses, no      *)
(* commit, rollback, unhook or drop leaves bytes nobody owns.              *)
(***************************************************************************)
THEOREM PatchesAlwaysHaveOwners ==
    ASSUME Disciplined
    PROVE  Spec => []EveryPatchHasAnOwner
  <1>1. Safe => EveryPatchHasAnOwner
    <2> SUFFICES ASSUME Safe PROVE EveryPatchHasAnOwner
      OBVIOUS
    <2>1. Owned
      BY DEF Safe, Patched
    <2>2. \A h \in Hooks : Holding(h) => retired[h] = 0
      BY DEF Safe, Trampolines, Tramp, Holding
    <2> QED
      BY <2>1, <2>2 DEF EveryPatchHasAnOwner, Owned
  <1> QED
    BY InitSafe, StepSafe, <1>1, PTL DEF Spec

(***************************************************************************)
(* What a hook saved of its target, to restore it and to call it, is the   *)
(* original code: never another hook's jump and never a 0xCC, although     *)
(* attach reads it long before commit writes.                              *)
(***************************************************************************)
THEOREM OriginalBytesAreHeld ==
    ASSUME Disciplined
    PROVE  Spec => []HoldsOriginalBytes
  <1>1. Safe => HoldsOriginalBytes
    BY DEF Safe, Patched, Originals, HoldsOriginalBytes
  <1> QED
    BY InitSafe, StepSafe, <1>1, PTL DEF Spec

(***************************************************************************)
(* A hook chained on a gateway never writes into released memory: as long  *)
(* as it may write to its target, the trampoline that holds the target is  *)
(* not retired, also when the hook that owned it was dropped first.        *)
(***************************************************************************)
THEOREM GatewaysOutliveTheirChains ==
    ASSUME Disciplined
    PROVE  Spec => []TargetMemoryIsHeld
  <1>1. Safe => TargetMemoryIsHeld
    <2> SUFFICES ASSUME Safe, NEW h \in Hooks, NEW g \in Hooks, Holding(h), active[h],
                        InTrampoline(target[h], g)
                 PROVE  retired[g] = 0
      BY DEF TargetMemoryIsHeld
    <2>0. TypeOK /\ Reg(h) /\ Tramp(g)
      BY DEF Safe, Inv, Registered, Trampolines
    <2>1. target[h] = Gateway(g)
      <3>1. target[h] \notin Bodies
        BY DEF Safe, Targets, HookTarget, Holding
      <3> QED
        BY <3>1 DEF InTrampoline, Bodies
    <2>2. CASE published[h]
      <3>1. Chained(g)
        BY <2>1, <2>2 DEF Chained
      <3> QED
        BY <2>0, <3>1 DEF Tramp
    <2>3. CASE stage[h] = "installed"
      <3>1. PICK p \in Procs : InInstalled(p, h)
        BY <2>3 DEF Safe, Places
      <3>2. pc[p] \in PatchPcs
        BY <3>1 DEF Safe, Inv, InstalledInCommit, InInstalled, Elements
      <3>3. stage[g] # "gone"
        BY <2>1, <3>1, <3>2 DEF Safe, Trampolines, TrampIn, Todo
      <3> QED
        BY <2>0, <3>3 DEF Tramp
    <2>4. CASE Relinking(h)
      <3>1. PICK p \in Procs : pc[p] \in RelinkPcs /\ arg[p] = h
        BY <2>4 DEF Relinking
      <3>2. TrampIn(p) /\ g \in Linked(p) /\ target[h] \in Gateways
        BY <2>1, <3>1, Addresses DEF Safe, Trampolines, Linked
      <3>3. link[p] \in {"alive", "orphan"}
        BY <2>0, <3>1, <3>2 DEF TrampIn, TypeOK
      <3> QED
        BY <2>0, <3>2, <3>3 DEF TrampIn, Tramp
    <2> QED
      BY <2>0, <2>2, <2>3, <2>4 DEF Reg
  <1> QED
    BY InitSafe, StepSafe, <1>1, PTL DEF Spec

(***************************************************************************)
(* No trampoline is lost: once its hook is gone it is retired, or a hook   *)
(* chained on its gateway, or the call that released the last such hook,   *)
(* still has it in hand.                                                   *)
(***************************************************************************)
THEOREM TrampolinesAreNeverLost ==
    ASSUME Disciplined
    PROVE  Spec => []NoTrampolineLost
  <1>1. Safe => NoTrampolineLost
    <2> SUFFICES ASSUME Safe, NEW h \in Hooks, stage[h] = "gone"
                 PROVE  \/ retired[h] = 1
                        \/ h \in orphan /\ dependents[h] > 0
                        \/ \E p \in Procs : link[p] = "orphan" /\ h \in Linked(p)
      BY DEF NoTrampolineLost
    <2>1. Tramp(h) /\ (Chained(h) => dependents[h] = 1)
      BY DEF Safe, Trampolines, Counts
    <2> QED
      BY <2>1 DEF Tramp
  <1> QED
    BY InitSafe, StepSafe, <1>1, PTL DEF Spec

(***************************************************************************)
(* Nor is it released twice, whoever lets go of it last: the drop of its   *)
(* hook, a rollback, an aborted transaction, or the release of the last    *)
(* hook chained on its gateway.                                            *)
(***************************************************************************)
THEOREM TrampolinesAreRetiredOnce ==
    ASSUME Disciplined
    PROVE  Spec => []RetiredOnce
  <1>1. Safe => RetiredOnce
    <2> SUFFICES ASSUME Safe, NEW h \in Hooks
                 PROVE  retired[h] <= 1
      BY DEF RetiredOnce
    <2>1. /\ Tramp(h)
          /\ \A p \in Procs : link[p] = "orphan" /\ h \in Linked(p) => retired[h] = 0
      BY DEF Safe, Trampolines, TrampIn
    <2>2. retired[h] \in {0, 1}
      BY <2>1 DEF Tramp
    <2> QED
      BY <2>2
  <1> QED
    BY InitSafe, StepSafe, <1>1, PTL DEF Spec

(***************************************************************************)
(* A gateway that attach would accept can be chained on: its memory is     *)
(* held, no other hook is chained on it, and while nobody is patching its  *)
(* stub holds the jump it was built with.                                  *)
(***************************************************************************)
THEOREM ManagedGatewaysAreChainable ==
    ASSUME Disciplined
    PROVE  Spec => []ManagedIsChainable
  <1>1. Safe => ManagedIsChainable
    <2> SUFFICES ASSUME Safe, NEW g \in managed
                 PROVE  /\ retired[g] = 0 /\ stage[g] # "gone" /\ dependents[g] = 0
                        /\ codeOwner = NoProc => code[Gateway(g)] = "orig"
      BY DEF ManagedIsChainable
    <2>0. TypeOK /\ Base /\ Patched /\ g \in Hooks
      BY DEF Safe, Base, Inv, TypeOK
    <2>1. Tramp(g) /\ ~Chained(g) /\ Holding(g) /\ dependents[g] = 0
      BY <2>0 DEF Safe, Trampolines, Tramp, Counts
    <2>2. retired[g] = 0 /\ stage[g] # "gone"
      BY <2>1 DEF Tramp, Holding
    <2>3. ASSUME codeOwner = NoProc
          PROVE  code[Gateway(g)] = "orig"
      <3>1. Gateway(g) \in Site /\ Gateway(g) \notin Funcs
        BY <2>0, Sites, Addresses
      <3>2. ASSUME code[Gateway(g)] \in Hooks
            PROVE  FALSE
        <4>1. PICK c \in Hooks : c = code[Gateway(g)]
          BY <3>2
        <4>2. target[c] = Gateway(g) /\ published[c]
          BY <2>0, <2>3, <3>1, <4>1, CodeFree DEF Patched, Owned
        <4> QED
          BY <2>1, <4>2 DEF Chained
      <3>3. code[Gateway(g)] # "cc"
        BY <2>0, <3>1 DEF Patched, Owned, TypeOK
      <3> QED
        BY <2>0, <3>1, <3>2, <3>3 DEF TypeOK, Content
    <2> QED
      BY <2>1, <2>2, <2>3
  <1> QED
    BY InitSafe, StepSafe, <1>1, PTL DEF Spec

-----------------------------------------------------------------------------
(***************************************************************************)
(* Writes                                                                  *)
(*                                                                         *)
(* What a step writes is told from Safe and two more facts: no 0xCC lies   *)
(* in the range of a hook that is registered or being installed, and the   *)
(* hooks a failing commit has installed overlap no published one (of a     *)
(* commit that has not failed CommitClear says so).                        *)
(***************************************************************************)
Live(h) == published[h] \/ stage[h] = "installed"

Unarmed == \A h \in Hooks : Live(h) => ~armed_in_range(target[h])

UndoPcs == {"com_undo_detach", "com_undo_install", "com_dismantle"}
UndoClear(p) ==
    pc[p] \in UndoPcs =>
        \A g, h \in Hooks : g # h /\ InInstalled(p, h) /\ (InInstalled(p, g) \/ published[g])
                               => ~Overlaps(target[g], target[h])

Known == Safe /\ Unarmed /\ \A p \in Procs : UndoClear(p)

LEMMA KnownBase ==
    ASSUME Known
    PROVE  /\ Base /\ Builders /\ TypeOK /\ Places /\ Patched /\ CursorOK
           /\ AttachesAlone /\ CommitClear /\ InstalledInCommit
  BY DEF Known, Safe, Inv, Base

LEMMA WhereInstalled ==
    ASSUME Known, NEW h \in Hooks, stage[h] = "installed"
    PROVE  \E p \in Procs : /\ InInstalled(p, h) /\ pc[p] \in PatchPcs /\ pc[p] \in CodePcs
                            /\ \A q \in Procs \ {p} : installed[q] = << >>
  <1>1. PICK p \in Procs : InInstalled(p, h)
    BY KnownBase DEF Places
  <1>2. pc[p] \in PatchPcs
    BY <1>1, KnownBase DEF InstalledInCommit, InInstalled, Elements
  <1>3. pc[p] \in CodePcs
    BY <1>2 DEF PatchPcs, CodePcs
  <1> QED
    BY <1>1, <1>2, <1>3, AloneInCode, KnownBase DEF Base

\* The ranges of hooks that are registered or being installed are disjoint.
LEMMA LiveClear ==
    ASSUME Known, NEW g \in Hooks, NEW h \in Hooks, g # h, Live(g), Live(h)
    PROVE  ~Overlaps(target[g], target[h])
  <1>1. ASSUME NEW x \in Hooks, NEW y \in Hooks, x # y, stage[y] = "installed", Live(x)
        PROVE  ~Overlaps(target[x], target[y])
    <2>1. PICK p \in Procs : /\ InInstalled(p, y) /\ pc[p] \in PatchPcs
                             /\ \A q \in Procs \ {p} : installed[q] = << >>
      BY <1>1, WhereInstalled
    <2>2. InInstalled(p, x) \/ published[x]
      <3>1. CASE stage[x] = "installed"
        <4>1. PICK q \in Procs : InInstalled(q, x)
          BY <3>1, KnownBase DEF Places
        <4> QED
          BY <2>1, <4>1 DEF InInstalled, Elements
      <3> QED
        BY <1>1, <3>1 DEF Live
    <2>3. CASE pc[p] \in CommitPcs
      BY <1>1, <2>1, <2>2, <2>3, KnownBase DEF CommitClear, Todo
    <2>4. CASE pc[p] \in UndoPcs
      BY <1>1, <2>1, <2>2, <2>4 DEF Known, UndoClear
    <2> QED
      BY <2>1, <2>3, <2>4 DEF PatchPcs, CommitPcs, UndoPcs
  <1>2. CASE published[g] /\ published[h]
    BY <1>2, KnownBase DEF Base, PublishedDisjoint
  <1>3. CASE stage[h] = "installed"
    BY <1>1, <1>3
  <1>4. CASE stage[g] = "installed"
    <2>1. ~Overlaps(target[h], target[g])
      BY <1>1, <1>4
    <2> QED
      BY <2>1 DEF Overlaps
  <1> QED
    BY <1>2, <1>3, <1>4 DEF Live

LEMMA OneTarget ==
    ASSUME Known, NEW h \in Hooks, Live(h)
    PROVE  \A x \in Hooks : x # h /\ Live(x) => target[x] # target[h]
  BY LiveClear DEF Overlaps, InRange

\* A hook that is enabled is registered until it is released.
LEMMA NotRelinked ==
    ASSUME Known, NEW h \in Hooks, Relinking(h)
    PROVE  /\ code[target[h]] # h
           /\ stage[h] = "dropping" \/ (stage[h] = "detaching" /\ ~enabled[h])
  <1>1. PICK p \in Procs : pc[p] \in RelinkPcs /\ arg[p] = h
    BY DEF Relinking
  <1>2. CASE pc[p] = "drop_relink"
    <2>1. stage[h] = "dropping"
      BY <1>1, <1>2, KnownBase DEF Places, Place, DropPcs
    <2>2. code[target[h]] # h
      BY <1>1, <1>2, KnownBase DEF Patched, Withdrawn
    <2> QED
      BY <2>1, <2>2
  <1>3. CASE pc[p] = "com_relink"
    <2> DEFINE D == [hook : Hooks, was : BOOLEAN]
    <2>1. detached[p] # << >> /\ detached[p] \in Seq(D) /\ h = Head(detached[p]).hook
      BY <1>1, <1>3, KnownBase DEF CursorOK, TypeOK, Places, ListOK
    <2> HIDE DEF D
    <2>2. Head(detached[p]) \in Elements(detached[p])
      BY <2>1, ElementsOf
    <2>3. stage[h] = "detaching" /\ ~enabled[h]
      BY <2>1, <2>2, KnownBase DEF Places, Place, InDetached, Patched, Withdrawn
    <2>4. code[target[h]] # h
      BY <2>3, KnownBase, Contents DEF Patched, Owned
    <2> QED
      BY <2>3, <2>4
  <1> QED
    BY <1>1, <1>2, <1>3 DEF RelinkPcs

LEMMA EnabledIsLive ==
    ASSUME Known, NEW h \in Hooks
    PROVE  /\ enabled[h] /\ stage[h] \in {"guard", "detaching"} => published[h]
           /\ \A s \in Site : code[s] = h => Live(h) /\ target[h] = s /\ enabled[h] /\ Holding(h)
  <1>1. ASSUME enabled[h], stage[h] \in {"guard", "detaching"}
        PROVE  published[h]
    <2>1. active[h] /\ Reg(h)
      BY <1>1, KnownBase DEF Patched, Switched, Base, Registered
    <2>2. ~Relinking(h)
      BY <1>1, NotRelinked
    <2> QED
      BY <1>1, <2>1, <2>2 DEF Reg, Holding
  <1>2. ASSUME NEW s \in Site, code[s] = h
        PROVE  Live(h) /\ target[h] = s /\ enabled[h] /\ Holding(h)
    <2>1. target[h] = s /\ Holding(h) /\ active[h] /\ enabled[h] /\ Reg(h)
      BY <1>2, KnownBase DEF Patched, Owned, Base, Registered
    <2>2. ~Relinking(h)
      BY <1>2, <2>1, NotRelinked
    <2> QED
      BY <2>1, <2>2 DEF Reg, Live
  <1> QED
    BY <1>1, <1>2

\* Where no other hook and no 0xCC is, a hook that is not enabled finds the
\* original code.
LEMMA FreeToWrite ==
    ASSUME Known, NEW h \in Hooks, ~enabled[h] \/ ~Holding(h), ~armed_in_range(target[h]),
           \A x \in Hooks : x # h /\ Live(x) => target[x] # target[h]
    PROVE  code[target[h]] = "orig"
  <1>0. TypeOK /\ target[h] \in Site
    BY KnownBase DEF TypeOK
  <1>1. ASSUME code[target[h]] \in Hooks
        PROVE  FALSE
    <2>1. PICK c \in Hooks : c = code[target[h]]
      BY <1>1
    <2>2. Live(c) /\ target[c] = target[h] /\ enabled[c] /\ Holding(c)
      BY <1>0, <2>1, EnabledIsLive
    <2> QED
      BY <2>2
  <1>2. code[target[h]] # "cc"
    BY <1>0, KnownBase DEF Patched, Owned, armed_in_range, InRange
  <1> QED
    BY <1>0, <1>1, <1>2 DEF TypeOK, Content

\* A step of p that rewrites the target of h: it restores a hook that is
\* being switched off, or writes a jump over original code.
Rewrites(p, h) ==
    /\ codeOwner \in {NoProc, p}
    /\ \A x \in Hooks : x # h /\ Live(x) => target[x] # target[h]
    /\ \/ /\ code' = [code EXCEPT ![target[h]] = "orig"]
          /\ ~(enabled'[h] /\ stage'[h] \in {"guard", "detaching"})
          /\ stage[h] = "installed" => pc[p] \in UndoPcs
       \/ code' = [code EXCEPT ![target[h]] = h] /\ code[target[h]] = "orig"

LEMMA InstallWrites ==
    ASSUME Known, Disciplined, NEW p \in Procs, NEW h \in Hooks, commit_install(p),
           install_inline(p, h)
    PROVE  /\ Rewrites(p, h) /\ ~armed_in_range(target[h])
           /\ code' = [code EXCEPT ![target[h]] = h] /\ code[target[h]] = "orig"
  <1>0. TypeOK /\ queue[p] # << >> /\ queue[p] \in Seq(Ops) /\ pc[p] = "com_install"
        /\ codeOwner = p
    BY KnownBase DEF TypeOK, commit_install, Base, CodeHeld, CodePcs
  <1>1. Head(queue[p]) = AttachOp(h) /\ AttachOp(h) \in Elements(queue[p])
    BY <1>0, ElementsOf DEF install_inline, AttachOp
  <1>2. h \in Queued(p) /\ stage[h] = "queued"
    BY <1>0, <1>1, QueueOps, KnownBase DEF Places, Place
  <1>3. ASSUME NEW x \in Hooks, x # h, Live(x)
        PROVE  target[x] # target[h]
    <2>1. Todo(p, x) \/ published[x]
      <3>1. CASE stage[x] = "installed"
        <4>1. PICK q \in Procs : InInstalled(q, x)
          BY <3>1, KnownBase DEF Places
        <4>2. q = p
          BY <1>0, <4>1, AloneInCode, KnownBase DEF Base, CodePcs, InInstalled, Elements
        <4> QED
          BY <4>1, <4>2 DEF Todo
      <3> QED
        BY <1>3, <3>1 DEF Live
    <2>2. ~Overlaps(target[x], target[h])
      BY <1>0, <1>2, <1>3, <2>1, KnownBase DEF CommitClear, CommitPcs, Todo
    <2> QED
      BY <2>2 DEF Overlaps, InRange
  <1>4. ~armed_in_range(target[h]) /\ code' = [code EXCEPT ![target[h]] = h]
    BY DEF install_inline
  <1>5. code[target[h]] = "orig"
    BY <1>2, <1>3, <1>4, FreeToWrite DEF Holding
  <1> QED
    BY <1>0, <1>3, <1>4, <1>5 DEF Rewrites

\* Restoring a hook that is registered or being installed.
LEMMA RestoreWrites ==
    ASSUME Known, NEW p \in Procs, NEW h \in Hooks, Live(h), codeOwner \in {NoProc, p},
           code' = [code EXCEPT ![target[h]] = orig[h]],
           ~(enabled'[h] /\ stage'[h] \in {"guard", "detaching"}),
           stage[h] = "installed" => pc[p] \in UndoPcs
    PROVE  Rewrites(p, h)
  <1>1. orig[h] = "orig"
    BY KnownBase DEF Patched, Originals
  <1> QED
    BY <1>1, OneTarget DEF Rewrites

\* Enabling a hook that is registered.
LEMMA EnableWrites ==
    ASSUME Known, NEW p \in Procs, NEW h \in Hooks, published[h], ~enabled[h],
           codeOwner \in {NoProc, p}, code' = [code EXCEPT ![target[h]] = h]
    PROVE  Rewrites(p, h)
  <1>1. Live(h) /\ ~armed_in_range(target[h])
    BY DEF Live, Known, Unarmed
  <1>2. \A x \in Hooks : x # h /\ Live(x) => target[x] # target[h]
    BY <1>1, OneTarget
  <1>3. code[target[h]] = "orig"
    BY <1>1, <1>2, FreeToWrite
  <1> QED
    BY <1>2, <1>3 DEF Rewrites

LEMMA CallWrites ==
    ASSUME Known, NEW p \in Procs, Toggle(p) \/ Unhook(p)
    PROVE  code' = code \/ \E h \in Hooks : Rewrites(p, h)
  <1> USE DEF Goto
  <1>0. TypeOK /\ Base
    BY KnownBase
  <1>1. ASSUME NEW h \in Hooks, enable(p, h) \/ disable(p, h)
        PROVE  Rewrites(p, h)
    <2>1. codeOwner = NoProc /\ stage[h] = "guard"
      BY <1>1 DEF enable, disable
    <2>2. CASE enable(p, h)
      <3>1. published[h]
        BY <1>0, <2>1, <2>2, CodeFree DEF enable, Holding
      <3> QED
        BY <2>1, <2>2, <3>1, EnableWrites DEF enable
    <2>3. CASE disable(p, h)
      <3>1. Live(h)
        BY <2>1, <2>3, EnabledIsLive DEF disable, Live
      <3>2. ~enabled'[h]
        BY <1>0, <2>3 DEF disable, TypeOK
      <3> QED
        BY <2>1, <2>3, <3>1, <3>2, RestoreWrites DEF disable
    <2> QED
      BY <1>1, <2>2, <2>3
  <1>2. ASSUME NEW h \in Hooks, active[h], Holding(h), codeOwner = NoProc,
               stage'[h] = "dropping", code' = [code EXCEPT ![target[h]] = orig[h]]
        PROVE  Rewrites(p, h)
    <2>1. Live(h) /\ stage[h] # "installed"
      BY <1>0, <1>2, CodeFree DEF Live
    <2> QED
      BY <1>2, <2>1, RestoreWrites
  <1>3. ASSUME NEW h \in Hooks, unhook(p, h)
        PROVE  code' = code \/ Rewrites(p, h)
    <2>1. /\ active[h] /\ stage[h] = "guard" /\ codeOwner = NoProc /\ stage'[h] = "dropping"
          /\ code' = code \/ code' = [code EXCEPT ![target[h]] = orig[h]]
      BY <1>0, <1>3 DEF unhook, TypeOK
    <2>2. Holding(h)
      BY <2>1 DEF Holding
    <2> QED
      BY <1>2, <2>1, <2>2
  <1>4. ASSUME drop_write(p), code' # code
        PROVE  \E h \in Hooks : Rewrites(p, h)
    <2>1. PICK h \in Hooks : h = arg[p]
      BY <1>0, <1>4 DEF drop_write, TypeOK, HookPcs
    <2>2. stage[h] = "dropping"
      BY <1>0, <1>4, <2>1 DEF drop_write, Base, Places, Place, DropPcs
    <2>3. /\ active[h] /\ codeOwner = NoProc /\ stage' = stage
          /\ code' = [code EXCEPT ![target[h]] = orig[h]]
      BY <1>4, <2>1 DEF drop_write, MustRestore
    <2> QED
      BY <1>2, <2>2, <2>3 DEF Holding
  <1>5. ASSUME drop_release(p) \/ drop_relink(p) \/ drop_end(p) \/ \E h \in Hooks : Drop(p, h)
        PROVE  code' = code
    BY <1>5 DEF drop_release, drop_relink, drop_end, Drop
  <1> QED
    BY <1>1, <1>3, <1>4, <1>5 DEF Toggle, Unhook

LEMMA CommitWrites ==
    ASSUME Known, Disciplined, NEW p \in Procs, Commit(p)
    PROVE  code' = code \/ \E h \in Hooks : Rewrites(p, h)
  <1> USE DEF Goto
  <1>0. TypeOK /\ Base /\ Places
    BY KnownBase
  <1>1. ASSUME NEW h \in Hooks, commit_install(p), prepare_detach(p, h), code' # code
        PROVE  Rewrites(p, h)
    <2>1. /\ Head(queue[p]) = DetachOp(h) /\ queue[p] # << >> /\ queue[p] \in Seq(Ops)
          /\ codeOwner = p /\ enabled[h] /\ ~enabled'[h]
          /\ code' = [code EXCEPT ![target[h]] = orig[h]]
      BY <1>0, <1>1 DEF commit_install, prepare_detach, DetachOp, Base, CodeHeld, CodePcs, TypeOK
    <2>2. DetachOp(h) \in Elements(queue[p])
      BY <2>1, ElementsOf
    <2>3. stage[h] = "detaching"
      BY <1>0, <2>2 DEF Places, Place
    <2>4. Live(h)
      BY <2>1, <2>3, EnabledIsLive DEF Live
    <2> QED
      BY <2>1, <2>3, <2>4, RestoreWrites
  <1>2. ASSUME rollback_detaches(p), code' # code
        PROVE  \E h \in Hooks : Rewrites(p, h)
    <2> DEFINE D == [hook : Hooks, was : BOOLEAN]
               d == detached[p][Len(detached[p])]
               h == d.hook
    <2>1. detached[p] # << >> /\ detached[p] \in Seq(D) /\ pc[p] = "com_undo_detach"
      BY <1>0, <1>2 DEF rollback_detaches, TypeOK
    <2>2. d.was /\ code' = [code EXCEPT ![target[h]] = h]
      BY <1>2 DEF rollback_detaches, detach_rollback
    <2> HIDE DEF D
    <2>3. d \in Elements(detached[p])
      BY <2>1, ElementsOf
    <2>4. h \in Hooks
      BY <1>0, <2>3, Contents
    <2>5. ~enabled[h] /\ active[h] /\ stage[h] = "detaching"
      <3>1. InDetached(p, h)
        BY <2>3 DEF InDetached
      <3>2. stage[h] = "detaching"
        BY <1>0, <2>4, <3>1 DEF Places, Place
      <3> QED
        BY <2>2, <2>3, <3>2, KnownBase DEF Patched, Withdrawn
    <2>6. codeOwner = p /\ ~Relinking(h)
      <3>1. codeOwner = p /\ pc[p] \in CodePcs /\ pc[p] \notin RelinkPcs
        BY <1>0, <2>1 DEF Base, CodeHeld, CodePcs, RelinkPcs
      <3>2. \A q \in Procs : pc[q] \in RelinkPcs => pc[q] \in CodePcs
        BY DEF RelinkPcs, CodePcs
      <3> QED
        BY <1>0, <3>1, <3>2 DEF Relinking, Base, CodeHeld
    <2>7. published[h]
      <3>1. Reg(h)
        BY <1>0, <2>4 DEF Base, Registered
      <3> QED
        BY <2>5, <2>6, <3>1 DEF Reg, Holding
    <2> HIDE DEF d
    <2>8. Rewrites(p, h)
      BY <2>2, <2>4, <2>5, <2>6, <2>7, EnableWrites
    <2> QED
      BY <2>4, <2>8
  <1>3. ASSUME rollback(p) \/ dismantle(p)
        PROVE  \E h \in Hooks : Rewrites(p, h)
    <2>1. PICK h \in Hooks : /\ InInstalled(p, h)
                             /\ rollback(p) => h = installed[p][idx[p]]
                             /\ dismantle(p) => h = Head(installed[p])
      <3>0. installed[p] \in Seq(Hooks)
        BY <1>0 DEF TypeOK
      <3>1. CASE rollback(p)
        <4>1. idx[p] \in 1 .. Len(installed[p]) /\ ~dismantle(p)
          BY <1>0, <3>0, <3>1 DEF rollback, dismantle, Base, CursorOK, TypeOK
        <4>2. /\ installed[p][idx[p]] \in Elements(installed[p])
              /\ Elements(installed[p]) \subseteq Hooks
          BY <3>0, <4>1, ElementsOf
        <4> QED
          BY <4>1, <4>2 DEF InInstalled
      <3>2. CASE dismantle(p)
        <4>1. installed[p] # << >> /\ ~rollback(p)
          BY <3>2 DEF rollback, dismantle
        <4>2. Head(installed[p]) \in Elements(installed[p]) /\ Elements(installed[p]) \subseteq Hooks
          BY <3>0, <4>1, ElementsOf
        <4> QED
          BY <4>1, <4>2 DEF InInstalled
      <3> QED
        BY <1>3, <3>1, <3>2
    <2>2. stage[h] = "installed" /\ pc[p] \in UndoPcs /\ codeOwner = p
      BY <1>0, <1>3, <2>1 DEF Places, Place, rollback, dismantle, UndoPcs, Base, CodeHeld, CodePcs
    <2>3. code' = [code EXCEPT ![target[h]] = orig[h]] /\ stage'[h] \in {"installed", "gone"}
      BY <1>0, <1>3, <2>1, <2>2 DEF rollback, dismantle, Disciplined, TypeOK
    <2> QED
      BY <2>2, <2>3, RestoreWrites DEF Live
  <1>4. ASSUME ~commit_install(p), ~rollback_detaches(p), ~rollback(p), ~dismantle(p)
        PROVE  code' = code
    BY <1>4 DEF Commit, commit, commit_lock, commit_fail, commit_applied, publish, commit_published,
       detach_finalize, detach_relink, commit_done, rollback_start, rollback_done, commit_failed
  <1>5. CASE commit_install(p)
    BY <1>1, <1>5, InstallWrites DEF commit_install
  <1> QED
    BY <1>2, <1>3, <1>4, <1>5

\* Every write to code is one of a hook, or one of an INT3 hook.
LEMMA CodeWrites ==
    ASSUME Known, Disciplined, NEW p \in Procs, Step(p)
    PROVE  \/ code' = code
           \/ \E h \in Hooks : Rewrites(p, h)
           \/ Int3(p)
  <1>1. CASE Transaction(p) \/ Attach(p)
    BY <1>1 DEF Transaction, Begin, update_thread, abort, detach, Attach, attach, attach_managed,
       attach_stub, attach_follow, attach_check, attach_relocate, attach_snapshot, Reject
  <1> QED
    BY <1>1, CallWrites, CommitWrites DEF Step

\* An INT3 hook replaces original code by 0xCC, or puts it back.
LEMMA Int3Writes ==
    ASSUME Known, Disciplined, NEW p \in Procs, Int3(p)
    PROVE  \E s \in Funcs :
              /\ codeOwner = NoProc
              /\ \/ /\ code[s] = "orig" /\ code' = [code EXCEPT ![s] = "cc"] /\ s \notin armed
                    /\ armed' = armed \cup {s} /\ ~\E t \in livePatches : InRange(t, s)
                 \/ /\ s \in armed /\ code' = [code EXCEPT ![s] = "orig"] /\ armed' = armed \ {s}
  <1>0. TypeOK /\ Base
    BY KnownBase
  <1>1. PICK s \in Int3Funcs : arm_int3(p, s) \/ remove_int3(p, s)
    BY DEF Int3
  <1>2. s \in Funcs /\ s \in Site /\ codeOwner = NoProc
    BY <1>0, <1>1, FuncsAssumption, Contents DEF arm_int3, remove_int3
  <1>3. CASE arm_int3(p, s)
    <2>1. ASSUME code[s] \in Hooks
          PROVE  FALSE
      <3>1. PICK c \in Hooks : c = code[s]
        BY <2>1
      <3>2. Live(c) /\ target[c] = s
        BY <1>2, <3>1, EnabledIsLive
      <3>3. published[c] /\ s \in livePatches
        BY <1>0, <1>2, <3>2, CodeFree DEF Live, Base, PublishedDisjoint
      <3> QED
        BY <1>3, <3>3 DEF arm_int3, InRange
    <2>2. code[s] # "cc"
      BY <1>2, <1>3, KnownBase DEF arm_int3, Patched, Owned
    <2>3. code[s] = "orig"
      BY <1>0, <1>2, <2>1, <2>2 DEF TypeOK, Content
    <2> QED
      BY <1>2, <1>3, <2>3 DEF arm_int3
  <1>4. CASE remove_int3(p, s)
    <2>1. saved[s] = "orig"
      BY <1>2, KnownBase DEF Patched, Originals
    <2> QED
      BY <1>2, <1>4, <2>1 DEF remove_int3, Disciplined
  <1> QED
    BY <1>1, <1>3, <1>4

\* How a hook becomes registered, or is installed.
LEMMA LiveMoves ==
    ASSUME Known, NEW p \in Procs, Step(p), NEW h \in Hooks
    PROVE  /\ Live(h) => target'[h] = target[h]
           /\ published'[h] /\ ~published[h] => publish(p) /\ InInstalled(p, h)
           /\ stage'[h] = "installed" /\ stage[h] # "installed" =>
                 commit_install(p) /\ install_inline(p, h)
  <1> USE DEF hookVars, regVars, lockVars, txVars, callVars, Goto
  <1>0. TypeOK /\ Base /\ Places
    BY KnownBase
  <1>1. Live(h) => target'[h] = target[h]
    <2>1. Live(h) => ~Early(h)
      BY <1>0 DEF Live, Early, Base, NotEarly
    <2> QED
      BY <1>0, <2>1, TargetIsSettled, KnownBase DEF Step
  <1>2. ASSUME published'[h], ~published[h]
        PROVE  publish(p) /\ InInstalled(p, h)
    <2>1. CASE publish(p)
      <3>1. idx[p] \in 1 .. Len(installed[p]) /\ published' = [published EXCEPT ![installed[p][idx[p]]] = TRUE]
        BY <1>0, <2>1 DEF publish, Base, CursorOK, TypeOK
      <3>2. h = installed[p][idx[p]]
        BY <1>0, <1>2, <3>1 DEF TypeOK
      <3> QED
        BY <2>1, <3>1, <3>2 DEF InInstalled, Elements
    <2>2. CASE ~publish(p)
      <3>1. published' = published \/ \E g : published' = [published EXCEPT ![g] = FALSE]
        <4>1. CASE Transaction(p) \/ Attach(p) \/ Toggle(p) \/ Int3(p)
          BY <4>1 DEF Transaction, Begin, update_thread, abort, detach, Attach, attach,
             attach_managed, attach_stub, attach_follow, attach_check, attach_relocate,
             attach_snapshot, Reject, Toggle, enable, disable, Int3, arm_int3, remove_int3
        <4>2. CASE Unhook(p)
          BY <4>2 DEF Unhook, unhook, Drop, drop_write, drop_release, drop_relink, drop_end, Release
        <4>3. CASE Commit(p)
          BY <2>2, <4>3 DEF Commit, commit, commit_lock, commit_install, commit_fail,
             commit_applied, commit_published, detach_finalize, detach_relink, commit_done,
             rollback_detaches, rollback_start, rollback, rollback_done, dismantle, commit_failed,
             Release
        <4> QED
          BY <4>1, <4>2, <4>3 DEF Step
      <3> QED
        BY <1>0, <1>2, <3>1 DEF TypeOK
    <2> QED
      BY <2>1, <2>2
  <1>3. ASSUME stage'[h] = "installed", stage[h] # "installed"
        PROVE  commit_install(p) /\ install_inline(p, h)
    <2>1. CASE DropQueue(p)
      BY <1>0, <1>3, <2>1, DropQueueMove
    <2>2. CASE Transaction(p) \/ Toggle(p) \/ Int3(p)
      BY <1>0, <1>3, <2>1, <2>2 DEF Transaction, Begin, update_thread, abort, detach, Toggle,
         enable, disable, Int3, arm_int3, remove_int3, TypeOK
    <2>3. CASE Attach(p)
      BY <1>0, <1>3, <2>3 DEF Attach, attach, attach_managed, attach_stub, attach_follow,
         attach_check, attach_relocate, attach_snapshot, Reject, TypeOK
    <2>4. CASE Unhook(p)
      BY <1>0, <1>3, <2>4 DEF Unhook, unhook, Drop, drop_write, drop_release, drop_relink, drop_end,
         TypeOK
    <2>5. CASE commit(p) \/ commit_lock(p) \/ commit_fail(p) \/ commit_applied(p) \/ publish(p)
               \/ commit_published(p)
      BY <1>0, <1>3, <2>1, <2>5 DEF commit, commit_lock, CommitFails, commit_fail, commit_applied,
         publish, commit_published
    <2>6. CASE commit_install(p)
      BY <1>0, <1>3, <2>6 DEF commit_install, install_inline, prepare_detach, TypeOK
    <2>7. CASE detach_finalize(p) \/ detach_relink(p) \/ commit_done(p) \/ rollback_detaches(p)
      BY <1>0, <1>3, <2>7 DEF detach_finalize, detach_relink, commit_done, rollback_detaches, TypeOK
    <2>8. CASE rollback_start(p) \/ rollback(p) \/ rollback_done(p) \/ dismantle(p)
               \/ commit_failed(p)
      BY <1>0, <1>3, <2>1, <2>8 DEF rollback_start, rollback, rollback_done, dismantle,
         commit_failed, TypeOK
    <2> QED
      BY <2>2, <2>3, <2>4, <2>5, <2>6, <2>7, <2>8 DEF Step, Commit
  <1> QED
    BY <1>1, <1>2, <1>3

\* The steps of a commit that fails or has failed.
UndoStep(p) ==
    \/ commit_fail(p) \/ rollback_detaches(p) \/ rollback_start(p) \/ rollback(p)
    \/ rollback_done(p) \/ dismantle(p)

LEMMA UndoSteps ==
    ASSUME TypeOK, NEW p \in Procs, Step(p), pc'[p] \in UndoPcs
    PROVE  UndoStep(p)
  <1> USE DEF hookVars, regVars, lockVars, txVars, callVars, Goto, UndoPcs
  <1>1. CASE Transaction(p) \/ Toggle(p) \/ Int3(p)
    <2>1. pc' = pc /\ pc[p] = "ready"
      BY <1>1 DEF Transaction, Begin, update_thread, abort, detach, Toggle, enable, disable, Int3,
         arm_int3, remove_int3
    <2> QED
      BY <2>1
  <1>2. CASE Attach(p)
    BY <1>2 DEF Attach, attach, attach_managed, attach_stub, attach_follow, attach_check,
       attach_relocate, attach_snapshot, Reject, TypeOK
  <1>3. CASE Unhook(p)
    BY <1>3 DEF Unhook, unhook, Drop, drop_write, drop_release, drop_relink, drop_end, TypeOK
  <1>4. CASE commit(p) \/ commit_lock(p) \/ commit_install(p) \/ commit_applied(p) \/ publish(p)
              \/ commit_published(p)
    BY <1>4 DEF commit, commit_lock, CommitFails, commit_install, commit_applied, publish,
       commit_published, TypeOK
  <1>5. CASE detach_finalize(p) \/ detach_relink(p) \/ commit_done(p) \/ commit_failed(p)
    BY <1>5 DEF detach_finalize, detach_relink, commit_done, commit_failed, TypeOK
  <1> QED
    BY <1>1, <1>2, <1>3, <1>4, <1>5 DEF Step, Commit, UndoStep

LEMMA UndoClearKept ==
    ASSUME Known, NEW p \in Procs, Step(p), NEW q \in Procs
    PROVE  UndoClear(q)'
  <1> SUFFICES ASSUME pc'[q] \in UndoPcs, NEW g \in Hooks, NEW h \in Hooks, g # h,
                      InInstalled(q, h)', InInstalled(q, g)' \/ published'[g]
               PROVE  ~Overlaps(target'[g], target'[h])
    BY DEF UndoClear, Overlaps, InRange
  <1>0. TypeOK /\ Base /\ Places /\ OthersKept(p)
    BY KnownBase, OthersAreKept
  <1>1. /\ pc[q] \in UndoPcs \cup {"com_install"}
        /\ Elements(installed'[q]) \subseteq Elements(installed[q])
        /\ published'[g] => published[g]
    <2>1. CASE q = p
      <3>1. UndoStep(p)
        BY <1>0, <2>1, UndoSteps
      <3>2. pc[p] \in UndoPcs \cup {"com_install"} /\ published' = published
        BY <3>1 DEF UndoStep, commit_fail, rollback_detaches, rollback_start, rollback,
           rollback_done, dismantle, hookVars, UndoPcs
      <3>3. /\ installed[p] \in Seq(Hooks)
            /\ \/ installed'[p] = installed[p]
               \/ installed[p] # << >> /\ installed'[p] = Tail(installed[p])
        BY <1>0, <3>1 DEF UndoStep, commit_fail, rollback_detaches, rollback_start, rollback,
           rollback_done, dismantle, txVars, TypeOK
      <3>4. Elements(installed'[p]) \subseteq Elements(installed[p])
        BY <3>3, ElementsOf
      <3> QED
        BY <2>1, <3>2, <3>4
    <2>2. CASE q # p
      <3>1. pc[q] \in UndoPcs /\ installed'[q] = installed[q]
        BY <1>0, <2>2 DEF OthersKept
      <3>2. pc[p] \notin CodePcs
        BY <1>0, <2>2, <3>1 DEF Base, CodeHeld, UndoPcs, CodePcs
      <3>3. ~publish(p)
        BY <3>2 DEF publish, CodePcs
      <3> QED
        BY <3>1, <3>3, LiveMoves
    <2> QED
      BY <2>1, <2>2
  <1>2. InInstalled(q, h) /\ (InInstalled(q, g) \/ published[g])
    BY <1>1 DEF InInstalled
  <1>3. Live(h) /\ Live(g)
    BY <1>0, <1>2 DEF Places, Place, Live
  <1> QED
    BY <1>3, LiveClear, LiveMoves

LEMMA UnarmedKept ==
    ASSUME Known, Disciplined, NEW p \in Procs, Step(p)
    PROVE  Unarmed'
  <1> SUFFICES ASSUME NEW h \in Hooks, Live(h)', NEW t \in armed', InRange(target'[h], t)
               PROVE  FALSE
    BY DEF Unarmed, armed_in_range, Live, InRange
  <1>0. TypeOK /\ Base /\ Places
    BY KnownBase
  <1>1. CASE commit_install(p) /\ install_inline(p, h)
    <2>1. ~armed_in_range(target[h])
      BY <1>1, InstallWrites
    <2>2. UNCHANGED <<target, armed>>
      BY <1>1 DEF commit_install, regVars
    <2> QED
      BY <2>1, <2>2 DEF armed_in_range
  <1>2. CASE ~(commit_install(p) /\ install_inline(p, h))
    <2>1. Live(h) /\ target'[h] = target[h]
      <3>1. published'[h] /\ ~published[h] => stage[h] = "installed"
        BY <1>0, LiveMoves DEF Places, Place
      <3>2. Live(h)
        BY <1>2, <3>1, LiveMoves DEF Live
      <3> QED
        BY <3>2, LiveMoves
    <2>2. t \notin armed
      BY <2>1 DEF Known, Unarmed, armed_in_range
    <2>3. Int3(p)
      <3>1. CASE ~Int3(p)
        <4>1. armed' = armed
          <5>1. CASE Transaction(p) \/ Attach(p) \/ Toggle(p)
            BY <5>1 DEF Transaction, Begin, update_thread, abort, detach, Attach, attach,
               attach_managed, attach_stub, attach_follow, attach_check, attach_relocate,
               attach_snapshot, Reject, Toggle, enable, disable, regVars
          <5>2. CASE Unhook(p)
            BY <5>2 DEF Unhook, unhook, Drop, drop_write, drop_release, drop_relink, drop_end, regVars
          <5>3. CASE Commit(p)
            BY <5>3 DEF Commit, commit, commit_lock, commit_install, commit_fail,
               commit_applied, publish, commit_published, detach_finalize, detach_relink,
               commit_done, rollback_detaches, rollback_start, rollback, rollback_done, dismantle,
               commit_failed, regVars
          <5> QED
            BY <3>1, <5>1, <5>2, <5>3 DEF Step
        <4> QED
          BY <2>2, <4>1
      <3> QED
        BY <3>1
    <2>4. PICK s \in Funcs : /\ codeOwner = NoProc
                             /\ \/ armed' = armed \cup {s} /\ ~\E r \in livePatches : InRange(r, s)
                                \/ armed' = armed \ {s}
      BY <2>3, Int3Writes
    <2>5. t = s /\ ~\E r \in livePatches : InRange(r, s)
      BY <2>2, <2>4
    <2>6. published[h] /\ target[h] \in livePatches
      BY <1>0, <2>1, <2>4, CodeFree DEF Live, Base, PublishedDisjoint
    <2> QED
      BY <2>1, <2>5, <2>6
  <1> QED
    BY <1>1, <1>2

LEMMA InitKnown == Init => Known
  <1> SUFFICES ASSUME Init PROVE Known
    OBVIOUS
  <1>1. \A p \in Procs : pc[p] = "ready"
    BY DEF Init
  <1>2. \A h \in Hooks : ~Live(h)
    BY DEF Init, Live
  <1> QED
    BY <1>1, <1>2, InitSafe DEF Known, Unarmed, UndoClear, UndoPcs

LEMMA StepKnown ==
    ASSUME Disciplined
    PROVE  Known /\ [Next]_vars => Known'
  <1> SUFFICES ASSUME Known, [Next]_vars
               PROVE  Known'
    OBVIOUS
  <1>1. Safe'
    BY StepSafe DEF Known
  <1>2. CASE UNCHANGED vars
    BY <1>1, <1>2 DEF Known, Unarmed, UndoClear, Live, armed_in_range, InInstalled,
       vars, hookVars, regVars, txVars, callVars
  <1>3. CASE Next
    <2>1. PICK p \in Procs : Step(p)
      BY <1>3 DEF Next, Step
    <2> QED
      BY <1>1, <2>1, UnarmedKept, UndoClearKept DEF Known
  <1> QED
    BY <1>2, <1>3

(***************************************************************************)
(* No two patches share a byte, neither two jumps nor a jump and a 0xCC,   *)
(* at any moment: not while commits install, and not while a failing one   *)
(* takes its hooks back and enables again the ones it detached.            *)
(***************************************************************************)
THEOREM PatchesNeverOverlap ==
    ASSUME Disciplined
    PROVE  Spec => []NoOverlappingPatches
  <1>1. Known => NoOverlappingPatches
    <2> SUFFICES ASSUME Known, NEW s \in Site, NEW t \in Site, s # t, code[s] \in Hooks
                 PROVE  /\ ~(code[t] \in Hooks /\ Overlaps(s, t))
                        /\ ~(code[t] = "cc" /\ InRange(s, t))
      BY DEF NoOverlappingPatches
    <2>1. PICK g \in Hooks : g = code[s]
      OBVIOUS
    <2>2. Live(g) /\ target[g] = s
      BY <2>1, EnabledIsLive
    <2>3. ASSUME code[t] \in Hooks, Overlaps(s, t)
          PROVE  FALSE
      <3>1. PICK h \in Hooks : h = code[t]
        BY <2>3
      <3>2. Live(h) /\ target[h] = t
        BY <3>1, EnabledIsLive
      <3> QED
        BY <2>2, <2>3, <3>2, LiveClear
    <2>4. ASSUME code[t] = "cc", InRange(s, t)
          PROVE  FALSE
      <3>1. t \in armed
        BY <2>4, KnownBase DEF Patched, Owned
      <3> QED
        BY <2>2, <2>4, <3>1 DEF Known, Unarmed, armed_in_range
    <2> QED
      BY <2>3, <2>4
  <1> QED
    BY InitKnown, StepKnown, <1>1, PTL DEF Spec

(***************************************************************************)
(* A patch is never written over another one: every jump and every 0xCC    *)
(* replaces original code, and every other write brings it back.           *)
(***************************************************************************)
THEOREM PatchesAreNeverStacked ==
    ASSUME Disciplined
    PROVE  Spec => NoPatchOverPatch
  <1> DEFINE OneAtATime == \A s \in Site :
                              code'[s] # code[s] => code[s] = "orig" \/ code'[s] = "orig"
  <1>1. Known /\ [Next]_vars => [OneAtATime]_vars
    <2> SUFFICES ASSUME Known, Next, NEW s \in Site, code'[s] # code[s]
                 PROVE  code[s] = "orig" \/ code'[s] = "orig"
      OBVIOUS
    <2>0. TypeOK
      BY KnownBase
    <2>1. PICK p \in Procs : Step(p)
      BY DEF Next, Step
    <2>2. ASSUME NEW h \in Hooks, Rewrites(p, h)
          PROVE  code[s] = "orig" \/ code'[s] = "orig"
      BY <2>0, <2>2 DEF Rewrites, TypeOK
    <2>3. ASSUME Int3(p)
          PROVE  code[s] = "orig" \/ code'[s] = "orig"
      <3>1. PICK t \in Funcs : \/ code[t] = "orig" /\ code' = [code EXCEPT ![t] = "cc"]
                               \/ code' = [code EXCEPT ![t] = "orig"]
        BY <2>3, Int3Writes
      <3> QED
        BY <2>0, <3>1 DEF TypeOK
    <2> QED
      BY <2>1, <2>2, <2>3, CodeWrites
  <1> QED
    BY InitKnown, StepKnown, <1>1, PTL DEF Spec, NoPatchOverPatch

-----------------------------------------------------------------------------
(***************************************************************************)
(* What a failing commit undoes                                            *)
(*                                                                         *)
(* During the patch phase the code differs from what it was before only at *)
(* the targets of the hooks the commit detached, where the jump of that    *)
(* hook was, and of those it installed, where the original code was.  That *)
(* the jump of a hook that is to be detached is there to be removed is the *)
(* converse of Owned: an enabled hook is in the code (Written).            *)
(***************************************************************************)
Written(h) == enabled[h] /\ stage[h] \in {"guard", "detaching"} => code[target[h]] = h

InstallPcs == {"com_install", "com_publish"}
WrittenIn(p) == pc[p] \in InstallPcs => \A h \in Hooks : InInstalled(p, h) => code[target[h]] = h

\* The installed hooks that a rollback has still to disable.
Remaining(p) ==
    IF pc[p] = "com_dismantle" THEN {}
    ELSE IF pc[p] = "com_undo_install" THEN {installed[p][i] : i \in 1 .. idx[p]}
    ELSE Elements(installed[p])
Changed(p, s) ==
    \/ \E d \in Elements(detached[p]) : d.was /\ target[d.hook] = s
    \/ \E h \in Remaining(p) : target[h] = s

WindowPcs == UndoPcs \cup {"com_install"}
Window(p) ==
    pc[p] \in WindowPcs =>
        /\ \A d \in Elements(detached[p]) : d.was => before[p][target[d.hook]] = d.hook
        /\ \A h \in Elements(installed[p]) : before[p][target[h]] = "orig"
        /\ \A s \in Site : code[s] = before[p][s] \/ Changed(p, s)

Traced ==
    /\ Known
    /\ \A h \in Hooks : Written(h)
    /\ \A p \in Procs : WrittenIn(p) /\ Window(p)

\* Nobody else writes code while a commit is in its patch phase.
LEMMA CodeIsHeld ==
    ASSUME Known, Disciplined, NEW p \in Procs, Step(p), NEW q \in Procs, q # p, pc[q] \in CodePcs
    PROVE  code' = code
  <1>1. codeOwner = q /\ q # NoProc
    BY KnownBase, ProcsAssumption DEF Base, CodeHeld
  <1>2. ~Int3(p)
    BY <1>1 DEF Int3, arm_int3, remove_int3
  <1>3. \A h \in Hooks : ~Rewrites(p, h)
    BY <1>1 DEF Rewrites
  <1> QED
    BY <1>2, <1>3, CodeWrites

\* A detach that a rollback will undo is one of a registered hook.
LEMMA DetachedIsLive ==
    ASSUME Known, NEW p \in Procs, pc[p] \in {"com_install", "com_undo_detach"},
           NEW d \in Elements(detached[p])
    PROVE  d.hook \in Hooks /\ InDetached(p, d.hook) /\ (d.was => Live(d.hook))
  <1>1. PICK h \in Hooks : h = d.hook
    BY KnownBase, Contents
  <1>2. InDetached(p, h) /\ stage[h] = "detaching" /\ ~enabled[h] /\ (d.was => active[h]) /\ Reg(h)
    BY <1>1, KnownBase DEF InDetached, Places, Place, Patched, Withdrawn, Base, Registered
  <1>3. ~Relinking(h)
    <2>1. codeOwner = p /\ pc[p] \notin RelinkPcs
      BY KnownBase DEF Base, CodeHeld, CodePcs, RelinkPcs
    <2>2. \A q \in Procs : pc[q] \in RelinkPcs => pc[q] \in CodePcs
      BY DEF RelinkPcs, CodePcs
    <2> QED
      BY <2>1, <2>2, KnownBase DEF Relinking, Base, CodeHeld
  <1> QED
    BY <1>1, <1>2, <1>3 DEF Reg, Holding, Live

\* A write leaves the jump of another registered hook alone.
LEMMA JumpStays ==
    ASSUME Known, Disciplined, NEW p \in Procs, Step(p), NEW x \in Hooks, Live(x),
           code[target[x]] = x,
           \/ enabled'[x] /\ stage'[x] \in {"guard", "detaching"}
           \/ stage[x] = "installed" /\ pc[p] \notin UndoPcs
    PROVE  code'[target[x]] = x
  <1>0. TypeOK /\ Base /\ target[x] \in Site
    BY KnownBase DEF TypeOK
  <1>1. ASSUME NEW h \in Hooks, Rewrites(p, h)
        PROVE  code'[target[x]] = x
    <2>1. CASE h = x
      BY <1>0, <1>1, <2>1 DEF Rewrites, TypeOK
    <2>2. CASE h # x
      <3>1. target[x] # target[h]
        BY <1>1, <2>2 DEF Rewrites
      <3> QED
        BY <1>0, <1>1, <3>1 DEF Rewrites, TypeOK
    <2> QED
      BY <2>1, <2>2
  <1>2. ASSUME Int3(p)
        PROVE  code'[target[x]] = x
    <2>1. PICK s \in Funcs : /\ codeOwner = NoProc
                             /\ \/ code[s] = "orig" /\ code' = [code EXCEPT ![s] = "cc"]
                                \/ s \in armed /\ code' = [code EXCEPT ![s] = "orig"]
      BY <1>2, Int3Writes
    <2>2. s # target[x]
      <3>1. ~armed_in_range(target[x])
        BY DEF Known, Unarmed
      <3> QED
        BY <1>0, <2>1, <3>1, Contents DEF armed_in_range, InRange
    <2> QED
      BY <1>0, <2>1, <2>2 DEF TypeOK
  <1> QED
    BY <1>1, <1>2, CodeWrites

\* How a hook comes to be enabled in a client's hands.
LEMMA EnabledMoves ==
    ASSUME Known, Disciplined, NEW p \in Procs, Step(p), NEW x \in Hooks,
           enabled'[x], stage'[x] \in {"guard", "detaching"}
    PROVE  \/ enabled[x] /\ stage[x] \in {"guard", "detaching"}
           \/ commit_published(p) /\ InInstalled(p, x)
           \/ code' = [code EXCEPT ![target[x]] = x] /\ target' = target
  <1> USE DEF hookVars, regVars, lockVars, txVars, callVars, Goto
  <1>0. TypeOK /\ Base /\ Places
    BY KnownBase
  <1>1. CASE commit_published(p)
    BY <1>0, <1>1 DEF commit_published, InInstalled, Elements
  <1>2. CASE StillAction(p) /\ ~commit_published(p)
    <2>1. enabled' = enabled
      BY <1>2 DEF StillAction, Transaction, Begin, update_thread, abort, detach, commit, commit_lock,
         commit_fail, commit_applied, publish, detach_finalize, commit_done, rollback_start,
         rollback_done, commit_failed, Drop
    <2>2. CASE DropQueue(p)
      BY <1>0, <2>1, <2>2, DropQueueMove
    <2>3. CASE ~DropQueue(p)
      <3>1. \/ stage' = stage
            \/ \E g \in Hooks : /\ stage[g] = "guard"
                                /\ \E y \in {"detaching", "dropping"} : stage' = [stage EXCEPT ![g] = y]
        BY <1>2, <2>3 DEF StillAction, Transaction, Begin, update_thread, abort, detach, commit,
           commit_lock, CommitFails, commit_fail, commit_applied, publish, detach_finalize,
           commit_done, rollback_start, rollback_done, commit_failed, Drop
      <3> QED
        BY <1>0, <2>1, <3>1 DEF TypeOK
    <2> QED
      BY <2>2, <2>3
  <1>3. CASE Attach(p)
    <2>1. enabled' = enabled
      BY <1>3 DEF Attach, attach, attach_managed, attach_stub, attach_follow, attach_check,
         attach_relocate, attach_snapshot, Reject
    <2>2. stage'[x] # stage[x] => <<stage[x], stage'[x]>> \in AttachMoves
      BY <1>3, AttachMove, KnownBase
    <2> QED
      BY <2>1, <2>2 DEF AttachMoves
  <1>4. CASE commit_install(p)
    BY <1>0, <1>4 DEF commit_install, install_inline, prepare_detach, TypeOK
  <1>5. CASE detach_relink(p)
    <2>1. PICK h \in Hooks : h = arg[p]
      BY <1>0, <1>5 DEF detach_relink, TypeOK, HookPcs
    <2>3. stage' = [stage EXCEPT ![h] = "guard"] /\ enabled' = enabled
      BY <1>5, <2>1 DEF detach_relink
    <2>4. ~enabled[h]
      <3>1. pc[p] = "com_relink" /\ detached[p] # << >> /\ ListOK(p)
        BY <1>0, <1>5 DEF detach_relink, Base, CursorOK, Places
      <3> DEFINE D == [hook : Hooks, was : BOOLEAN]
      <3>2. detached[p] \in Seq(D)
        BY <1>0 DEF TypeOK
      <3> HIDE DEF D
      <3>3. Head(detached[p]) \in Elements(detached[p])
        BY <3>1, <3>2, ElementsOf
      <3> QED
        BY <2>1, <3>1, <3>3, KnownBase DEF ListOK, Patched, Withdrawn
    <2> QED
      BY <1>0, <2>3, <2>4 DEF TypeOK
  <1>6. CASE rollback_detaches(p)
    <2> DEFINE D == [hook : Hooks, was : BOOLEAN]
               d == detached[p][Len(detached[p])]
    <2>1. detached[p] # << >> /\ detached[p] \in Seq(D)
      BY <1>0, <1>6 DEF rollback_detaches, TypeOK
    <2> HIDE DEF D
    <2>2. d \in Elements(detached[p])
      BY <2>1, ElementsOf
    <2>3. PICK h \in Hooks : h = d.hook
      BY <1>0, <2>2, Contents
    <2>4. ~enabled[h]
      BY <2>2, <2>3, KnownBase DEF Patched, Withdrawn
    <2>5. /\ stage' = [stage EXCEPT ![h] = "guard"] /\ target' = target
          /\ \/ code' = [code EXCEPT ![target[h]] = h] /\ enabled' = [enabled EXCEPT ![h] = TRUE]
             \/ enabled' = enabled
      BY <1>6, <2>3 DEF rollback_detaches
    <2> HIDE DEF d
    <2> QED
      BY <1>0, <2>4, <2>5 DEF TypeOK
  <1>7. CASE rollback(p) \/ dismantle(p)
    <2>1. \/ stage' = stage /\ \E g : enabled' = [enabled EXCEPT ![g] = FALSE]
          \/ enabled' = enabled /\ \E g : stage' = [stage EXCEPT ![g] = "gone"]
      BY <1>7 DEF rollback, dismantle, Disciplined
    <2> QED
      BY <1>0, <2>1 DEF TypeOK
  <1>8. CASE Toggle(p)
    <2>1. /\ stage' = stage /\ target' = target
          /\ \E h \in Hooks :
                \/ enabled' = [enabled EXCEPT ![h] = FALSE]
                \/ code' = [code EXCEPT ![target[h]] = h] /\ enabled' = [enabled EXCEPT ![h] = TRUE]
      BY <1>8 DEF Toggle, enable, disable
    <2> QED
      BY <1>0, <2>1 DEF TypeOK
  <1>9. CASE \/ \E h \in Hooks : unhook(p, h)
             \/ drop_write(p) \/ drop_release(p) \/ drop_relink(p) \/ drop_end(p)
    BY <1>0, <1>9 DEF unhook, drop_write, drop_release, drop_relink, drop_end, TypeOK
  <1>10. CASE Int3(p)
    BY <1>10 DEF Int3, arm_int3, remove_int3
  <1> QED
    BY <1>1, <1>2, <1>3, <1>4, <1>5, <1>6, <1>7, <1>8, <1>9, <1>10
       DEF Step, StillAction, Commit, Unhook

LEMMA WrittenKept ==
    ASSUME Traced, Disciplined, NEW p \in Procs, Step(p), NEW x \in Hooks
    PROVE  Written(x)'
  <1> SUFFICES ASSUME enabled'[x], stage'[x] \in {"guard", "detaching"}
               PROVE  code'[target'[x]] = x
    BY DEF Written
  <1>0. Known /\ TypeOK /\ target[x] \in Site
    BY KnownBase DEF Traced, TypeOK
  <1>1. CASE enabled[x] /\ stage[x] \in {"guard", "detaching"}
    <2>1. Live(x) /\ target'[x] = target[x]
      BY <1>0, <1>1, EnabledIsLive, LiveMoves DEF Live
    <2>2. code[target[x]] = x
      BY <1>1 DEF Traced, Written
    <2> QED
      BY <1>0, <2>1, <2>2, JumpStays
  <1>2. CASE commit_published(p) /\ InInstalled(p, x)
    <2>1. pc[p] \in InstallPcs /\ code' = code /\ target' = target
      BY <1>2 DEF commit_published, InstallPcs
    <2> QED
      BY <1>2, <2>1 DEF Traced, WrittenIn
  <1>3. CASE code' = [code EXCEPT ![target[x]] = x] /\ target' = target
    BY <1>0, <1>3 DEF TypeOK
  <1> QED
    BY <1>0, <1>1, <1>2, <1>3, EnabledMoves

\* The steps after which a commit is installing or publishing.
LEMMA InstallSteps ==
    ASSUME TypeOK, NEW p \in Procs, Step(p), pc'[p] \in InstallPcs
    PROVE  commit_lock(p) \/ commit_install(p) \/ commit_applied(p) \/ publish(p)
  <1> USE DEF hookVars, regVars, lockVars, txVars, callVars, Goto, InstallPcs
  <1>1. CASE Transaction(p) \/ Toggle(p) \/ Int3(p)
    <2>1. pc' = pc /\ pc[p] = "ready"
      BY <1>1 DEF Transaction, Begin, update_thread, abort, detach, Toggle, enable, disable, Int3,
         arm_int3, remove_int3
    <2> QED
      BY <2>1
  <1>2. CASE Attach(p)
    BY <1>2 DEF Attach, attach, attach_managed, attach_stub, attach_follow, attach_check,
       attach_relocate, attach_snapshot, Reject, TypeOK
  <1>3. CASE Unhook(p)
    BY <1>3 DEF Unhook, unhook, Drop, drop_write, drop_release, drop_relink, drop_end, TypeOK
  <1>4. CASE commit(p) \/ commit_fail(p) \/ commit_published(p) \/ detach_finalize(p)
              \/ detach_relink(p) \/ commit_done(p)
    BY <1>4 DEF commit, CommitFails, commit_fail, commit_published, detach_finalize, detach_relink,
       commit_done, TypeOK
  <1>5. CASE rollback_detaches(p) \/ rollback_start(p) \/ rollback(p) \/ rollback_done(p)
              \/ dismantle(p) \/ commit_failed(p)
    BY <1>5 DEF rollback_detaches, rollback_start, rollback, rollback_done, dismantle,
       commit_failed, TypeOK
  <1> QED
    BY <1>1, <1>2, <1>3, <1>4, <1>5 DEF Step, Commit

LEMMA WrittenInKept ==
    ASSUME Traced, Disciplined, NEW p \in Procs, Step(p), NEW q \in Procs
    PROVE  WrittenIn(q)'
  <1> SUFFICES ASSUME pc'[q] \in InstallPcs, NEW x \in Hooks, InInstalled(q, x)'
               PROVE  code'[target'[x]] = x
    BY DEF WrittenIn, InstallPcs, InInstalled, Elements
  <1>0. Known /\ TypeOK /\ Base /\ Places /\ OthersKept(p)
    BY KnownBase, OthersAreKept DEF Traced
  <1>1. CASE q = p /\ commit_install(p) /\ install_inline(p, x)
    <2>1. code' = [code EXCEPT ![target[x]] = x] /\ target' = target /\ target[x] \in Site
      BY <1>0, <1>1 DEF commit_install, install_inline, TypeOK
    <2> QED
      BY <1>0, <2>1 DEF TypeOK
  <1>2. CASE ~(q = p /\ commit_install(p) /\ install_inline(p, x))
    <2>1. InInstalled(q, x) /\ pc[q] \in InstallPcs
      <3>1. CASE q # p
        BY <1>0, <3>1 DEF OthersKept, InInstalled
      <3>2. CASE q = p
        <4>1. commit_lock(p) \/ commit_install(p) \/ commit_applied(p) \/ publish(p)
          BY <1>0, <3>2, InstallSteps
        <4>2. CASE commit_lock(p)
          <5>1. installed'[p] = installed[p] /\ pc[p] = "com_code"
            BY <4>2 DEF commit_lock
          <5>2. installed[p] = << >>
            BY <1>0, <5>1 DEF Base, InstalledInCommit, PatchPcs
          <5> QED
            BY <3>2, <5>1, <5>2 DEF InInstalled, Elements
        <4>3. CASE commit_install(p)
          <5>1. PICK g \in Hooks : install_inline(p, g) \/ prepare_detach(p, g)
            BY <4>3 DEF commit_install
          <5>2. CASE install_inline(p, g)
            <6>1. installed[p] \in Seq(Hooks) /\ installed'[p] = Append(installed[p], g)
              BY <1>0, <5>2 DEF install_inline, TypeOK
            <6>2. x # g
              BY <1>2, <3>2, <4>3, <5>2
            <6>3. x \in Elements(installed[p])
              BY <3>2, <6>1, <6>2, ElementsOf DEF InInstalled
            <6> QED
              BY <3>2, <4>3, <6>3 DEF InInstalled, commit_install, InstallPcs
          <5>3. CASE prepare_detach(p, g)
            BY <3>2, <4>3, <5>3 DEF prepare_detach, InInstalled, commit_install, InstallPcs
          <5> QED
            BY <5>1, <5>2, <5>3
        <4>4. CASE commit_applied(p) \/ publish(p)
          BY <3>2, <4>4 DEF commit_applied, publish, InInstalled, InstallPcs
        <4> QED
          BY <4>1, <4>2, <4>3, <4>4
      <3> QED
        BY <3>1, <3>2
    <2>2. stage[x] = "installed" /\ code[target[x]] = x /\ Live(x) /\ target'[x] = target[x]
      <3>1. stage[x] = "installed" /\ Live(x)
        BY <1>0, <2>1 DEF Places, Place, Live
      <3> QED
        BY <1>0, <2>1, <3>1, LiveMoves DEF Traced, WrittenIn
    <2>3. CASE q = p
      <3>1. pc[p] \notin UndoPcs
        BY <2>1, <2>3 DEF InstallPcs, UndoPcs
      <3> QED
        BY <1>0, <2>2, <3>1, JumpStays
    <2>4. CASE q # p
      <3>1. pc[q] \in CodePcs
        BY <2>1 DEF InstallPcs, CodePcs
      <3> QED
        BY <1>0, <2>2, <2>4, <3>1, CodeIsHeld
    <2> QED
      BY <2>3, <2>4
  <1> QED
    BY <1>1, <1>2

\* The commits of the other threads, and the patch phase of p.
LEMMA WindowOther ==
    ASSUME Traced, Disciplined, NEW p \in Procs, Step(p), NEW q \in Procs, q # p
    PROVE  Window(q)'
  <1>0. Known /\ TypeOK /\ Base /\ OthersKept(p) /\ Window(q)
    BY KnownBase, OthersAreKept DEF Traced
  <1>1. pc'[q] = pc[q] /\ installed'[q] = installed[q] /\ detached'[q] = detached[q]
        /\ idx'[q] = idx[q] /\ before'[q] = before[q]
    BY <1>0 DEF OthersKept
  <1> SUFFICES ASSUME pc[q] \in WindowPcs
               PROVE  Window(q)'
    BY <1>1 DEF Window
  <1>2. code' = code
    <2>1. pc[q] \in CodePcs
      BY DEF WindowPcs, UndoPcs, CodePcs
    <2> QED
      BY <1>0, <2>1, CodeIsHeld
  <1>3. \A h \in Hooks : InInstalled(q, h) \/ InDetached(q, h) => target'[h] = target[h]
    BY <1>0, TargetIsSettled, KnownBase DEF Base, NotEarly, Step
  <1>4. \A d \in Elements(detached[q]) : d.hook \in Hooks /\ target'[d.hook] = target[d.hook]
    BY <1>0, <1>3, Contents DEF InDetached
  <1>5. /\ \A h \in Elements(installed[q]) : h \in Hooks /\ target'[h] = target[h]
        /\ Remaining(q) \subseteq Elements(installed[q])
    <2>1. installed[q] \in Seq(Hooks)
      BY <1>0 DEF TypeOK
    <2>2. \A h \in Elements(installed[q]) : h \in Hooks /\ target'[h] = target[h]
      BY <1>3, <2>1, ElementsOf DEF InInstalled
    <2>3. pc[q] = "com_undo_install" => idx[q] \in Nat /\ idx[q] <= Len(installed[q])
      BY <1>0 DEF Base, CursorOK, TypeOK
    <2>4. Remaining(q) \subseteq Elements(installed[q])
      BY <2>1, <2>3 DEF Remaining, Elements
    <2> QED
      BY <2>2, <2>4
  <1>6. Remaining(q)' = Remaining(q)
    BY <1>1 DEF Remaining, Elements
  <1>7. ASSUME NEW s \in Site, Changed(q, s)
        PROVE  Changed(q, s)'
    <2>1. CASE \E d \in Elements(detached[q]) : d.was /\ target[d.hook] = s
      BY <1>1, <1>4, <2>1 DEF Changed
    <2>2. CASE \E h \in Remaining(q) : target[h] = s
      <3>1. PICK h \in Remaining(q) : target[h] = s
        BY <2>2
      <3>2. h \in Remaining(q)' /\ target'[h] = s
        BY <1>5, <1>6, <3>1
      <3> QED
        BY <3>2 DEF Changed
    <2> QED
      BY <1>7, <2>1, <2>2 DEF Changed
  <1> QED
    BY <1>0, <1>1, <1>2, <1>4, <1>5, <1>7 DEF Window

\* At the target of a hook that no live hook shares, nothing changed yet.
LEMMA UnchangedYet ==
    ASSUME Traced, NEW p \in Procs, pc[p] = "com_install", NEW h \in Hooks,
           ~InInstalled(p, h), ~InDetached(p, h),
           \A x \in Hooks : x # h /\ Live(x) => target[x] # target[h]
    PROVE  before[p][target[h]] = code[target[h]]
  <1>0. Known /\ TypeOK /\ Places /\ Window(p) /\ target[h] \in Site
    BY KnownBase DEF Traced, TypeOK
  <1>1. ASSUME NEW d \in Elements(detached[p]), d.was, target[d.hook] = target[h]
        PROVE  FALSE
    <2>1. d.hook \in Hooks /\ InDetached(p, d.hook) /\ Live(d.hook)
      BY <1>0, <1>1, DetachedIsLive
    <2> QED
      BY <1>1, <2>1
  <1>2. ASSUME NEW x \in Elements(installed[p]), target[x] = target[h]
        PROVE  FALSE
    <2>1. x \in Hooks /\ InInstalled(p, x)
      <3>1. installed[p] \in Seq(Hooks)
        BY <1>0 DEF TypeOK
      <3> QED
        BY <3>1, ElementsOf DEF InInstalled
    <2>2. Live(x)
      BY <1>0, <2>1 DEF Places, Place, Live
    <2> QED
      BY <1>2, <2>1, <2>2
  <1>3. Remaining(p) = Elements(installed[p])
    BY DEF Remaining
  <1>4. ~Changed(p, target[h])
    BY <1>1, <1>2, <1>3 DEF Changed
  <1> QED
    BY <1>0, <1>4 DEF Window, WindowPcs

LEMMA WindowInstall ==
    ASSUME Traced, Disciplined, NEW p \in Procs, NEW h \in Hooks, commit_install(p),
           install_inline(p, h) \/ prepare_detach(p, h)
    PROVE  Window(p)'
  <1>0. /\ Known /\ TypeOK /\ Base /\ Places /\ Window(p) /\ target[h] \in Site
        /\ pc[p] = "com_install" /\ pc'[p] = "com_install" /\ UNCHANGED <<target, before>>
        /\ queue[p] # << >> /\ queue[p] \in Seq(Ops) /\ before[p] \in [Site -> Content]
    BY KnownBase DEF Traced, TypeOK, commit_install, callVars
  <1>1. Head(queue[p]) \in {AttachOp(h), DetachOp(h)} /\ Head(queue[p]) \in Elements(queue[p])
    BY <1>0, ElementsOf DEF install_inline, prepare_detach, AttachOp, DetachOp
  <1>2. InQueue(p, h) /\ ~InDetached(p, h) /\ ~InInstalled(p, h)
    <2>1. InQueue(p, h) /\ stage[h] \in {"queued", "detaching"}
      BY <1>0, <1>1, QueueOps DEF Places, Place
    <2> QED
      BY <1>0, <2>1 DEF Places, Place
  <1>3. Remaining(p) = Elements(installed[p]) /\ Remaining(p)' = Elements(installed'[p])
    BY <1>0 DEF Remaining, Elements
  <1>4. CASE install_inline(p, h)
    <2>1. /\ code' = [code EXCEPT ![target[h]] = h] /\ code[target[h]] = "orig"
          /\ \A x \in Hooks : x # h /\ Live(x) => target[x] # target[h]
      BY <1>0, <1>4, InstallWrites DEF Rewrites
    <2>2. before[p][target[h]] = "orig"
      BY <1>0, <1>2, <2>1, UnchangedYet
    <2>3. detached' = detached /\ Elements(installed'[p]) = Elements(installed[p]) \cup {h}
      <3>1. installed[p] \in Seq(Hooks) /\ installed'[p] = Append(installed[p], h)
        BY <1>0, <1>4 DEF install_inline, TypeOK
      <3> QED
        BY <1>4, <3>1, ElementsOf DEF install_inline
    <2>4. ASSUME NEW s \in Site
          PROVE  code'[s] = before[p][s] \/ Changed(p, s)'
      <3>1. CASE s = target[h]
        BY <1>0, <1>3, <2>3, <3>1 DEF Changed
      <3>2. CASE s # target[h]
        <4>1. code'[s] = code[s]
          BY <1>0, <2>1, <3>2 DEF TypeOK
        <4>2. Changed(p, s) => Changed(p, s)'
          BY <1>0, <1>3, <2>3 DEF Changed
        <4>3. code[s] = before[p][s] \/ Changed(p, s)
          BY <1>0 DEF Window, WindowPcs
        <4> QED
          BY <4>1, <4>2, <4>3
      <3> QED
        BY <3>1, <3>2
    <2>5. \A x \in Elements(installed'[p]) : before[p][target[x]] = "orig"
      BY <1>0, <2>2, <2>3 DEF Window, WindowPcs
    <2>6. \A d \in Elements(detached[p]) : d.was => before[p][target[d.hook]] = d.hook
      BY <1>0 DEF Window, WindowPcs
    <2> QED
      BY <1>0, <2>3, <2>4, <2>5, <2>6 DEF Window
  <1>5. CASE prepare_detach(p, h)
    <2> DEFINE d == [hook |-> h, was |-> enabled[h]]
               D == [hook : Hooks, was : BOOLEAN]
    <2>1. /\ code' = IF enabled[h] THEN [code EXCEPT ![target[h]] = orig[h]] ELSE code
          /\ detached'[p] = Append(detached[p], d) /\ installed' = installed
      BY <1>0, <1>5 DEF prepare_detach, TypeOK
    <2>2. detached[p] \in Seq(D) /\ d \in D /\ d.hook = h /\ (d.was <=> enabled[h])
      BY <1>0 DEF TypeOK
    <2> HIDE DEF d, D
    <2>3. Elements(detached'[p]) = Elements(detached[p]) \cup {d}
      BY <2>1, <2>2, ElementsOf
    <2>4. ASSUME d.was
          PROVE  before[p][target[h]] = h
      <3>1. Head(queue[p]) = DetachOp(h) /\ enabled[h]
        BY <1>5, <2>2, <2>4 DEF prepare_detach, DetachOp
      <3>2. stage[h] = "detaching"
        BY <1>0, <1>1, <3>1 DEF Places, Place
      <3>3. Live(h) /\ code[target[h]] = h
        BY <1>0, <3>1, <3>2, EnabledIsLive DEF Live, Traced, Written
      <3> QED
        BY <1>0, <1>2, <3>3, OneTarget, UnchangedYet
    <2>5. ASSUME NEW s \in Site
          PROVE  code'[s] = before[p][s] \/ Changed(p, s)'
      <3>1. CASE s = target[h] /\ d.was
        BY <1>0, <2>2, <2>3, <3>1 DEF Changed
      <3>2. CASE ~(s = target[h] /\ d.was)
        <4>1. code'[s] = code[s]
          BY <1>0, <2>1, <2>2, <3>2 DEF TypeOK
        <4>2. Changed(p, s) => Changed(p, s)'
          BY <1>0, <1>3, <2>1, <2>3 DEF Changed
        <4>3. code[s] = before[p][s] \/ Changed(p, s)
          BY <1>0 DEF Window, WindowPcs
        <4> QED
          BY <4>1, <4>2, <4>3
      <3> QED
        BY <3>1, <3>2
    <2>6. \A e \in Elements(detached'[p]) : e.was => before[p][target[e.hook]] = e.hook
      <3>1. \A e \in Elements(detached[p]) : e.was => before[p][target[e.hook]] = e.hook
        BY <1>0 DEF Window, WindowPcs
      <3> QED
        BY <2>2, <2>3, <2>4, <3>1
    <2>7. \A x \in Elements(installed[p]) : before[p][target[x]] = "orig"
      BY <1>0 DEF Window, WindowPcs
    <2> QED
      BY <1>0, <2>1, <2>5, <2>6, <2>7 DEF Window
  <1> QED
    BY <1>4, <1>5

\* The steps back.
LEMMA WindowUndo ==
    ASSUME Traced, Disciplined, NEW p \in Procs, UndoStep(p)
    PROVE  Window(p)'
  <1> USE DEF Goto
  <1>0. /\ Known /\ TypeOK /\ Base /\ Places /\ Window(p) /\ Patched /\ ListOK(p)
        /\ pc[p] \in WindowPcs /\ UNCHANGED <<target, before>>
        /\ before[p] \in [Site -> Content]
    BY KnownBase DEF Traced, TypeOK, Places, UndoStep, commit_fail, rollback_detaches,
       rollback_start, rollback, rollback_done, dismantle, txVars, hookVars, WindowPcs, UndoPcs
  <1>1. /\ \A d \in Elements(detached[p]) : d.was => before[p][target[d.hook]] = d.hook
        /\ \A h \in Elements(installed[p]) : before[p][target[h]] = "orig"
        /\ \A s \in Site : code[s] = before[p][s] \/ Changed(p, s)
    BY <1>0 DEF Window
  <1>2. installed[p] \in Seq(Hooks) /\ Elements(installed[p]) \subseteq Hooks
    <2>1. installed[p] \in Seq(Hooks)
      BY <1>0 DEF TypeOK
    <2> QED
      BY <2>1, ElementsOf
  <1>3. CASE commit_fail(p)
    <2>1. UNCHANGED <<code, installed, detached>> /\ pc[p] = "com_install"
          /\ pc'[p] = "com_undo_detach"
      BY <1>0, <1>3 DEF commit_fail, txVars, TypeOK
    <2>2. Remaining(p)' = Remaining(p)
      BY <2>1 DEF Remaining, Elements
    <2>3. \A s \in Site : Changed(p, s) => Changed(p, s)'
      BY <1>0, <2>1, <2>2 DEF Changed
    <2> QED
      BY <1>0, <1>1, <2>1, <2>3 DEF Window
  <1>4. CASE rollback_detaches(p)
    <2> DEFINE D == [hook : Hooks, was : BOOLEAN]
               d == detached[p][Len(detached[p])]
    <2>1. /\ detached[p] # << >> /\ detached[p] \in Seq(D) /\ Distinct(detached[p])
          /\ pc[p] = "com_undo_detach" /\ pc'[p] = pc[p] /\ installed' = installed
          /\ detached'[p] = SubSeq(detached[p], 1, Len(detached[p]) - 1)
      BY <1>0, <1>4 DEF rollback_detaches, TypeOK, ListOK, callVars
    <2>2. code' = IF d.was THEN [code EXCEPT ![target[d.hook]] = d.hook] ELSE code
      BY <1>4 DEF rollback_detaches, detach_rollback, Disciplined
    <2> HIDE DEF D
    <2>3. d \in Elements(detached[p]) /\ Elements(detached'[p]) = Elements(detached[p]) \ {d}
      BY <2>1, ElementsOf, DistinctSeq
    <2> HIDE DEF d
    <2>4. d.hook \in Hooks /\ target[d.hook] \in Site
      BY <1>0, <2>3, Contents
    <2>5. Remaining(p)' = Remaining(p)
      BY <2>1 DEF Remaining, Elements
    <2>6. ASSUME NEW s \in Site
          PROVE  code'[s] = before[p][s] \/ Changed(p, s)'
      <3>1. CASE d.was /\ s = target[d.hook]
        <4>1. code'[s] = d.hook
          BY <1>0, <2>2, <2>4, <3>1 DEF TypeOK
        <4> QED
          BY <1>1, <2>3, <3>1, <4>1
      <3>2. CASE ~(d.was /\ s = target[d.hook])
        <4>1. code'[s] = code[s]
          BY <1>0, <2>2, <2>4, <3>2 DEF TypeOK
        <4>2. Changed(p, s) => Changed(p, s)'
          BY <1>0, <2>3, <2>5, <3>2 DEF Changed
        <4> QED
          BY <1>1, <4>1, <4>2
      <3> QED
        BY <3>1, <3>2
    <2> QED
      BY <1>0, <1>1, <2>1, <2>3, <2>6 DEF Window
  <1>5. CASE rollback_start(p)
    <2>1. /\ UNCHANGED <<code, installed, detached>> /\ pc[p] = "com_undo_detach"
          /\ pc'[p] = "com_undo_install" /\ idx'[p] = Len(installed[p])
      BY <1>0, <1>5 DEF rollback_start, TypeOK
    <2>2. Remaining(p)' = Remaining(p)
      BY <2>1 DEF Remaining, Elements
    <2>3. \A s \in Site : Changed(p, s) => Changed(p, s)'
      BY <1>0, <2>1, <2>2 DEF Changed
    <2> QED
      BY <1>0, <1>1, <2>1, <2>3 DEF Window
  <1>6. CASE rollback(p)
    <2> DEFINE n == idx[p]
               h == installed[p][n]
    <2>1. /\ n \in 1 .. Len(installed[p]) /\ idx'[p] = n - 1
          /\ pc[p] = "com_undo_install" /\ pc'[p] = pc[p] /\ UNCHANGED <<installed, detached>>
          /\ code' = [code EXCEPT ![target[h]] = orig[h]]
      BY <1>0, <1>2, <1>6 DEF rollback, Disciplined, Base, CursorOK, TypeOK, callVars
    <2>2. h \in Elements(installed[p]) /\ h \in Hooks /\ target[h] \in Site /\ orig[h] = "orig"
      <3>1. h \in Elements(installed[p]) /\ h \in Hooks
        BY <1>2, <2>1, ElementsOf
      <3> QED
        BY <1>0, <3>1 DEF TypeOK, Patched, Originals
    <2>3. /\ Remaining(p) = {installed[p][i] : i \in 1 .. n}
          /\ Remaining(p)' = {installed[p][i] : i \in 1 .. n - 1}
      BY <2>1 DEF Remaining
    <2>4. \A x \in Remaining(p) : x = h \/ x \in Remaining(p)'
      <3>1. n \in Nat /\ \A i \in 1 .. n : i = n \/ i \in 1 .. n - 1
        BY <2>1
      <3> QED
        BY <2>3, <3>1
    <2> HIDE DEF h, n
    <2>5. ASSUME NEW s \in Site
          PROVE  code'[s] = before[p][s] \/ Changed(p, s)'
      <3>1. CASE s = target[h]
        BY <1>0, <1>1, <2>1, <2>2, <3>1 DEF TypeOK
      <3>2. CASE s # target[h]
        <4>1. code'[s] = code[s]
          BY <1>0, <2>1, <2>2, <3>2 DEF TypeOK
        <4>2. Changed(p, s) => Changed(p, s)'
          BY <1>0, <2>1, <2>4, <3>2 DEF Changed
        <4> QED
          BY <1>1, <4>1, <4>2
      <3> QED
        BY <3>1, <3>2
    <2> QED
      BY <1>0, <1>1, <2>1, <2>5 DEF Window
  <1>7. CASE rollback_done(p)
    <2>1. /\ UNCHANGED <<code, installed, detached>> /\ pc[p] = "com_undo_install" /\ idx[p] = 0
          /\ pc'[p] = "com_dismantle"
      BY <1>0, <1>7 DEF rollback_done, TypeOK, txVars
    <2>2. Remaining(p) = {}
      BY <2>1 DEF Remaining
    <2>3. \A s \in Site : Changed(p, s) => Changed(p, s)'
      BY <1>0, <2>1, <2>2 DEF Changed
    <2> QED
      BY <1>0, <1>1, <2>1, <2>3 DEF Window
  <1>8. CASE dismantle(p)
    <2> DEFINE h == Head(installed[p])
    <2>1. /\ pc[p] = "com_dismantle" /\ pc' = pc /\ installed[p] # << >>
          /\ installed'[p] = Tail(installed[p]) /\ detached' = detached
          /\ code' = [code EXCEPT ![target[h]] = orig[h]]
      BY <1>0, <1>8 DEF dismantle, Disciplined, TypeOK, callVars
    <2>2. /\ h \in Elements(installed[p]) /\ h \in Hooks
          /\ Elements(installed'[p]) \subseteq Elements(installed[p])
      BY <1>2, <2>1, ElementsOf
    <2>3. target[h] \in Site /\ orig[h] = "orig"
      BY <1>0, <2>2 DEF TypeOK, Patched, Originals
    <2>4. \A s \in Site : ~Changed(p, s)
      <3>1. Elements(detached[p]) = {}
        BY <1>0, <2>1, NothingDetached DEF DetachedPcs
      <3>2. Remaining(p) = {}
        BY <2>1 DEF Remaining
      <3> QED
        BY <3>1, <3>2 DEF Changed
    <2> HIDE DEF h
    <2>5. \A s \in Site : code'[s] = before[p][s]
      BY <1>0, <1>1, <2>1, <2>2, <2>3, <2>4 DEF TypeOK
    <2> QED
      BY <1>0, <1>1, <2>1, <2>2, <2>5 DEF Window
  <1> QED
    BY <1>3, <1>4, <1>5, <1>6, <1>7, <1>8 DEF UndoStep

LEMMA WindowKept ==
    ASSUME Traced, Disciplined, NEW p \in Procs, Step(p), NEW q \in Procs
    PROVE  Window(q)'
  <1>0. Known /\ TypeOK /\ Base
    BY KnownBase DEF Traced
  <1>1. CASE q # p
    BY <1>1, WindowOther
  <1>2. CASE q = p /\ pc'[p] \in UndoPcs
    BY <1>0, <1>2, UndoSteps, WindowUndo
  <1>3. CASE q = p /\ pc'[p] = "com_install"
    <2>1. commit_lock(p) \/ commit_install(p)
      <3>1. commit_lock(p) \/ commit_install(p) \/ commit_applied(p) \/ publish(p)
        BY <1>0, <1>3, InstallSteps DEF InstallPcs
      <3>2. pc[p] \in {"com_code", "com_install"} \/ commit_applied(p) \/ publish(p)
        BY <3>1 DEF commit_lock, commit_install
      <3>3. ~commit_applied(p) /\ ~publish(p)
        BY <1>0, <1>3 DEF commit_applied, publish, Goto, callVars, TypeOK
      <3> QED
        BY <3>1, <3>3
    <2>2. CASE commit_install(p)
      BY <1>3, <2>2, WindowInstall DEF commit_install
    <2>3. CASE commit_lock(p)
      <3>1. /\ before'[p] = code /\ UNCHANGED <<code, installed, detached>> /\ pc[p] = "com_code"
        BY <1>0, <1>3, <2>3 DEF commit_lock, CommitFails, Goto, TypeOK
      <3>2. Elements(detached'[p]) = {} /\ installed'[p] = << >>
        BY <1>0, <3>1, NothingDetached DEF DetachedPcs, Base, InstalledInCommit, PatchPcs
      <3>3. Elements(installed'[p]) = {}
        BY <3>2 DEF Elements
      <3> QED
        BY <1>3, <3>1, <3>2, <3>3 DEF Window
    <2> QED
      BY <2>1, <2>2, <2>3
  <1>4. CASE q = p /\ pc'[p] \notin WindowPcs
    BY <1>4 DEF Window
  <1> QED
    BY <1>1, <1>2, <1>3, <1>4 DEF WindowPcs

LEMMA InitTraced == Init => Traced
  <1> SUFFICES ASSUME Init PROVE Traced
    OBVIOUS
  <1>1. (\A p \in Procs : pc[p] = "ready") /\ (\A h \in Hooks : ~enabled[h])
    BY DEF Init
  <1> QED
    BY <1>1, InitKnown
       DEF Traced, Written, WrittenIn, Window, WindowPcs, UndoPcs, InstallPcs

LEMMA StepTraced ==
    ASSUME Disciplined
    PROVE  Traced /\ [Next]_vars => Traced'
  <1> SUFFICES ASSUME Traced, [Next]_vars
               PROVE  Traced'
    OBVIOUS
  <1>1. Known'
    BY StepKnown DEF Traced
  <1>2. CASE UNCHANGED vars
    <2> USE <1>2 DEF vars, hookVars, regVars, lockVars, txVars, callVars
    <2>1. \A h \in Hooks : Written(h)'
      BY DEF Traced, Written
    <2>2. ASSUME NEW p \in Procs
          PROVE  WrittenIn(p)' /\ Window(p)'
      <3>1. WrittenIn(p) /\ Window(p)
        BY DEF Traced
      <3>2. WrittenIn(p)'
        BY <3>1 DEF WrittenIn, InInstalled
      <3>3. Remaining(p)' = Remaining(p)
        BY DEF Remaining
      <3>4. \A s \in Site : Changed(p, s) => Changed(p, s)'
        BY <3>3 DEF Changed
      <3>5. Window(p)'
        BY <3>1, <3>4 DEF Window
      <3> QED
        BY <3>2, <3>5
    <2> QED
      BY <1>1, <2>1, <2>2 DEF Traced
  <1>3. CASE Next
    <2>1. PICK p \in Procs : Step(p)
      BY <1>3 DEF Next, Step
    <2> QED
      BY <1>1, <2>1, WrittenKept, WrittenInKept, WindowKept DEF Traced
  <1> QED
    BY <1>2, <1>3

(***************************************************************************)
(* A commit that fails has put every byte back by the time it dismantles   *)
(* its hooks, the jumps of the hooks it had detached included, however far *)
(* it got and whatever other threads did before and after its patch phase. *)
(***************************************************************************)
THEOREM FailedCommitsAreUndone ==
    ASSUME Disciplined
    PROVE  Spec => []FailedCommitLeavesNoTrace
  <1>1. Traced => FailedCommitLeavesNoTrace
    <2> SUFFICES ASSUME Traced, NEW p \in Procs, pc[p] = "com_dismantle"
                 PROVE  code = before[p]
      BY DEF FailedCommitLeavesNoTrace
    <2>1. Base /\ Window(p) /\ code \in [Site -> Content] /\ before[p] \in [Site -> Content]
      BY KnownBase DEF Traced, TypeOK
    <2>2. Elements(detached[p]) = {} /\ Remaining(p) = {}
      BY <2>1, NothingDetached DEF DetachedPcs, Remaining
    <2>3. \A s \in Site : code[s] = before[p][s]
      BY <2>1, <2>2 DEF Window, WindowPcs, UndoPcs, Changed
    <2> QED
      BY <2>1, <2>3
  <1> QED
    BY InitTraced, StepTraced, <1>1, PTL DEF Spec
=============================================================================
