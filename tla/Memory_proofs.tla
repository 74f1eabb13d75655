---------------------------- MODULE Memory_proofs ----------------------------
(***************************************************************************)
(* Proofs about the library's own memory: stub reclamation (Reclaim), the  *)
(* writes to pages (PageWrites) and the placement of trampolines and       *)
(* export stubs (TrampolineSearch).                                        *)
(*                                                                         *)
(* Reclaim, for any number of threads, stubs and rounds, whatever the      *)
(* system refuses.  No stub in use is released: up to the cursor of the    *)
(* walk every living thread is suspended, and the walk only ends behind    *)
(* the last thread.  From then on nobody is left to start a thread, and    *)
(* what the suspended threads reference is marked.                         *)
(***************************************************************************)
EXTENDS Reclaim, PageWrites, TrampolineSearch, FiniteSetTheorems, NaturalsInduction,
        WellFoundedInduction, TLAPS

-----------------------------------------------------------------------------
(***************************************************************************)
(* Everyone is resumed                                                     *)
(***************************************************************************)

Frozen == {"freeze", "walk", "release"}

\* The suspended threads are those the pass has handles of.
SuspendedOK ==
    /\ phase \in Frozen => suspended = handles
    /\ phase \notin Frozen => suspended = {}

\* Every step keeps the suspended threads and the handles together.
LEMMA SuspendedStep == SuspendedOK /\ [Next]_vars => SuspendedOK'
<1> SUFFICES ASSUME SuspendedOK, [Next]_vars PROVE SuspendedOK' OBVIOUS
<1> USE DEF SuspendedOK, Frozen
<1>1. CASE Process
  BY <1>1 DEF Process, register_codes, retire, enter, leave, spawn, exit, join,
              processVars, passVars, scanVars
<1>2. CASE free_quiescent_regions
  BY <1>2 DEF free_quiescent_regions, scanVars, processVars
<1>3. CASE inspect
  BY <1>3 DEF inspect, processVars
<1>4. CASE Walk
  <2>1. CASE walk_end
    BY <2>1 DEF walk_end, processVars, scanVars
  <2>2. ASSUME NEW n \in Threads, walk_on(n) PROVE SuspendedOK'
    BY <2>2 DEF walk_on, NextThread, processVars
  <2>3. ASSUME NEW n \in Threads, walk_failed(n) PROVE SuspendedOK'
    BY <2>3 DEF walk_failed, NextThread, processVars
  <2>4. ASSUME NEW n \in Threads, walk_suspend(n) PROVE SuspendedOK'
    BY <2>4 DEF walk_suspend, NextThread, Suspend, Restarts
  <2> QED BY <1>4, <2>1, <2>2, <2>3, <2>4 DEF Walk
<1>5. CASE release
  BY <1>5 DEF release
<1>6. CASE reclaim_end
  BY <1>6 DEF reclaim_end, processVars, scanVars
<1>7. ASSUME NEW t \in Threads, freeze(t) PROVE SuspendedOK'
  BY <1>7 DEF freeze, Suspend
<1>8. ASSUME NEW t \in Threads, freeze_exited(t) PROVE SuspendedOK'
  BY <1>8 DEF freeze_exited, processVars
<1>9. ASSUME NEW p \in Threads, reclaim(p) PROVE SuspendedOK'
  BY <1>9 DEF reclaim, processVars, scanVars
<1>10. CASE UNCHANGED vars
  BY <1>10 DEF vars, processVars, passVars, scanVars
<1> QED BY <1>1, <1>2, <1>3, <1>4, <1>5, <1>6, <1>7, <1>8, <1>9, <1>10 DEF Next, Pass

(***************************************************************************)
(* A thread is suspended only while a pass looks at the threads (reclaim,  *)
(* freeze, catch_up_new_threads): whichever way the pass ends, everyone it *)
(* suspended runs again.                                                   *)
(***************************************************************************)
THEOREM EveryoneIsResumed == Spec => []NobodyLeftSuspended
<1>1. Init => SuspendedOK
  BY DEF Init, SuspendedOK, Frozen
<1>2. SuspendedOK => NobodyLeftSuspended
  BY DEF SuspendedOK, Frozen, NobodyLeftSuspended
<1> QED BY <1>1, <1>2, SuspendedStep, PTL DEF Spec

-----------------------------------------------------------------------------
(***************************************************************************)
(* Type correctness                                                        *)
(***************************************************************************)

\* What the constants are, for the leaves below.
LEMMA Constants ==
    /\ MaxThreads \in Nat /\ MaxThreads > 0 /\ Rounds \in Nat /\ Rounds > 0 /\ Slack \in Nat
    /\ Threads = 1 .. MaxThreads /\ IsFiniteSet(Threads)
BY BoundsAssumption, FS_Interval DEF Threads

\* A set of threads or ids has a size.
LEMMA Sized == \A S \in SUBSET Threads : IsFiniteSet(S) /\ Cardinality(S) \in Nat
BY Constants, FS_Subset, FS_CardinalityType

\* The initial state has the types.
LEMMA InitType == Init => TypeOK
BY Constants DEF Init, TypeOK, Phases

\* What the process does keeps the types.
LEMMA ProcessType == TypeOK /\ Process => TypeOK'
<1> SUFFICES ASSUME TypeOK, Process PROVE TypeOK' OBVIOUS
<1> USE DEF processVars, passVars, stubVars, scanVars
<1>1. ASSUME NEW t \in Threads, NEW s \in Stubs, register_codes(t, s) PROVE TypeOK'
  BY <1>1 DEF register_codes, TypeOK
<1>2. ASSUME NEW t \in Threads, NEW s \in Stubs, retire(t, s) PROVE TypeOK'
  BY <1>2 DEF retire, TypeOK
<1>3. ASSUME NEW t \in Threads, NEW s \in Stubs, enter(t, s) PROVE TypeOK'
  BY <1>3 DEF enter, TypeOK
<1>4. ASSUME NEW t \in Threads, NEW s \in Stubs, NEW u \in Threads, leave(t, s, u)
      PROVE  TypeOK'
  <2>1. refs' \in [Threads -> SUBSET Stubs]
    BY <1>4 DEF leave, TypeOK
  <2> QED BY <1>4, <2>1 DEF leave, TypeOK
<1>5. ASSUME NEW t \in Threads, NEW R \in SUBSET refs[t], spawn(t, R) PROVE TypeOK'
  <2>1. born + 1 \in Threads /\ born \in 1 .. MaxThreads
    BY <1>5, Constants DEF spawn, TypeOK
  <2>2. FreshTids \subseteq Threads
    BY <2>1 DEF FreshTids
  <2>3. tid' \in [Threads -> Threads]
    BY <1>5, <2>1, <2>2 DEF spawn, TypeOK
  <2>4. refs' \in [Threads -> SUBSET Stubs]
    BY <1>5, <2>1 DEF spawn, TypeOK
  <2>5. born' \in Threads /\ alive' \subseteq 1 .. born' /\ unjoined' \subseteq 1 .. born'
    BY <1>5, <2>1, Constants DEF spawn, TypeOK
  <2> QED BY <1>5, <2>3, <2>4, <2>5 DEF spawn, TypeOK
<1>6. ASSUME NEW t \in Threads, exit(t) PROVE TypeOK'
  <2>1. alive' \subseteq 1 .. born' /\ unjoined' \subseteq 1 .. born'
    BY <1>6 DEF exit, Running, TypeOK
  <2>2. refs' \in [Threads -> SUBSET Stubs]
    BY <1>6 DEF exit, TypeOK
  <2> QED BY <1>6, <2>1, <2>2 DEF exit, TypeOK
<1>7. ASSUME NEW t \in Threads, join(t) PROVE TypeOK'
  BY <1>7 DEF join, TypeOK
<1> QED BY <1>1, <1>2, <1>3, <1>4, <1>5, <1>6, <1>7 DEF Process

\* And so does the pass.
LEMMA PassType == TypeOK /\ Pass => TypeOK'
<1> SUFFICES ASSUME TypeOK, Pass PROVE TypeOK' OBVIOUS
<1> USE DEF processVars, stubVars, scanVars, Phases
<1>1. CASE free_quiescent_regions
  <2>0. Enumerated(passer) \subseteq Threads
    <3>1. Listed \subseteq Threads
      BY Constants DEF TypeOK, Listed
    <3> QED BY <3>1 DEF Enumerated, TypeOK
  <2>1. /\ tids' \subseteq Threads /\ handles' \subseteq Threads /\ frozen' \subseteq Threads
        /\ busy' \subseteq Stubs /\ stillBusy' \subseteq Stubs
    BY <1>1, <2>0 DEF free_quiescent_regions, TypeOK
  <2>2. capacity' \in Nat
    <3>1. Cardinality(tids') \in Nat
      BY <2>1, Sized
    <3>2. capacity' = capacity \/ capacity' = Cardinality(tids') + Slack
      BY <1>1 DEF free_quiescent_regions
    <3> QED BY <3>1, <3>2, Constants DEF TypeOK
  <2>3. inspectedAll' \in BOOLEAN
    BY <1>1 DEF free_quiescent_regions, TypeOK
  <2>4. cursor' \in Threads \cup {0} /\ round' \in 0 .. Rounds /\ phase' \in Phases
    BY <1>1, Constants DEF free_quiescent_regions, TypeOK
  <2> QED BY <1>1, <2>1, <2>2, <2>3, <2>4 DEF free_quiescent_regions, TypeOK
<1>2. CASE inspect
  <2>1. inspectedAll' \in BOOLEAN
    BY <1>2 DEF inspect, TypeOK
  <2>2. busy' \subseteq Stubs /\ round' \in 0 .. Rounds /\ phase' \in Phases
    BY <1>2, Constants DEF inspect, TypeOK, inspect_thread
  <2> QED BY <1>2, <2>1, <2>2 DEF inspect, TypeOK
<1>3. CASE walk_end
  BY <1>3 DEF walk_end, TypeOK
<1>4. ASSUME NEW n \in Threads, walk_on(n) PROVE TypeOK'
  BY <1>4 DEF walk_on, TypeOK
<1>5. ASSUME NEW n \in Threads, walk_failed(n) PROVE TypeOK'
  BY <1>5 DEF walk_failed, TypeOK
<1>6. ASSUME NEW n \in Threads, walk_suspend(n) PROVE TypeOK'
  <2>1. inspectedAll' \in BOOLEAN
    BY <1>6 DEF walk_suspend, Restarts, TypeOK
  <2>2. cursor' \in Threads \cup {0} /\ phase' \in Phases
    BY <1>6 DEF walk_suspend, Restarts, TypeOK
  <2>4. round' \in 0 .. Rounds
    <3>1. round' = round \/ (round < Rounds /\ round' = round + 1)
      BY <1>6 DEF walk_suspend, Restarts
    <3> QED BY <3>1, Constants DEF TypeOK
  <2>3. /\ suspended' \subseteq Threads /\ handles' \subseteq Threads
        /\ frozen' \subseteq Threads /\ busy' \subseteq Stubs
    BY <1>6 DEF walk_suspend, Suspend, inspect_thread, TypeOK
  <2> QED BY <1>6, <2>1, <2>2, <2>3, <2>4 DEF walk_suspend, TypeOK
<1>7. CASE release
  <2>1. mem' \in [Stubs -> {"free", "used", "retired"}]
    BY <1>7 DEF release, TypeOK
  <2>2. stillBusy' \subseteq Stubs
    BY <1>7 DEF release, TypeOK
  <2> QED BY <1>7, <2>1, <2>2 DEF release, TypeOK
<1>8. CASE reclaim_end
  <2>1. tables' \in [Stubs -> {"none", "off", "on"}] /\ osTables' \subseteq Stubs
    BY <1>8 DEF reclaim_end, settle, TypeOK
  <2> QED BY <1>8, <2>1 DEF reclaim_end, Requeued, TypeOK
<1>9. ASSUME NEW t \in Threads, freeze(t) PROVE TypeOK'
  <2>1. inspectedAll' \in BOOLEAN
    BY <1>9 DEF freeze, TypeOK
  <2> QED BY <1>9, <2>1 DEF freeze, Suspend, TypeOK
<1>10. ASSUME NEW t \in Threads, freeze_exited(t) PROVE TypeOK'
  BY <1>10 DEF freeze_exited, TypeOK
<1> QED BY <1>1, <1>2, <1>3, <1>4, <1>5, <1>6, <1>7, <1>8, <1>9, <1>10 DEF Pass, Walk

\* Every step keeps the types.
LEMMA TypeStep == TypeOK /\ [Next]_vars => TypeOK'
<1> SUFFICES ASSUME TypeOK, [Next]_vars PROVE TypeOK' OBVIOUS
<1>1. ASSUME NEW p \in Threads, reclaim(p) PROVE TypeOK'
  <2>1. tables' \in [Stubs -> {"none", "off", "on"}] /\ osTables' \subseteq Stubs
    BY <1>1 DEF reclaim, TypeOK
  <2> QED BY <1>1, <2>1 DEF reclaim, TypeOK, Phases, processVars, scanVars
<1>2. CASE UNCHANGED vars
  BY <1>2 DEF vars, processVars, stubVars, passVars, scanVars, TypeOK
<1> QED BY <1>1, <1>2, ProcessType, PassType DEF Next

(***************************************************************************)
(* Every variable keeps its type; the rounds of the walk stay bounded.     *)
(***************************************************************************)
THEOREM TypeInvariant == Spec => []TypeOK
BY InitType, TypeStep, PTL DEF Spec

-----------------------------------------------------------------------------
(***************************************************************************)
(* The buffers                                                             *)
(***************************************************************************)

\* While the snapshot is worked off there is room for the rest of it, too.
RoomOK ==
    /\ phase = "freeze" => /\ Cardinality(handles) + Cardinality(tids) <= capacity
                           /\ Cardinality(frozen) + Cardinality(tids) <= capacity
    /\ phase = "walk" => Cardinality(handles) <= capacity /\ Cardinality(frozen) <= capacity

\* Adding an element adds at most one to the size; removing one takes one away.
LEMMA GrowByOne ==
    ASSUME NEW S \in SUBSET Threads, NEW x \in Threads
    PROVE  /\ Cardinality(S \cup {x}) <= Cardinality(S) + 1
           /\ x \in S => Cardinality(S \ {x}) = Cardinality(S) - 1
<1>1. IsFiniteSet(S) /\ Cardinality(S) \in Nat
  BY Sized
<1>2. x \in S => S \cup {x} = S
  OBVIOUS
<1> QED BY <1>1, <1>2, FS_AddElement, FS_RemoveElement

\* Adding an element makes a set larger by at most one.
LEMMA AtMostOneMore ==
    ASSUME NEW S \in SUBSET Threads, NEW x \in Threads, NEW T,
           T = S \/ T = S \cup {x}
    PROVE  Cardinality(T) <= Cardinality(S) + 1
<1>1. CASE T = S
  <2>1. Cardinality(S) \in Nat
    BY Sized
  <2> QED BY <1>1, <2>1
<1>2. CASE T = S \cup {x}
  BY <1>2, GrowByOne
<1> QED BY <1>1, <1>2

\* Every step keeps the reserved room.
LEMMA RoomStep == TypeOK /\ RoomOK /\ [Next]_vars => RoomOK'
<1> SUFFICES ASSUME TypeOK, RoomOK, [Next]_vars PROVE RoomOK' OBVIOUS
<1>s. /\ handles \subseteq Threads /\ tids \subseteq Threads /\ frozen \subseteq Threads
      /\ Cardinality(handles) \in Nat /\ Cardinality(tids) \in Nat
      /\ Cardinality(frozen) \in Nat /\ capacity \in Nat
  BY Sized DEF TypeOK
<1>t. /\ Cardinality(handles') \in Nat /\ Cardinality(tids') \in Nat
      /\ Cardinality(frozen') \in Nat
  <2>1. handles' \subseteq Threads /\ tids' \subseteq Threads /\ frozen' \subseteq Threads
    BY TypeStep DEF TypeOK
  <2> QED BY <2>1, Sized
<1>k. ASSUME UNCHANGED <<handles, tids, frozen, capacity>>,
             phase' \in {"freeze", "walk"} => phase' = phase
      PROVE  RoomOK'
  BY <1>k DEF RoomOK
<1>1. CASE Process
  BY <1>1, <1>k DEF Process, register_codes, retire, enter, leave, spawn, exit, join,
                    passVars, scanVars
<1>2. CASE free_quiescent_regions
  <2>1. CASE phase' = "settle"
    BY <2>1 DEF RoomOK
  <2>2. CASE phase' # "settle"
    <3>1. /\ handles' = {} /\ frozen' = {} /\ capacity' = Cardinality(tids') + Slack
          /\ phase' = "freeze"
      BY <1>2, <2>2 DEF free_quiescent_regions
    <3> QED BY <3>1, <1>t, FS_EmptySet, Constants DEF RoomOK
  <2> QED BY <2>1, <2>2
<1>3. CASE inspect
  <2>1. phase = "freeze" /\ phase' \in {"walk", "release"}
        /\ UNCHANGED <<handles, tids, frozen, capacity>>
    BY <1>3 DEF inspect
  <2> QED BY <2>1, <1>s DEF RoomOK
<1>4. CASE Walk
  <2>1. CASE walk_end
    BY <2>1, <1>k DEF walk_end, scanVars
  <2>2. ASSUME NEW n \in Threads, walk_on(n) PROVE RoomOK'
    <3>1. tid[n] \in Threads /\ phase = "walk" /\ UNCHANGED <<phase, handles, tids, capacity>>
      BY <2>2 DEF walk_on, NextThread, TypeOK
    <3>2. CASE UNCHANGED frozen
      BY <3>1, <3>2, <1>k
    <3>3. CASE ~Full /\ frozen' = frozen \cup {tid[n]}
      <4>1. Cardinality(frozen') <= Cardinality(frozen) + 1
        BY <3>1, <3>3, <1>s, GrowByOne
      <4> QED BY <3>1, <3>3, <4>1, <1>s, <1>t DEF RoomOK, Full
    <3> QED BY <2>2, <3>2, <3>3 DEF walk_on
  <2>3. ASSUME NEW n \in Threads, walk_failed(n) PROVE RoomOK'
    BY <2>3 DEF walk_failed, RoomOK
  <2>4. ASSUME NEW n \in Threads, walk_suspend(n) PROVE RoomOK'
    <3>1. /\ tid[n] \in Threads /\ phase = "walk" /\ ~Full
          /\ handles' = handles \cup {n} /\ frozen' = frozen \cup {tid[n]}
          /\ capacity' = capacity /\ phase' \in {"walk", "release"}
      BY <2>4 DEF walk_suspend, Suspend, Restarts, NextThread, TypeOK
    <3>2. /\ Cardinality(handles') <= Cardinality(handles) + 1
          /\ Cardinality(frozen') <= Cardinality(frozen) + 1
      BY <3>1, <1>s, GrowByOne
    <3> QED BY <3>1, <3>2, <1>s, <1>t DEF RoomOK, Full
  <2> QED BY <1>4, <2>1, <2>2, <2>3, <2>4 DEF Walk
<1>5. CASE release
  BY <1>5 DEF release, RoomOK
<1>6. CASE reclaim_end
  BY <1>6 DEF reclaim_end, RoomOK
<1>7. ASSUME NEW t \in Threads, freeze(t) PROVE RoomOK'
  <2>1. /\ phase = "freeze" /\ phase' = "freeze" /\ capacity' = capacity
        /\ tid[t] \in tids /\ tids' = tids \ {tid[t]}
        /\ (handles' = handles \/ handles' = handles \cup {t})
        /\ (frozen' = frozen \/ frozen' = frozen \cup {tid[t]})
    BY <1>7 DEF freeze, Suspend
  <2>t. tid[t] \in Threads
    BY <2>1, <1>s
  <2>2. /\ Cardinality(handles') <= Cardinality(handles) + 1
        /\ Cardinality(frozen') <= Cardinality(frozen) + 1
    BY <2>1, <2>t, <1>s, AtMostOneMore
  <2>3. Cardinality(tids') = Cardinality(tids) - 1
    BY <2>1, <2>t, <1>s, GrowByOne
  <2> QED BY <2>1, <2>2, <2>3, <1>s, <1>t DEF RoomOK
<1>8. ASSUME NEW x \in Threads, freeze_exited(x) PROVE RoomOK'
  <2>1. /\ phase = "freeze" /\ phase' = "freeze" /\ capacity' = capacity
        /\ x \in tids /\ tids' = tids \ {x} /\ handles' = handles
        /\ (frozen' = frozen \/ frozen' = frozen \cup {x})
    BY <1>8 DEF freeze_exited
  <2>2. Cardinality(frozen') <= Cardinality(frozen) + 1
    BY <2>1, <1>s, AtMostOneMore
  <2>3. Cardinality(tids') = Cardinality(tids) - 1
    BY <2>1, <1>s, GrowByOne
  <2> QED BY <2>1, <2>2, <2>3, <1>s, <1>t DEF RoomOK
<1>9. ASSUME NEW p \in Threads, reclaim(p) PROVE RoomOK'
  BY <1>9 DEF reclaim, RoomOK
<1>10. CASE UNCHANGED vars
  BY <1>10, <1>k DEF vars, passVars, scanVars
<1> QED BY <1>1, <1>2, <1>3, <1>4, <1>5, <1>6, <1>7, <1>8, <1>9, <1>10 DEF Next, Pass

(***************************************************************************)
(* Neither buffer of the pass is pushed beyond what was reserved before    *)
(* the first thread was suspended (freeze, catch_up_new_threads), however  *)
(* many threads are started meanwhile: nothing is allocated while a        *)
(* suspended thread may own the heap lock.                                 *)
(***************************************************************************)
THEOREM NothingIsAllocated == Spec => []BuffersNeverGrow
<1>1. Init => RoomOK
  BY DEF Init, RoomOK
<1>2. TypeOK /\ RoomOK => BuffersNeverGrow
  <2> SUFFICES ASSUME TypeOK, RoomOK PROVE BuffersNeverGrow OBVIOUS
  <2>1. /\ Cardinality(handles) \in Nat /\ Cardinality(tids) \in Nat
        /\ Cardinality(frozen) \in Nat /\ capacity \in Nat
    BY Sized DEF TypeOK
  <2> QED BY <2>1 DEF RoomOK, BuffersNeverGrow
<1> QED BY <1>1, <1>2, InitType, TypeStep, RoomStep, PTL DEF Spec

-----------------------------------------------------------------------------
(***************************************************************************)
(* The unwind tables                                                       *)
(***************************************************************************)

\* A stub is known to the system, and can be given away, unless it is in a pass.
OutsideOK ==
    /\ phase = "idle" => regions = {}
    /\ \A s \in Stubs \ regions :
          IF mem[s] = "free" THEN tables[s] = "none" /\ s \notin osTables
          ELSE tables[s] = "on" /\ s \in osTables
    /\ \A s \in quarantine : mem[s] = "retired" /\ s \notin regions

\* The stubs in a pass are retired, or just released; the system forgets them.
InsideOK ==
    /\ \A s \in regions : tables[s] = "off" /\ s \notin osTables
    /\ phase # "settle" => \A s \in regions : mem[s] = "retired"
    /\ phase = "settle" =>
          /\ stillBusy \subseteq regions
          /\ \A s \in regions : mem[s] = IF s \in stillBusy THEN "retired" ELSE "free"

TablesOK == OutsideOK /\ InsideOK

\* The actions that leave all of this alone.
LEMMA TablesFrame ==
    ASSUME TablesOK, UNCHANGED <<stubVars, regions>>,
           phase' # phase => phase # "settle" /\ phase' \notin {"idle", "settle"},
           phase' = "settle" => UNCHANGED stillBusy
    PROVE  TablesOK'
<1> USE DEF stubVars, TablesOK
<1>1. OutsideOK'
  BY DEF OutsideOK
<1>2. InsideOK'
  BY DEF InsideOK
<1> QED BY <1>1, <1>2

\* Every step keeps the registered tables those of the allocated stubs.
LEMMA TablesStep ==
    ASSUME AllocWhenIdle = TRUE, TypeOK, TablesOK, [Next]_vars
    PROVE  TablesOK'
<1>1. ASSUME NEW t \in Threads, NEW s \in Stubs, register_codes(t, s) PROVE TablesOK'
  <2>1. /\ mem[s] = "free" /\ phase # "settle" /\ mem' = [mem EXCEPT ![s] = "used"]
        /\ tables' = [tables EXCEPT ![s] = "on"] /\ osTables' = osTables \cup {s}
        /\ UNCHANGED <<quarantine, phase, regions, stillBusy>>
    BY <1>1 DEF register_codes, passVars
  <2>2. s \notin regions /\ s \notin quarantine
    BY <2>1 DEF TablesOK, InsideOK, OutsideOK
  <2>3. OutsideOK'
    BY <2>1, <2>2 DEF TablesOK, OutsideOK, TypeOK
  <2>4. InsideOK'
    BY <2>1, <2>2 DEF TablesOK, InsideOK, TypeOK
  <2> QED BY <2>3, <2>4 DEF TablesOK
<1>2. ASSUME NEW t \in Threads, NEW s \in Stubs, retire(t, s) PROVE TablesOK'
  <2>1. /\ mem[s] = "used" /\ mem' = [mem EXCEPT ![s] = "retired"]
        /\ quarantine' = quarantine \cup {s}
        /\ UNCHANGED <<tables, osTables, phase, regions, stillBusy>>
    BY <1>2 DEF retire, passVars
  <2>2. s \notin regions
    BY <2>1 DEF TablesOK, InsideOK
  <2>3. OutsideOK'
    BY <2>1, <2>2 DEF TablesOK, OutsideOK, TypeOK
  <2>4. InsideOK'
    BY <2>1, <2>2 DEF TablesOK, InsideOK, TypeOK
  <2> QED BY <2>3, <2>4 DEF TablesOK
<1>3. ASSUME NEW t \in Threads,
             \/ \E s \in Stubs : enter(t, s) \/ \E u \in Threads : leave(t, s, u)
             \/ \E R \in SUBSET refs[t] : spawn(t, R)
             \/ exit(t) \/ join(t)
      PROVE  TablesOK'
  BY <1>3, TablesFrame DEF enter, leave, spawn, exit, join, passVars
<1>4. CASE free_quiescent_regions
  <2>1. /\ phase = "begin" /\ UNCHANGED <<stubVars, regions>>
        /\ \/ phase' = "settle" /\ stillBusy' = regions
           \/ phase' = "freeze"
    BY <1>4 DEF free_quiescent_regions
  <2>2. OutsideOK'
    BY <2>1 DEF TablesOK, OutsideOK, stubVars
  <2>3. InsideOK'
    BY <2>1 DEF TablesOK, InsideOK, stubVars
  <2> QED BY <2>2, <2>3 DEF TablesOK
<1>5. CASE inspect
  BY <1>5, TablesFrame DEF inspect
<1>6. CASE Walk
  <2>1. /\ phase = "walk" /\ phase' \in {"walk", "release"}
        /\ UNCHANGED <<stubVars, regions, stillBusy>>
    BY <1>6 DEF Walk, walk_end, walk_on, walk_failed, walk_suspend, Restarts, NextThread
  <2> QED BY <2>1, TablesFrame
<1>7. CASE release
  <2>1. /\ phase = "release" /\ phase' = "settle"
        /\ mem' = [s \in Stubs |-> IF s \in Quiescent THEN "free" ELSE mem[s]]
        /\ stillBusy' = regions \ Quiescent
        /\ UNCHANGED <<quarantine, tables, osTables, regions>>
    BY <1>7 DEF release
  <2>2. Quiescent \subseteq regions /\ regions \subseteq Stubs /\ quarantine \subseteq Stubs
    BY DEF Quiescent, TypeOK
  <2>3. OutsideOK'
    BY <2>1, <2>2 DEF TablesOK, OutsideOK
  <2>4. InsideOK'
    BY <2>1, <2>2 DEF TablesOK, InsideOK
  <2> QED BY <2>3, <2>4 DEF TablesOK
<1>8. CASE reclaim_end
  <2>1. /\ phase = "settle" /\ settle /\ quarantine' = quarantine \cup stillBusy
        /\ regions' = {} /\ phase' = "idle" /\ mem' = mem
    BY <1>8 DEF reclaim_end, Requeued
  <2>2. ASSUME NEW s \in Stubs
        PROVE  IF mem[s] = "free" THEN tables'[s] = "none" /\ s \notin osTables'
               ELSE tables'[s] = "on" /\ s \in osTables'
    <3>1. CASE s \notin regions
      BY <2>1, <3>1 DEF TablesOK, OutsideOK, InsideOK, settle
    <3>2. CASE s \in regions
      BY <2>1, <3>2 DEF TablesOK, InsideOK, settle
    <3> QED BY <3>1, <3>2
  <2>3. OutsideOK'
    BY <2>1, <2>2 DEF TablesOK, OutsideOK, InsideOK
  <2>4. InsideOK'
    BY <2>1 DEF InsideOK
  <2> QED BY <2>3, <2>4 DEF TablesOK
<1>9. ASSUME NEW t \in Threads, freeze(t) \/ freeze_exited(t) PROVE TablesOK'
  BY <1>9, TablesFrame DEF freeze, freeze_exited
<1>10. ASSUME NEW p \in Threads, reclaim(p) PROVE TablesOK'
  <2>1. /\ phase = "idle" /\ phase' = "begin" /\ regions' = quarantine /\ quarantine' = {}
        /\ osTables' = osTables \ {s \in quarantine : tables[s] = "on"}
        /\ tables' = [s \in Stubs |-> IF s \in quarantine /\ tables[s] = "on" THEN "off"
                                      ELSE tables[s]]
        /\ mem' = mem
    BY <1>10 DEF reclaim
  <2>2. /\ quarantine \subseteq Stubs /\ regions = {}
        /\ \A s \in quarantine : mem[s] = "retired" /\ tables[s] = "on"
    BY <2>1 DEF TablesOK, OutsideOK, TypeOK
  <2>3. OutsideOK'
    BY <2>1, <2>2 DEF TablesOK, OutsideOK
  <2>4. InsideOK'
    BY <2>1, <2>2 DEF InsideOK
  <2> QED BY <2>3, <2>4 DEF TablesOK
<1>11. CASE UNCHANGED vars
  BY <1>11, TablesFrame DEF vars, passVars
<1> QED BY <1>1, <1>2, <1>3, <1>4, <1>5, <1>6, <1>7, <1>8, <1>9, <1>10, <1>11
        DEF Next, Process, Pass

(***************************************************************************)
(* When no pass is under way the system has the unwind data of exactly the *)
(* allocated stubs (unwind::suspend, unwind::settle), provided no gateway  *)
(* is built between a release and its settling.                            *)
(***************************************************************************)
THEOREM TablesAreKept ==
    ASSUME AllocWhenIdle = TRUE
    PROVE  Spec => []TablesFollowStubs
<1>1. Init => TablesOK
  BY DEF Init, TablesOK, OutsideOK, InsideOK
<1>2. TypeOK /\ TablesOK => TablesFollowStubs
  BY DEF TablesOK, OutsideOK, TablesFollowStubs, TypeOK
<1>3. TypeOK /\ TablesOK /\ [Next]_vars => TablesOK'
  BY TablesStep
<1> QED BY <1>1, <1>2, <1>3, InitType, TypeStep, PTL DEF Spec

-----------------------------------------------------------------------------
(***************************************************************************)
(* No stub in use is released                                              *)
(***************************************************************************)

\* Threads keep their own ids; the pass runs on a living thread of its own.
PassOK ==
    /\ \A t \in Threads : tid[t] = t
    /\ phase # "idle" => passer \in alive
    /\ phase \in Frozen => passer \notin handles /\ passer \notin tids

\* What the pass has recorded are threads that existed; the living ones among them
\* are suspended, and the suspended ones live.
FrozenOK ==
    /\ phase \in Frozen => /\ frozen \subseteq 1 .. born /\ tids \subseteq 1 .. born
                           /\ cursor <= born
                           /\ frozen \cap alive \subseteq handles
                           /\ handles \subseteq alive
    /\ phase = "freeze" => cursor = 0

\* The caller is in none of the regions; what the suspended threads are in is
\* marked once they were looked into.
MarkedOK ==
    /\ phase # "idle" => refs[passer] \cap regions = {}
    /\ phase \in {"walk", "release"} => \A t \in handles : refs[t] \cap regions \subseteq busy

\* Up to the cursor, and in the end throughout, every living thread is suspended.
SeenOK ==
    /\ phase = "walk" => \A m \in alive : m <= cursor => m \in handles \cup {passer}
    /\ phase = "release" /\ inspectedAll => alive \subseteq handles \cup {passer}

PInv == PassOK /\ FrozenOK /\ MarkedOK /\ SeenOK
IInv == TypeOK /\ SuspendedOK /\ PInv /\ NoUseAfterFree

\* Somebody who runs is not suspended, and does not run the pass.
LEMMA RunningIsFree ==
    ASSUME SuspendedOK, phase \in Frozen, NEW t, Running(t)
    PROVE  t \in alive /\ t \notin handles /\ t # passer
BY DEF SuspendedOK, Running

\* A step of the process that starts no thread and changes only what those who
\* run refer to.
LEMMA ProcessFrame ==
    ASSUME IInv, UNCHANGED <<born, tid, passVars>>, alive' \subseteq alive,
           \A t \in Threads : ~Running(t) => refs'[t] = refs[t] /\ (t \in alive => t \in alive')
    PROVE  PInv'
<1> USE DEF IInv, PInv
<1>p. UNCHANGED <<phase, passer, regions, tids, handles, frozen, busy, inspectedAll, cursor>>
  BY DEF passVars, scanVars
<1>r. phase # "idle" => /\ passer \in Threads /\ passer \in alive /\ passer \in alive'
                        /\ refs'[passer] = refs[passer]
  BY Constants DEF PassOK, TypeOK, Running
<1>1. PassOK'
  BY <1>p, <1>r DEF PassOK
<1>2. FrozenOK'
  <2>1. phase \in Frozen => handles \subseteq alive'
    BY RunningIsFree DEF FrozenOK, TypeOK
  <2> QED BY <1>p, <2>1 DEF FrozenOK
<1>3. MarkedOK'
  <2>1. ASSUME phase \in {"walk", "release"}, NEW t \in handles
        PROVE  refs'[t] \cap regions \subseteq busy
    <3>1. ~Running(t) /\ t \in Threads
      BY <2>1, RunningIsFree DEF Frozen, TypeOK
    <3> QED BY <2>1, <3>1 DEF MarkedOK
  <2> QED BY <1>p, <1>r, <2>1 DEF MarkedOK
<1>4. SeenOK'
  <2>1. phase = "walk" => \A m \in alive' : m <= cursor => m \in handles \cup {passer}
    BY DEF SeenOK
  <2>2. phase = "release" /\ inspectedAll => alive' \subseteq handles \cup {passer}
    BY DEF SeenOK
  <2> QED BY <1>p, <2>1, <2>2 DEF SeenOK
<1> QED BY <1>1, <1>2, <1>3, <1>4

\* A new thread comes after the cursor, and cannot come once all are suspended.
LEMMA SpawnStep ==
    ASSUME IInv, ReuseTids = FALSE, NEW t \in Threads, NEW R \in SUBSET refs[t], spawn(t, R)
    PROVE  PInv' /\ NoUseAfterFree'
<1> USE DEF IInv, PInv
<1>1. /\ Running(t) /\ born < MaxThreads /\ R \subseteq refs[t]
      /\ born' = born + 1 /\ alive' = alive \cup {born + 1}
      /\ tid' = [tid EXCEPT ![born + 1] = born + 1]
      /\ refs' = [refs EXCEPT ![born + 1] = R]
      /\ UNCHANGED <<stubVars, passVars>>
  BY DEF spawn, FreshTids
<1>p. UNCHANGED <<phase, passer, regions, tids, handles, frozen, busy, inspectedAll, cursor>>
  BY <1>1 DEF passVars, scanVars
<1>2. /\ born \in Nat /\ born + 1 \in Threads /\ alive \subseteq 1 .. born
      /\ born + 1 \notin alive /\ t \in alive /\ alive \subseteq Threads
      /\ cursor \in Nat
  BY <1>1, Constants DEF TypeOK, Running
<1>3. phase # "idle" => passer \in alive /\ passer # born + 1
  BY <1>2 DEF PassOK
<1>4. PassOK'
  BY <1>1, <1>2, <1>3, <1>p DEF PassOK, TypeOK
<1>5. FrozenOK'
  <2>1. phase \in Frozen => /\ frozen \subseteq 1 .. born' /\ tids \subseteq 1 .. born'
                            /\ cursor <= born'
    BY <1>1, <1>2 DEF FrozenOK
  <2>2. phase \in Frozen => frozen \cap alive' \subseteq handles
    BY <1>1, <1>2 DEF FrozenOK
  <2>3. phase \in Frozen => handles \subseteq alive'
    BY <1>1 DEF FrozenOK
  <2> QED BY <1>p, <2>1, <2>2, <2>3 DEF FrozenOK
<1>6. MarkedOK'
  <2>1. phase # "idle" => refs'[passer] = refs[passer]
    BY <1>1, <1>2, <1>3, Constants DEF TypeOK
  <2>2. ASSUME phase \in {"walk", "release"}, NEW u \in handles
        PROVE  refs'[u] \cap regions \subseteq busy
    <3>1. u \in Threads /\ u # born + 1
      BY <1>2, <2>2 DEF FrozenOK, Frozen
    <3>2. refs'[u] = refs[u]
      BY <1>1, <3>1 DEF TypeOK
    <3> QED BY <2>2, <3>2 DEF MarkedOK
  <2> QED BY <1>p, <2>1, <2>2 DEF MarkedOK
<1>7. SeenOK'
  <2>1. phase = "walk" => \A m \in alive' : m <= cursor => m \in handles \cup {passer}
    BY <1>1, <1>2 DEF SeenOK, FrozenOK, Frozen
  <2>2. ~(phase = "release" /\ inspectedAll)
    BY <1>1, <1>2, RunningIsFree DEF SeenOK, Frozen
  <2> QED BY <1>p, <2>1, <2>2 DEF SeenOK
<1>8. NoUseAfterFree'
  <2>1. mem' = mem
    BY <1>1 DEF stubVars
  <2>2. ASSUME NEW u \in alive', NEW s \in refs'[u] PROVE mem[s] # "free"
    <3>1. CASE u = born + 1
      BY <1>1, <1>2, <2>2, <3>1 DEF NoUseAfterFree, TypeOK
    <3>2. CASE u # born + 1
      BY <1>1, <1>2, <2>2, <3>2 DEF NoUseAfterFree, TypeOK
    <3> QED BY <3>1, <3>2
  <2> QED BY <2>1, <2>2 DEF NoUseAfterFree
<1> QED BY <1>4, <1>5, <1>6, <1>7, <1>8

\* What the program does while a pass runs.
LEMMA ProcessStep ==
    ASSUME IInv, ReuseTids = FALSE, Process
    PROVE  PInv' /\ NoUseAfterFree'
<1> USE DEF IInv
<1>0. alive \subseteq Threads
  BY Constants DEF TypeOK
<1>1. ASSUME NEW t \in Threads, NEW s \in Stubs, register_codes(t, s) \/ retire(t, s)
      PROVE  PInv' /\ NoUseAfterFree'
  <2>1. UNCHANGED <<processVars, passVars>>
    BY <1>1 DEF register_codes, retire
  <2>2. PInv'
    BY <2>1, ProcessFrame DEF processVars
  <2>3. \A r \in Stubs : mem'[r] = "free" => mem[r] = "free"
    BY <1>1 DEF register_codes, retire, TypeOK
  <2>4. \A u \in alive : refs[u] \subseteq Stubs
    BY <1>0 DEF TypeOK
  <2>5. NoUseAfterFree'
    BY <2>1, <2>3, <2>4 DEF NoUseAfterFree, processVars
  <2> QED BY <2>2, <2>5
<1>2. ASSUME NEW t \in Threads, NEW s \in Stubs, enter(t, s)
      PROVE  PInv' /\ NoUseAfterFree'
  <2>1. /\ Running(t) /\ mem[s] = "used" /\ refs' = [refs EXCEPT ![t] = @ \cup {s}]
        /\ UNCHANGED <<born, alive, tid, passVars, mem>>
    BY <1>2 DEF enter, stubVars
  <2>2. PInv'
    BY <2>1, ProcessFrame DEF TypeOK
  <2>3. NoUseAfterFree'
    BY <2>1, <1>0 DEF NoUseAfterFree, TypeOK
  <2> QED BY <2>2, <2>3
<1>3. ASSUME NEW t \in Threads, NEW s \in Stubs, NEW u \in Threads, leave(t, s, u)
      PROVE  PInv' /\ NoUseAfterFree'
  <2>1. /\ Running(t) /\ Running(u) /\ s \in refs[t]
        /\ UNCHANGED <<born, alive, tid, passVars, mem>>
    BY <1>3 DEF leave, stubVars
  <2>2. \A v \in Threads : /\ v \notin {t, u} => refs'[v] = refs[v]
                           /\ refs'[v] \subseteq refs[v] \cup {s}
    BY <1>3 DEF leave, TypeOK
  <2>3. PInv'
    BY <2>1, <2>2, ProcessFrame
  <2>4. mem[s] # "free"
    BY <2>1 DEF NoUseAfterFree, Running
  <2>5. NoUseAfterFree'
    BY <2>1, <2>2, <2>4, <1>0 DEF NoUseAfterFree
  <2> QED BY <2>3, <2>5
<1>4. ASSUME NEW t \in Threads, NEW R \in SUBSET refs[t], spawn(t, R)
      PROVE  PInv' /\ NoUseAfterFree'
  BY <1>4, SpawnStep
<1>5. ASSUME NEW t \in Threads, exit(t)
      PROVE  PInv' /\ NoUseAfterFree'
  <2>1. /\ Running(t) /\ alive' = alive \ {t} /\ refs' = [refs EXCEPT ![t] = {}]
        /\ UNCHANGED <<born, tid, passVars, mem>>
    BY <1>5 DEF exit, stubVars
  <2>2. PInv'
    BY <2>1, ProcessFrame DEF TypeOK
  <2>3. NoUseAfterFree'
    BY <2>1, <1>0 DEF NoUseAfterFree, TypeOK
  <2> QED BY <2>2, <2>3
<1>6. ASSUME NEW t \in Threads, join(t)
      PROVE  PInv' /\ NoUseAfterFree'
  <2>1. UNCHANGED <<born, alive, tid, refs, passVars, mem>>
    BY <1>6 DEF join, stubVars
  <2> QED BY <2>1, ProcessFrame DEF NoUseAfterFree
<1> QED BY <1>1, <1>2, <1>3, <1>4, <1>5, <1>6 DEF Process

\* A pass starts outside of what it takes on.
LEMMA ReclaimStep ==
    ASSUME IInv, ReclaimOutside = TRUE, NEW p \in Threads, reclaim(p)
    PROVE  PInv' /\ NoUseAfterFree'
<1> USE DEF IInv, PInv
<1>1. /\ phase' = "begin" /\ passer' = p /\ p \in alive
      /\ refs[p] \cap quarantine = {} /\ regions' = quarantine
      /\ UNCHANGED <<alive, tid, refs, mem>>
  BY DEF reclaim, Running, processVars
<1>2. PassOK' /\ FrozenOK' /\ MarkedOK' /\ SeenOK'
  BY <1>1 DEF PassOK, FrozenOK, MarkedOK, SeenOK, Frozen
<1>3. NoUseAfterFree'
  BY <1>1 DEF NoUseAfterFree
<1> QED BY <1>2, <1>3

\* The steps of a pass up to the release leave the threads and the stubs alone.
LEMMA KeepsSafe ==
    ASSUME NoUseAfterFree, UNCHANGED <<alive, refs, mem>>
    PROVE  NoUseAfterFree'
BY DEF NoUseAfterFree

\* A pass takes the quarantine over and lists the threads.
LEMMA BeginStep ==
    ASSUME IInv, free_quiescent_regions
    PROVE  PInv' /\ NoUseAfterFree'
<1> USE DEF IInv, PInv
<1>1. /\ phase = "begin" /\ UNCHANGED <<processVars, stubVars, passer, regions>>
      /\ phase' \in {"settle", "freeze"}
      /\ phase' = "freeze" => /\ tids' \subseteq Enumerated(passer)
                              /\ handles' = {} /\ frozen' = {} /\ cursor' = 0
  BY DEF free_quiescent_regions
<1>2. Enumerated(passer) \subseteq 1 .. born /\ passer \notin Enumerated(passer)
  <2>1. \A t \in Listed : t \in Threads /\ tid[t] = t /\ t \in 1 .. born
    BY Constants DEF Listed, TypeOK, PassOK
  <2> QED BY <2>1 DEF Enumerated
<1>3. PassOK'
  BY <1>1, <1>2 DEF PassOK, Frozen, processVars
<1>4. FrozenOK'
  <2>1. 0 <= born
    BY Constants DEF TypeOK
  <2> QED BY <1>1, <1>2, <2>1 DEF FrozenOK, Frozen, processVars
<1>5. MarkedOK' /\ SeenOK'
  BY <1>1 DEF MarkedOK, SeenOK, processVars
<1>6. NoUseAfterFree'
  BY <1>1, KeepsSafe DEF processVars, stubVars
<1> QED BY <1>3, <1>4, <1>5, <1>6

\* A pass suspends the threads it has listed.
LEMMA FreezeStep ==
    ASSUME IInv, NEW t \in Threads, freeze(t) \/ freeze_exited(t)
    PROVE  PInv' /\ NoUseAfterFree'
<1> USE DEF IInv, PInv
<1>1. /\ phase = "freeze" /\ UNCHANGED <<born, alive, tid, refs, stubVars>>
      /\ UNCHANGED <<phase, passer, regions, cursor>>
  BY DEF freeze, freeze_exited, processVars
<1>2. /\ t \in tids /\ tids' \subseteq tids
      /\ \/ handles' = handles /\ frozen' = frozen
         \/ t \in alive /\ handles' = handles \cup {t} /\ frozen' = frozen \cup {t}
         \/ t \notin alive /\ handles' = handles /\ frozen' = frozen \cup {t}
  <2>1. \A u \in Threads : tid[u] = u
    BY DEF PassOK
  <2>2. CASE freeze(t)
    BY <2>1, <2>2 DEF freeze, Suspend
  <2>3. CASE freeze_exited(t)
    <3>1. t \notin alive
      BY <2>1, <2>3 DEF freeze_exited
    <3> QED BY <2>3, <3>1 DEF freeze_exited
  <2> QED BY <2>2, <2>3
<1>3. PassOK'
  BY <1>1, <1>2 DEF PassOK, Frozen
<1>4. FrozenOK'
  <2>1. t \in 1 .. born
    BY <1>1, <1>2 DEF FrozenOK, Frozen
  <2> QED BY <1>1, <1>2, <2>1 DEF FrozenOK, Frozen
<1>5. MarkedOK' /\ SeenOK'
  BY <1>1 DEF MarkedOK, SeenOK
<1>6. NoUseAfterFree'
  BY <1>1, KeepsSafe DEF stubVars
<1> QED BY <1>3, <1>4, <1>5, <1>6

\* The walk starts with nobody passed and everything marked.
LEMMA InspectStep ==
    ASSUME IInv, HasWalker = TRUE, inspect
    PROVE  PInv' /\ NoUseAfterFree'
<1> USE DEF IInv, PInv
<1>1. /\ phase = "freeze" /\ phase' = "walk" /\ UNCHANGED <<processVars, stubVars>>
      /\ UNCHANGED <<passer, regions, tids, handles, frozen, cursor>>
      /\ busy' = inspect_thread(handles)
  BY DEF inspect
<1>2. PassOK' /\ FrozenOK'
  BY <1>1 DEF PassOK, FrozenOK, Frozen, processVars
<1>3. MarkedOK'
  BY <1>1 DEF MarkedOK, inspect_thread, processVars
<1>4. SeenOK'
  <2>1. cursor = 0 /\ \A m \in alive : m \in Nat /\ m > 0
    BY <1>1, Constants DEF FrozenOK, TypeOK
  <2> QED BY <1>1, <2>1 DEF SeenOK, processVars
<1>5. NoUseAfterFree'
  BY <1>1, KeepsSafe DEF processVars, stubVars
<1> QED BY <1>2, <1>3, <1>4, <1>5

\* Between the cursor and the next thread in the list nobody lives.
LEMMA NothingSkipped ==
    ASSUME TypeOK, NEW n \in Threads, NextThread(n)
    PROVE  \A m \in alive : m <= n => m <= cursor \/ m = n
<1>1. cursor \in Nat /\ n \in Nat /\ \A m \in alive : m \in Nat /\ m \in Listed
  BY Constants DEF TypeOK, Listed
<1> QED BY <1>1 DEF NextThread

\* A pass walks the threads it has not listed.
LEMMA WalkStep ==
    ASSUME IInv, "walk" \notin Faults, Walk
    PROVE  PInv' /\ NoUseAfterFree'
<1> USE DEF IInv, PInv
<1>1. /\ phase = "walk" /\ phase' \in {"walk", "release"}
      /\ UNCHANGED <<born, alive, tid, refs, stubVars, passer, regions, tids>>
  BY DEF Walk, walk_end, walk_on, walk_failed, walk_suspend, Restarts, NextThread,
         processVars, scanVars
<1>2. NoUseAfterFree'
  BY <1>1, KeepsSafe DEF stubVars
<1>3. CASE walk_end
  <2>1. /\ phase' = "release" /\ UNCHANGED <<handles, frozen, cursor, busy>>
        /\ \A m \in alive : m <= cursor
    BY <1>3 DEF walk_end, scanVars, Listed
  <2>2. PassOK' /\ FrozenOK' /\ MarkedOK'
    BY <1>1, <2>1 DEF PassOK, FrozenOK, MarkedOK, Frozen
  <2>3. SeenOK'
    BY <1>1, <2>1 DEF SeenOK
  <2> QED BY <1>2, <2>2, <2>3
<1>4. ASSUME NEW n \in Threads, walk_on(n) PROVE PInv'
  <2>1. /\ NextThread(n) /\ tid[n] = n /\ cursor' = n /\ phase' = "walk"
        /\ UNCHANGED <<handles, busy>>
        /\ \/ n = passer /\ frozen' = frozen
           \/ n \in frozen /\ frozen' = frozen
           \/ n \notin alive /\ frozen' = frozen \cup {n}
    BY <1>1, <1>4 DEF walk_on, Known, PassOK
  <2>2. n \in 1 .. born
    BY <2>1 DEF NextThread, Listed, TypeOK
  <2>3. PassOK' /\ MarkedOK'
    BY <1>1, <2>1 DEF PassOK, MarkedOK, Frozen
  <2>4. FrozenOK'
    BY <1>1, <2>1, <2>2 DEF FrozenOK, Frozen
  <2>5. n \in alive => n \in handles \cup {passer}
    BY <1>1, <2>1 DEF FrozenOK, Frozen
  <2>6. SeenOK'
    BY <1>1, <2>1, <2>5, NothingSkipped DEF SeenOK
  <2> QED BY <2>3, <2>4, <2>6
<1>5. ASSUME NEW n \in Threads, walk_failed(n) PROVE PInv'
  <2>1. /\ inspectedAll' = FALSE /\ phase' = "release"
        /\ UNCHANGED <<handles, frozen, busy, cursor>>
    BY <1>5 DEF walk_failed
  <2>2. PassOK' /\ FrozenOK' /\ MarkedOK' /\ SeenOK'
    BY <1>1, <2>1 DEF PassOK, FrozenOK, MarkedOK, SeenOK, Frozen
  <2> QED BY <2>2
<1>6. ASSUME NEW n \in Threads, walk_suspend(n) PROVE PInv'
  <2>1. /\ NextThread(n) /\ tid[n] = n /\ n \in alive /\ n # passer
        /\ handles' = handles \cup {n} /\ frozen' = frozen \cup {n}
        /\ busy' = busy \cup inspect_thread({n})
        /\ \/ phase' = "walk" /\ cursor' = 0
           \/ phase' = "release" /\ inspectedAll' = FALSE /\ cursor' = cursor
    BY <1>1, <1>6 DEF walk_suspend, Suspend, Restarts, Known, PassOK
  <2>2. n \in 1 .. born /\ 0 <= born
    BY <2>1 DEF NextThread, Listed, TypeOK
  <2>3. PassOK'
    BY <1>1, <2>1 DEF PassOK, Frozen
  <2>4. FrozenOK'
    BY <1>1, <2>1, <2>2 DEF FrozenOK, Frozen
  <2>5. MarkedOK'
    BY <1>1, <2>1 DEF MarkedOK, inspect_thread
  <2>6. SeenOK'
    <3>1. \A m \in alive : m \in Nat /\ m > 0
      BY Constants DEF TypeOK
    <3> QED BY <1>1, <2>1, <3>1 DEF SeenOK
  <2> QED BY <2>3, <2>4, <2>5, <2>6
<1> QED BY <1>2, <1>3, <1>4, <1>5, <1>6 DEF Walk

\* What is released is referenced by nobody.
LEMMA ReleaseStep ==
    ASSUME IInv, release
    PROVE  PInv' /\ NoUseAfterFree'
<1> USE DEF IInv, PInv
<1>1. /\ phase = "release" /\ phase' = "settle"
      /\ mem' = [s \in Stubs |-> IF s \in Quiescent THEN "free" ELSE mem[s]]
      /\ UNCHANGED <<alive, tid, refs, passer, regions>>
  BY DEF release
<1>2. PassOK' /\ FrozenOK' /\ MarkedOK' /\ SeenOK'
  BY <1>1 DEF PassOK, FrozenOK, MarkedOK, SeenOK, Frozen
<1>3. ASSUME NEW t \in alive, NEW s \in refs[t] PROVE s \in Stubs /\ s \notin Quiescent
  <2>1. s \in Stubs
    BY Constants DEF TypeOK
  <2>2. ASSUME s \in Quiescent PROVE FALSE
    <3>1. inspectedAll /\ s \in regions /\ s \notin busy
      BY <2>2 DEF Quiescent
    <3>2. CASE t = passer
      BY <1>1, <3>1, <3>2 DEF MarkedOK
    <3>3. CASE t \in handles
      BY <1>1, <3>1, <3>3 DEF MarkedOK
    <3> QED BY <1>1, <3>1, <3>2, <3>3 DEF SeenOK
  <2> QED BY <2>1, <2>2
<1>4. NoUseAfterFree'
  BY <1>1, <1>3 DEF NoUseAfterFree
<1> QED BY <1>2, <1>4

\* A pass ends.
LEMMA EndStep ==
    ASSUME IInv, reclaim_end
    PROVE  PInv' /\ NoUseAfterFree'
<1> USE DEF IInv, PInv
<1>1. phase' = "idle" /\ UNCHANGED <<processVars, mem>>
  BY DEF reclaim_end
<1>2. PassOK' /\ FrozenOK' /\ MarkedOK' /\ SeenOK'
  BY <1>1 DEF PassOK, FrozenOK, MarkedOK, SeenOK, Frozen, processVars
<1>3. NoUseAfterFree'
  BY <1>1, KeepsSafe DEF processVars
<1> QED BY <1>2, <1>3

(***************************************************************************)
(* A stub is released only when no thread has it in its registers or on    *)
(* its stack (free_quiescent_regions, catch_up_new_threads), whatever      *)
(* threads are started, exit, or hand on what they run while the pass      *)
(* suspends them one by one, and whatever else is refused.  It rests on    *)
(* conditions the code does not establish: the thread list can be walked   *)
(* to its end, ids are not reused, and no pass is started from inside a    *)
(* stub.                                                                   *)
(***************************************************************************)
THEOREM ReleasesNoStubInUse ==
    ASSUME HasWalker = TRUE, "walk" \notin Faults, ReuseTids = FALSE, ReclaimOutside = TRUE
    PROVE  Spec => []NoUseAfterFree
<1>1. Init => IInv
  <2> SUFFICES ASSUME Init PROVE IInv OBVIOUS
  <2>1. TypeOK
    BY InitType
  <2>2. SuspendedOK /\ PassOK /\ FrozenOK /\ MarkedOK /\ SeenOK
    BY DEF Init, SuspendedOK, PassOK, FrozenOK, MarkedOK, SeenOK, Frozen
  <2>3. NoUseAfterFree
    BY Constants DEF Init, NoUseAfterFree
  <2> QED BY <2>1, <2>2, <2>3 DEF IInv, PInv
<1>2. IInv /\ [Next]_vars => IInv'
  <2> SUFFICES ASSUME IInv, [Next]_vars PROVE IInv' OBVIOUS
  <2>1. TypeOK' /\ SuspendedOK'
    BY TypeStep, SuspendedStep DEF IInv
  <2>2. CASE Process
    BY <2>1, <2>2, ProcessStep DEF IInv
  <2>3. CASE free_quiescent_regions
    BY <2>1, <2>3, BeginStep DEF IInv
  <2>4. CASE \E t \in Threads : freeze(t) \/ freeze_exited(t)
    BY <2>1, <2>4, FreezeStep DEF IInv
  <2>5. CASE inspect
    BY <2>1, <2>5, InspectStep DEF IInv
  <2>6. CASE Walk
    BY <2>1, <2>6, WalkStep DEF IInv
  <2>7. CASE release
    BY <2>1, <2>7, ReleaseStep DEF IInv
  <2>8. CASE reclaim_end
    BY <2>1, <2>8, EndStep DEF IInv
  <2>9. CASE \E p \in Threads : reclaim(p)
    BY <2>1, <2>9, ReclaimStep DEF IInv
  <2>10. CASE UNCHANGED vars
    <3>1. PInv'
      BY <2>10, ProcessFrame DEF vars, processVars, IInv
    <3>2. NoUseAfterFree'
      BY <2>10, KeepsSafe DEF vars, processVars, stubVars, IInv
    <3> QED BY <2>1, <3>1, <3>2 DEF IInv
  <2> QED BY <2>2, <2>3, <2>4, <2>5, <2>6, <2>7, <2>8, <2>9, <2>10 DEF Next, Pass
<1>3. IInv => NoUseAfterFree
  BY DEF IInv
<1> QED BY <1>1, <1>2, <1>3, PTL DEF Spec

-----------------------------------------------------------------------------
(***************************************************************************)
(* The page protections, for any number of threads and pages and any size  *)
(* of a batch.                                                             *)
(*                                                                         *)
(* The argument: the code lock admits one write at a time, and a write     *)
(* knows of each page it has changed in its batch what it held before.     *)
(***************************************************************************)

Pcs == {"idle", "change", "copy", "restore", "next", "undo"}

\* A write in progress, and the pages of its batch that it has made writable.
Busy(t) == pc[t] # "idle"
Count(t) == Len(saved[t])
ChangedPage(t, p) == p >= chunk[t] /\ p < chunk[t] + Count(t)

\* Every variable keeps its type.
WriteTypeOK ==
    /\ orig \in [Pages -> Prots] /\ prot \in [Pages -> Prots]
    /\ data \in [Pages -> Writers \cup {"program"}]
    /\ pc \in [Writers -> Pcs]
    /\ job \in [Writers -> [kind : {"none", "patch", "import", "vtable", "export"},
                            first : Nat, last : Nat, prev : Writers \cup {"program"}]]
    /\ chunk \in [Writers -> Nat]
    /\ saved \in [Writers -> Seq(Prots)]
    /\ owner \in Writers \cup {"free"}

\* Only the owner of the code lock writes.
LockOK == \A t \in Writers : Busy(t) => owner = t

\* A batch lies in the pages of its write, a slot in one page.
JobOK ==
    \A t \in Writers : Busy(t) =>
        /\ job[t].kind # "none"
        /\ job[t].first \in Pages /\ job[t].last \in Pages
        /\ job[t].first <= chunk[t] /\ chunk[t] <= job[t].last
        /\ job[t].kind # "patch" => job[t].first = job[t].last

\* No more pages are saved than the batch has, all of them once it is copied.
CountOK ==
    \A t \in Writers : Busy(t) =>
        /\ chunk[t] + Count(t) <= BatchEnd(t) + 1
        /\ pc[t] \in {"copy", "restore"} => chunk[t] + Count(t) = BatchEnd(t) + 1

\* Whatever is refused: a page never loses its execute permission, neither in memory nor
\* among the saved protections, and the changed pages of a batch are writable.
ExecuteOK ==
    /\ \A p \in Pages : "X" \in orig[p] => "X" \in prot[p]
    /\ \A t \in Writers, p \in Pages :
          Busy(t) /\ ChangedPage(t, p) /\ "X" \in orig[p] => "X" \in saved[t][p - chunk[t] + 1]
    /\ \A t \in Writers, p \in Pages :
          pc[t] \in {"change", "copy"} /\ ChangedPage(t, p) => "W" \in prot[p]

WInv == LockOK /\ JobOK /\ CountOK /\ ExecuteOK

\* The saved protections are the program's, and the pages that are not changed have theirs.
SavedOK ==
    \A t \in Writers, p \in Pages : Busy(t) /\ ChangedPage(t, p) =>
        saved[t][p - chunk[t] + 1] = orig[p]
HeldBack ==
    \A p \in Pages :
        (\A t \in Writers : pc[t] \in {"idle", "next"} \/ ~ChangedPage(t, p))
            => prot[p] = orig[p]

WritePInv == SavedOK /\ HeldBack

-----------------------------------------------------------------------------
(***************************************************************************)
(* Types                                                                   *)
(***************************************************************************)

\* What the constants are, for the leaves below.
LEMMA WriteConstants ==
    /\ NumPages \in Nat /\ MAX_BATCH_PAGES \in Nat /\ MAX_BATCH_PAGES >= 1
    /\ "free" \notin Writers
    /\ \A p : p \in Pages <=> p \in Nat /\ 1 <= p /\ p <= NumPages
BY PageWritesAssumption DEF Pages

\* A page made writable keeps its execute permission.
LEMMA Lifted ==
    ASSUME NEW old \in Prots
    PROVE  LET new == AdjustExecute(old, {"R", "W"})
           IN  new \in Prots /\ "W" \in new /\ ("X" \in old => "X" \in new)
<1>1. CASE "X" \in old
  <2>1. AdjustExecute(old, {"R", "W"}) = {"R", "W", "X"}
    BY <1>1 DEF AdjustExecute
  <2> QED BY <2>1 DEF Prots
<1>2. CASE "X" \notin old
  <2>1. AdjustExecute(old, {"R", "W"}) = {"R", "W"}
    BY <1>2 DEF AdjustExecute
  <2> QED BY <1>2, <2>1 DEF Prots
<1> QED BY <1>1, <1>2

\* Restoring gives the changed pages what was saved, and nothing to the others.
LEMMA RestoredPages ==
    ASSUME WriteTypeOK, NEW t \in Writers
    PROVE  /\ Restored(t) \in [Pages -> Prots]
           /\ \A p \in Pages : Restored(t)[p] =
                 IF ChangedPage(t, p) THEN saved[t][p - chunk[t] + 1] ELSE prot[p]
<1>1. /\ saved[t] \in Seq(Prots) /\ chunk[t] \in Nat /\ Count(t) \in Nat
      /\ DOMAIN saved[t] = 1 .. Count(t)
      /\ \A i \in 1 .. Count(t) : saved[t][i] \in Prots
      /\ \A p \in Pages : prot[p] \in Prots
  BY DEF WriteTypeOK, Count
<1>2. ASSUME NEW p \in Pages PROVE p - chunk[t] + 1 \in DOMAIN saved[t] <=> ChangedPage(t, p)
  BY <1>1, WriteConstants DEF ChangedPage
<1>3. \A p \in Pages : Restored(t)[p] =
          IF ChangedPage(t, p) THEN saved[t][p - chunk[t] + 1] ELSE prot[p]
  BY <1>2 DEF Restored
<1>4. \A p \in Pages : Restored(t)[p] \in Prots
  BY <1>1, <1>2, <1>3
<1>5. Restored(t) \in [Pages -> Prots]
  BY <1>4 DEF Restored
<1> QED BY <1>3, <1>5

\* A batch ends inside its write.
LEMMA BatchBounds ==
    ASSUME WriteTypeOK, JobOK, NEW t \in Writers, Busy(t)
    PROVE  /\ BatchEnd(t) \in Pages /\ chunk[t] \in Pages
           /\ chunk[t] <= BatchEnd(t) /\ BatchEnd(t) <= job[t].last
           /\ job[t].last <= NumPages
           /\ Cardinality(Batch(t)) = BatchEnd(t) - chunk[t] + 1
<1>1. /\ BatchEnd(t) \in Pages /\ chunk[t] \in Pages
      /\ chunk[t] <= BatchEnd(t) /\ BatchEnd(t) <= job[t].last
      /\ job[t].last <= NumPages
  <2>1. /\ chunk[t] \in Nat /\ job[t].last \in Pages /\ job[t].first \in Pages
        /\ job[t].first <= chunk[t] /\ chunk[t] <= job[t].last
    BY DEF WriteTypeOK, JobOK
  <2>2. /\ job[t].last \in Nat /\ job[t].last <= NumPages /\ 1 <= chunk[t]
        /\ chunk[t] <= NumPages
    BY <2>1, WriteConstants
  <2>3. \/ BatchEnd(t) = job[t].last
        \/ BatchEnd(t) = chunk[t] + MAX_BATCH_PAGES - 1 /\ BatchEnd(t) < job[t].last
    BY DEF BatchEnd
  <2>4. BatchEnd(t) \in Nat /\ chunk[t] <= BatchEnd(t) /\ BatchEnd(t) <= job[t].last
    BY <2>1, <2>2, <2>3, WriteConstants
  <2> QED BY <2>1, <2>2, <2>4, WriteConstants
<1>2. Cardinality(Batch(t)) = BatchEnd(t) - chunk[t] + 1
  <2>1. chunk[t] \in Int /\ BatchEnd(t) \in Int /\ ~(chunk[t] > BatchEnd(t))
    BY <1>1, WriteConstants
  <2> QED BY <2>1, FS_Interval DEF Batch
<1> QED BY <1>1, <1>2

-----------------------------------------------------------------------------
(***************************************************************************)
(* Each step                                                               *)
(***************************************************************************)

\* While t writes, the others are idle.
LEMMA Alone ==
    ASSUME LockOK, NEW t \in Writers, Busy(t) \/ owner = "free"
    PROVE  \A u \in Writers : u # t => pc[u] = "idle"
BY WriteConstants DEF LockOK, Busy

\* The write of a patch or of a slot begins.
LEMMA WriteStep ==
    ASSUME WriteTypeOK, WInv, NEW t \in Writers,
           NEW kind \in {"patch", "import", "vtable", "export"},
           NEW first \in Pages, NEW last \in Pages, first <= last,
           kind # "patch" => first = last, write(t, kind, first, last)
    PROVE  WriteTypeOK' /\ WInv' /\ (WritePInv => WritePInv')
<1> USE DEF write, with_code_lock
<1>1. WriteTypeOK'
  BY WriteConstants DEF WriteTypeOK, Pcs
<1>2. \A u \in Writers : u # t => pc[u] = "idle" /\ pc'[u] = "idle"
  BY Alone DEF WInv, WriteTypeOK
<1>3. /\ pc[t] = "idle" /\ pc'[t] = "change" /\ owner' = t
      /\ chunk'[t] = first /\ saved'[t] = << >> /\ Count(t)' = 0
      /\ job'[t].kind = kind /\ job'[t].first = first /\ job'[t].last = last
      /\ UNCHANGED <<orig, prot>>
  BY DEF WriteTypeOK, Count
<1>4. LockOK' /\ JobOK'
  BY <1>2, <1>3, WriteConstants DEF LockOK, JobOK, Busy
<1>5. CountOK'
  <2>1. BatchEnd(t)' = IF first + MAX_BATCH_PAGES - 1 < last
                       THEN first + MAX_BATCH_PAGES - 1 ELSE last
    BY <1>3 DEF BatchEnd
  <2> QED BY <1>2, <1>3, <2>1, WriteConstants DEF CountOK, Busy
<1>6. \A u \in Writers, p \in Pages : Busy(u)' => ~ChangedPage(u, p)'
  BY <1>2, <1>3, WriteConstants DEF Busy, ChangedPage
<1>7. ExecuteOK'
  BY <1>3, <1>6 DEF WInv, ExecuteOK, Busy
<1>8. WritePInv => WritePInv'
  BY <1>2, <1>3, <1>6 DEF WritePInv, SavedOK, HeldBack, Busy
<1> QED BY <1>1, <1>4, <1>5, <1>7, <1>8 DEF WInv

\* One page is made writable, or refused.
LEMMA ChangeStep ==
    ASSUME WriteTypeOK, WInv, NEW t \in Writers, change(t)
    PROVE  WriteTypeOK' /\ WInv' /\ (WritePInv => WritePInv')
<1> DEFINE page == chunk[t] + Count(t)
<1>1. /\ pc[t] = "change" /\ Busy(t) /\ page \in Batch(t)
      /\ UNCHANGED <<orig, data, job, chunk, owner>>
  BY DEF change, Busy, Count
<1>2. /\ chunk[t] \in Nat /\ Count(t) \in Nat /\ saved[t] \in Seq(Prots)
      /\ \A p \in Pages : prot[p] \in Prots
  BY DEF WriteTypeOK, Count
<1>3. page \in Pages /\ page <= BatchEnd(t) /\ BatchEnd(t) \in Nat
  BY <1>1, <1>2, BatchBounds, WriteConstants DEF WInv, Batch
<1>4. \A u \in Writers : u # t => pc[u] = "idle"
  BY <1>1, Alone DEF WInv
<1>5. \A u \in Writers : BatchEnd(u)' = BatchEnd(u)
  BY <1>1 DEF BatchEnd
<1>6. CASE /\ saved' = [saved EXCEPT ![t] = Append(@, prot[page])]
           /\ prot' = [prot EXCEPT ![page] = AdjustExecute(@, {"R", "W"})]
           /\ UNCHANGED pc
  <2>1. /\ prot' \in [Pages -> Prots] /\ saved' \in [Writers -> Seq(Prots)]
        /\ prot'[page] = AdjustExecute(prot[page], {"R", "W"})
        /\ \A p \in Pages : p # page => prot'[p] = prot[p]
    BY <1>2, <1>3, <1>6, Lifted DEF WriteTypeOK
  <2>2. "W" \in prot'[page] /\ ("X" \in prot[page] => "X" \in prot'[page])
    BY <1>2, <1>3, <2>1, Lifted
  <2>3. WriteTypeOK'
    BY <1>1, <1>6, <2>1 DEF WriteTypeOK
  <2>4. /\ saved'[t] = Append(saved[t], prot[page]) /\ Count(t)' = Count(t) + 1
        /\ \A i \in 1 .. Count(t) : saved'[t][i] = saved[t][i]
        /\ saved'[t][Count(t) + 1] = prot[page]
    BY <1>2, <1>3, <1>6 DEF WriteTypeOK, Count
  <2>5. \A p \in Pages : ChangedPage(t, p)' <=> ChangedPage(t, p) \/ p = page
    <3> SUFFICES ASSUME NEW p \in Pages
                 PROVE  p >= chunk[t] /\ p < chunk[t] + (Count(t) + 1)
                        <=> (p >= chunk[t] /\ p < chunk[t] + Count(t)) \/ p = page
      BY <1>1, <2>4 DEF ChangedPage
    <3> QED BY <1>2, WriteConstants
  <2>6. /\ \A p \in Pages : ChangedPage(t, p) =>
              saved'[t][p - chunk[t] + 1] = saved[t][p - chunk[t] + 1]
        /\ saved'[t][page - chunk[t] + 1] = prot[page]
    <3>1. ASSUME NEW p \in Pages, ChangedPage(t, p) PROVE p - chunk[t] + 1 \in 1 .. Count(t)
      BY <3>1, <1>2, WriteConstants DEF ChangedPage
    <3>2. page - chunk[t] + 1 = Count(t) + 1
      BY <1>2
    <3> QED BY <2>4, <3>1, <3>2
  <2>7. LockOK' /\ JobOK'
    BY <1>1, <1>6 DEF WInv, LockOK, JobOK, Busy
  <2>8. CountOK'
    <3>1. chunk[t] + Count(t)' <= BatchEnd(t) + 1
      BY <1>2, <1>3, <2>4
    <3> QED BY <1>1, <1>4, <1>5, <1>6, <3>1 DEF CountOK, Busy
  <2>9. ExecuteOK'
    <3>1. \A p \in Pages : "X" \in orig[p] => "X" \in prot[p]
      BY DEF WInv, ExecuteOK
    <3>2. \A p \in Pages : "X" \in orig[p]' => "X" \in prot'[p]
      BY <1>1, <2>1, <2>2, <3>1
    <3>3. ASSUME NEW p \in Pages, ChangedPage(t, p)', "X" \in orig[p]
          PROVE  "X" \in saved'[t][p - chunk[t] + 1]
      BY <1>1, <2>5, <2>6, <3>1, <3>3 DEF WInv, ExecuteOK
    <3>4. ASSUME NEW p \in Pages, ChangedPage(t, p)' PROVE "W" \in prot'[p]
      BY <1>1, <2>1, <2>2, <2>5, <3>4 DEF WInv, ExecuteOK
    <3> QED BY <1>1, <1>4, <1>6, <3>2, <3>3, <3>4 DEF ExecuteOK, Busy
  <2>10. ASSUME WritePInv PROVE WritePInv'
    <3>1. ~ChangedPage(t, page)
      BY <1>2 DEF ChangedPage
    <3>2. prot[page] = orig[page]
      BY <1>3, <1>4, <2>10, <3>1 DEF WritePInv, HeldBack
    <3>3. SavedOK'
      BY <1>1, <1>4, <1>6, <2>5, <2>6, <2>10, <3>2 DEF WritePInv, SavedOK, Busy
    <3>4. HeldBack'
      <4> SUFFICES ASSUME NEW p \in Pages, ~ChangedPage(t, p)' PROVE prot'[p] = orig[p]
        BY <1>1, <1>6 DEF HeldBack
      <4> QED BY <1>4, <2>1, <2>5, <2>10 DEF WritePInv, HeldBack
    <3> QED BY <3>3, <3>4 DEF WritePInv
  <2> QED BY <2>3, <2>7, <2>8, <2>9, <2>10 DEF WInv
<1>7. CASE pc' = [pc EXCEPT ![t] = "undo"] /\ UNCHANGED <<saved, prot>>
  <2>1. pc'[t] = "undo" /\ \A u \in Writers : u # t => pc'[u] = pc[u]
    BY <1>7 DEF WriteTypeOK
  <2>2. WriteTypeOK'
    BY <1>1, <1>7 DEF WriteTypeOK, Pcs
  <2>3. \A u \in Writers : /\ Busy(u)' = Busy(u) /\ Count(u)' = Count(u)
                            /\ \A p \in Pages : ChangedPage(u, p)' = ChangedPage(u, p)
    BY <1>1, <1>7, <2>1 DEF Busy, Count, ChangedPage
  <2>4. LockOK' /\ JobOK'
    BY <1>1, <2>3 DEF WInv, LockOK, JobOK
  <2>5. CountOK'
    BY <1>1, <1>5, <2>1, <2>3 DEF WInv, CountOK
  <2>6. ExecuteOK'
    BY <1>1, <1>7, <2>1, <2>3 DEF WInv, ExecuteOK
  <2>7. WritePInv => WritePInv'
    BY <1>1, <1>7, <2>1, <2>3 DEF WritePInv, SavedOK, HeldBack
  <2> QED BY <2>2, <2>4, <2>5, <2>6, <2>7 DEF WInv
<1> QED BY <1>6, <1>7 DEF change, Count

\* Every page of the batch is writable.
LEMMA ChangedStep ==
    ASSUME WriteTypeOK, WInv, NEW t \in Writers, changed(t)
    PROVE  WriteTypeOK' /\ WInv' /\ (WritePInv => WritePInv')
<1>1. /\ pc[t] = "change" /\ Busy(t) /\ Count(t) = Cardinality(Batch(t))
      /\ UNCHANGED <<orig, prot, data, job, chunk, saved, owner>>
      /\ pc'[t] = "copy" /\ \A u \in Writers : u # t => pc'[u] = pc[u]
  BY DEF changed, Busy, Count, WriteTypeOK
<1>2. WriteTypeOK'
  BY DEF WriteTypeOK, changed, Pcs
<1>3. \A u \in Writers : /\ Busy(u)' = Busy(u) /\ Count(u)' = Count(u)
                          /\ BatchEnd(u)' = BatchEnd(u)
                          /\ \A p \in Pages : ChangedPage(u, p)' = ChangedPage(u, p)
  BY <1>1 DEF Busy, Count, ChangedPage, BatchEnd
<1>4. LockOK' /\ JobOK'
  BY <1>1, <1>3 DEF WInv, LockOK, JobOK
<1>5. CountOK'
  <2>1. chunk[t] + Count(t) = BatchEnd(t) + 1
    <3>1. /\ Count(t) = BatchEnd(t) - chunk[t] + 1
          /\ chunk[t] \in Pages /\ BatchEnd(t) \in Pages
      BY <1>1, BatchBounds DEF WInv
    <3> QED BY <3>1, WriteConstants
  <2> QED BY <1>1, <1>3, <2>1 DEF WInv, CountOK
<1>6. ExecuteOK'
  BY <1>1, <1>3 DEF WInv, ExecuteOK
<1>7. WritePInv => WritePInv'
  BY <1>1, <1>3 DEF WritePInv, SavedOK, HeldBack
<1> QED BY <1>2, <1>4, <1>5, <1>6, <1>7 DEF WInv

\* The bytes are copied.
LEMMA CopyStep ==
    ASSUME WriteTypeOK, WInv, NEW t \in Writers, copy(t)
    PROVE  WriteTypeOK' /\ WInv' /\ (WritePInv => WritePInv')
<1>1. /\ pc[t] = "copy" /\ UNCHANGED <<orig, prot, job, chunk, saved, owner>>
      /\ pc'[t] = "restore" /\ \A u \in Writers : u # t => pc'[u] = pc[u]
  BY DEF copy, WriteTypeOK
<1>2. WriteTypeOK'
  BY DEF WriteTypeOK, copy, Pcs
<1>3. \A u \in Writers : /\ Busy(u)' = Busy(u) /\ Count(u)' = Count(u)
                          /\ BatchEnd(u)' = BatchEnd(u)
                          /\ \A p \in Pages : ChangedPage(u, p)' = ChangedPage(u, p)
  BY <1>1 DEF Busy, Count, ChangedPage, BatchEnd
<1>4. LockOK' /\ JobOK'
  BY <1>1, <1>3 DEF WInv, LockOK, JobOK
<1>5. CountOK'
  BY <1>1, <1>3 DEF WInv, CountOK
<1>6. ExecuteOK'
  BY <1>1, <1>3 DEF WInv, ExecuteOK
<1>7. WritePInv => WritePInv'
  BY <1>1, <1>3 DEF WritePInv, SavedOK, HeldBack
<1> QED BY <1>2, <1>4, <1>5, <1>6, <1>7 DEF WInv

\* The protections go back, or stay lifted where the system refuses.
LEMMA RestoreStep ==
    ASSUME WriteTypeOK, WInv, NEW t \in Writers, restore(t)
    PROVE  WriteTypeOK' /\ WInv' /\ ("restore" \notin Refusals /\ WritePInv => WritePInv')
<1>1. /\ pc[t] = "restore" /\ Busy(t) /\ UNCHANGED <<orig, job, chunk, saved, owner>>
      /\ pc'[t] = "next" /\ \A u \in Writers : u # t => pc'[u] = pc[u]
      /\ prot' = prot \/ prot' = Restored(t)
      /\ data' = data \/ data' = [data EXCEPT ![job[t].first] = job[t].prev]
  BY DEF restore, WriteTypeOK, Busy
<1>2. "restore" \notin Refusals => prot' = Restored(t)
  BY DEF restore
<1>3. /\ Restored(t) \in [Pages -> Prots]
      /\ \A p \in Pages : Restored(t)[p] =
            IF ChangedPage(t, p) THEN saved[t][p - chunk[t] + 1] ELSE prot[p]
  BY RestoredPages
<1>4. WriteTypeOK'
  <2>1. prot' \in [Pages -> Prots] /\ data' \in [Pages -> Writers \cup {"program"}]
    BY <1>1, <1>3 DEF WriteTypeOK
  <2>2. pc' \in [Writers -> Pcs]
    BY DEF WriteTypeOK, restore, Pcs
  <2> QED BY <1>1, <2>1, <2>2 DEF WriteTypeOK
<1>5. \A u \in Writers : /\ Busy(u)' = Busy(u) /\ Count(u)' = Count(u)
                          /\ BatchEnd(u)' = BatchEnd(u)
                          /\ \A p \in Pages : ChangedPage(u, p)' = ChangedPage(u, p)
  BY <1>1 DEF Busy, Count, ChangedPage, BatchEnd
<1>6. \A u \in Writers : u # t => pc[u] = "idle"
  BY <1>1, Alone DEF WInv
<1>7. LockOK' /\ JobOK'
  BY <1>1, <1>5 DEF WInv, LockOK, JobOK
<1>8. CountOK'
  BY <1>1, <1>5 DEF WInv, CountOK
<1>9. ExecuteOK'
  <2>1. \A p \in Pages : "X" \in orig[p] => "X" \in prot'[p]
    BY <1>1, <1>3 DEF WInv, ExecuteOK
  <2>2. \A u \in Writers : pc'[u] \notin {"change", "copy"}
    BY <1>1, <1>6
  <2> QED BY <1>1, <1>5, <2>1, <2>2 DEF WInv, ExecuteOK
<1>10. ASSUME "restore" \notin Refusals, WritePInv PROVE WritePInv'
  <2>1. \A p \in Pages : prot'[p] = orig[p]
    BY <1>1, <1>2, <1>3, <1>6, <1>10 DEF WritePInv, SavedOK, HeldBack
  <2> QED BY <1>1, <1>5, <1>10, <2>1 DEF WritePInv, SavedOK, HeldBack
<1> QED BY <1>4, <1>7, <1>8, <1>9, <1>10 DEF WInv

\* The next batch begins where this one ended.
LEMMA NextBatchStep ==
    ASSUME WriteTypeOK, WInv, NEW t \in Writers, next_batch(t)
    PROVE  WriteTypeOK' /\ WInv' /\ (WritePInv => WritePInv')
<1>1. /\ pc[t] = "next" /\ Busy(t) /\ UNCHANGED <<orig, prot, data, job, owner>>
      /\ pc'[t] = "change" /\ chunk'[t] = BatchEnd(t) + 1 /\ saved'[t] = << >>
      /\ BatchEnd(t) < job[t].last
      /\ \A u \in Writers : u # t => pc'[u] = pc[u]
  BY DEF next_batch, WriteTypeOK, Busy
<1>2. /\ BatchEnd(t) \in Nat /\ chunk[t] \in Nat /\ chunk[t] <= BatchEnd(t)
      /\ job[t].last \in Nat /\ job[t].first \in Nat
      /\ job[t].first <= chunk[t]
  <2>1. BatchEnd(t) \in Pages /\ chunk[t] \in Pages /\ chunk[t] <= BatchEnd(t)
    BY <1>1, BatchBounds DEF WInv
  <2> QED BY <1>1, <2>1, WriteConstants DEF WInv, JobOK
<1>3. WriteTypeOK'
  <2>1. chunk' \in [Writers -> Nat] /\ saved' \in [Writers -> Seq(Prots)]
    BY <1>2 DEF next_batch, WriteTypeOK
  <2>2. pc' \in [Writers -> Pcs]
    BY DEF next_batch, WriteTypeOK, Pcs
  <2> QED BY <1>1, <2>1, <2>2 DEF WriteTypeOK
<1>4. \A u \in Writers : u # t => pc[u] = "idle" /\ pc'[u] = "idle"
  BY <1>1, Alone DEF WInv
<1>5. Count(t)' = 0
  BY <1>1 DEF Count
<1>6. LockOK' /\ JobOK'
  <2>1. LockOK'
    BY <1>1, <1>4 DEF WInv, LockOK, Busy
  <2>2. /\ job'[t] = job[t] /\ job[t].first <= chunk'[t] /\ chunk'[t] <= job[t].last
    BY <1>1, <1>2
  <2>3. JobOK'
    BY <1>1, <1>4, <2>2 DEF WInv, JobOK, Busy
  <2> QED BY <2>1, <2>3
<1>7. CountOK'
  <2>1. \/ BatchEnd(t)' = job[t].last
        \/ BatchEnd(t)' = BatchEnd(t) + 1 + MAX_BATCH_PAGES - 1
    BY <1>1 DEF BatchEnd
  <2>2. chunk'[t] + 0 <= BatchEnd(t)' + 1
    BY <1>1, <1>2, <2>1, WriteConstants
  <2> QED BY <1>1, <1>4, <1>5, <2>2 DEF CountOK, Busy
<1>8. \A u \in Writers, p \in Pages : Busy(u)' => ~ChangedPage(u, p)'
  <2>1. \A p \in Pages : ~ChangedPage(t, p)'
    BY <1>1, <1>2, <1>5, WriteConstants DEF ChangedPage
  <2> QED BY <1>4, <2>1 DEF Busy
<1>9. ExecuteOK'
  BY <1>1, <1>8 DEF WInv, ExecuteOK, Busy
<1>10. WritePInv => WritePInv'
  BY <1>1, <1>4, <1>8 DEF WritePInv, SavedOK, HeldBack, Busy
<1> QED BY <1>3, <1>6, <1>7, <1>9, <1>10 DEF WInv

\* The write ends, with the protections restored before or now.
LEMMA FinishStep ==
    ASSUME WriteTypeOK, WInv, NEW t \in Writers, written(t) \/ undo(t)
    PROVE  WriteTypeOK' /\ WInv' /\ (WritePInv => WritePInv')
<1>1. /\ Busy(t) /\ Finish(t) /\ UNCHANGED <<orig, data>>
      /\ \/ pc[t] = "next" /\ prot' = prot
         \/ prot' = Restored(t)
  BY DEF written, undo, Busy
<1>2. \A u \in Writers : u # t => pc[u] = "idle"
  BY <1>1, Alone DEF WInv
<1>3. \A u \in Writers : pc'[u] = "idle"
  BY <1>1, <1>2 DEF Finish, WriteTypeOK
<1>4. /\ Restored(t) \in [Pages -> Prots]
      /\ \A p \in Pages : Restored(t)[p] =
            IF ChangedPage(t, p) THEN saved[t][p - chunk[t] + 1] ELSE prot[p]
  BY RestoredPages
<1>5. WriteTypeOK'
  <2>1. prot' \in [Pages -> Prots] /\ orig' = orig /\ data' = data
    BY <1>1, <1>4 DEF WriteTypeOK
  <2>2. /\ pc' \in [Writers -> Pcs] /\ chunk' \in [Writers -> Nat]
        /\ saved' \in [Writers -> Seq(Prots)] /\ owner' \in Writers \cup {"free"}
    BY <1>1 DEF Finish, WriteTypeOK, Pcs
  <2>3. job' \in [Writers -> [kind : {"none", "patch", "import", "vtable", "export"},
                            first : Nat, last : Nat, prev : Writers \cup {"program"}]]
    BY <1>1 DEF Finish, WriteTypeOK, NoJob
  <2> QED BY <2>1, <2>2, <2>3 DEF WriteTypeOK
<1>6. LockOK' /\ JobOK' /\ CountOK'
  BY <1>3 DEF LockOK, JobOK, CountOK, Busy
<1>7. ExecuteOK'
  <2>1. \A p \in Pages : "X" \in orig[p] => "X" \in prot'[p]
    BY <1>1, <1>4 DEF WInv, ExecuteOK
  <2> QED BY <1>1, <1>3, <2>1 DEF ExecuteOK, Busy
<1>8. ASSUME WritePInv PROVE WritePInv'
  <2>1. \A p \in Pages : prot'[p] = orig[p]
    <3>1. CASE pc[t] = "next" /\ prot' = prot
      BY <1>2, <1>8, <3>1 DEF WritePInv, HeldBack
    <3>2. CASE prot' = Restored(t)
      BY <1>1, <1>2, <1>4, <1>8, <3>2 DEF WritePInv, SavedOK, HeldBack
    <3> QED BY <1>1, <3>1, <3>2
  <2> QED BY <1>1, <1>3, <2>1 DEF WritePInv, SavedOK, HeldBack, Busy
<1> QED BY <1>5, <1>6, <1>7, <1>8 DEF WInv

-----------------------------------------------------------------------------
(***************************************************************************)
(* The theorems                                                            *)
(***************************************************************************)

\* Before the first write the invariant holds.
LEMMA WritesInitInv == WritesInit => WriteTypeOK /\ WInv /\ WritePInv
<1> SUFFICES ASSUME WritesInit PROVE WriteTypeOK /\ WInv /\ WritePInv
  OBVIOUS
<1>1. WriteTypeOK
  BY WriteConstants DEF WritesInit, WriteTypeOK, NoJob, Pcs
<1>2. (\A t \in Writers : pc[t] = "idle") /\ prot = orig
  BY DEF WritesInit
<1>3. WInv
  BY <1>2 DEF WInv, LockOK, JobOK, CountOK, ExecuteOK, Busy
<1>4. WritePInv
  BY <1>2 DEF WritePInv, SavedOK, HeldBack, Busy
<1> QED BY <1>1, <1>3, <1>4

\* Every step of a write keeps it.
LEMMA WritesStepInv ==
    ASSUME WriteTypeOK, WInv, [WritesNext]_writeVars
    PROVE  WriteTypeOK' /\ WInv' /\ ("restore" \notin Refusals /\ WritePInv => WritePInv')
<1>1. CASE UNCHANGED writeVars
  <2> USE <1>1 DEF writeVars
  <2>1. WriteTypeOK'
    BY DEF WriteTypeOK
  <2>2. WInv'
    BY DEF WInv, LockOK, JobOK, CountOK, ExecuteOK, Busy, Count, ChangedPage, BatchEnd
  <2>3. WritePInv => WritePInv'
    BY DEF WritePInv, SavedOK, HeldBack, Busy, Count, ChangedPage
  <2> QED BY <2>1, <2>2, <2>3
<1>2. CASE WritesNext
  <2> PICK t \in Writers :
        \/ write_code_bytes(t)
        \/ hook_import(t) \/ write_slot_locked(t) \/ write_export_slot(t)
        \/ change(t) \/ changed(t) \/ copy(t) \/ restore(t) \/ next_batch(t)
        \/ written(t) \/ undo(t)
    BY <1>2 DEF WritesNext
  <2>1. CASE write_code_bytes(t)
    BY <2>1, WriteStep DEF write_code_bytes
  <2>2. CASE hook_import(t) \/ write_slot_locked(t) \/ write_export_slot(t)
    <3>1. PICK page \in Pages, kind \in {"import", "vtable", "export"} :
             write(t, kind, page, page)
      BY <2>2 DEF hook_import, write_slot_locked, write_export_slot
    <3>2. page <= page
      BY WriteConstants
    <3> QED BY <3>1, <3>2, WriteStep
  <2>3. CASE change(t)
    BY <2>3, ChangeStep
  <2>4. CASE changed(t)
    BY <2>4, ChangedStep
  <2>5. CASE copy(t)
    BY <2>5, CopyStep
  <2>6. CASE restore(t)
    BY <2>6, RestoreStep
  <2>7. CASE next_batch(t)
    BY <2>7, NextBatchStep
  <2>8. CASE written(t) \/ undo(t)
    BY <2>8, FinishStep
  <2> QED BY <2>1, <2>2, <2>3, <2>4, <2>5, <2>6, <2>7, <2>8
<1> QED BY <1>1, <1>2

\* Every variable keeps its type.
THEOREM PageWritesTypeInvariant == WritesSpec => []WriteTypeOK
<1>1. WriteTypeOK /\ WInv /\ [WritesNext]_writeVars => WriteTypeOK' /\ WInv'
  BY WritesStepInv
<1> QED BY WritesInitInv, <1>1, PTL DEF WritesSpec

\* A write of mem.rs or of a table slot lets nobody fault: its copy finds every page of the
\* batch writable, and a page the program runs from stays executable, whichever request for a
\* protection the system refuses.
THEOREM NobodyEverFaults == WritesSpec => []NobodyFaults
<1>1. WriteTypeOK /\ WInv /\ [WritesNext]_writeVars => WriteTypeOK' /\ WInv'
  BY WritesStepInv
<1>2. ASSUME WriteTypeOK, WInv PROVE NobodyFaults
  <2>1. ASSUME NEW t \in Writers, pc[t] = "copy", NEW p \in Batch(t)
        PROVE  "W" \in prot[p]
    <3>1. Busy(t) /\ chunk[t] + Count(t) = BatchEnd(t) + 1
      BY <1>2, <2>1 DEF WInv, CountOK, Busy
    <3>2. BatchEnd(t) \in Pages /\ chunk[t] \in Pages /\ Count(t) \in Nat
      BY <1>2, <3>1, BatchBounds DEF WInv, WriteTypeOK, Count
    <3>3. p \in Pages /\ ChangedPage(t, p)
      BY <2>1, <3>1, <3>2, WriteConstants DEF Batch, ChangedPage
    <3> QED BY <1>2, <2>1, <3>3 DEF WInv, ExecuteOK
  <2> QED BY <1>2, <2>1 DEF NobodyFaults, WInv, ExecuteOK
<1> QED BY WritesInitInv, <1>1, <1>2, PTL DEF WritesSpec

\* Once no write is in progress every page has the protection the program gave it, also when
\* changing one was refused halfway through a write over several batches.  This needs the
\* system to let a page have its former protection back: a patch ignores the refusal.
THEOREM ProtectionsAlwaysComeBack ==
    ASSUME "restore" \notin Refusals
    PROVE  WritesSpec => []ProtectionsComeBack
<1>1. WriteTypeOK /\ WInv /\ WritePInv /\ [WritesNext]_writeVars
        => WriteTypeOK' /\ WInv' /\ WritePInv'
  BY WritesStepInv
<1>2. WriteTypeOK /\ WritePInv => ProtectionsComeBack
  <2> SUFFICES ASSUME WriteTypeOK, WritePInv, \A t \in Writers : pc[t] = "idle"
               PROVE  prot = orig
    BY DEF ProtectionsComeBack
  <2>1. \A p \in Pages : prot[p] = orig[p]
    BY DEF WritePInv, HeldBack
  <2>2. prot \in [Pages -> Prots] /\ orig \in [Pages -> Prots]
    BY DEF WriteTypeOK
  <2> QED BY <2>1, <2>2
<1> QED BY WritesInitInv, <1>1, <1>2, PTL DEF WritesSpec

-----------------------------------------------------------------------------
(***************************************************************************)
(* Where a trampoline or an export stub is placed.                         *)
(*                                                                         *)
(* The argument: every place in the window lies in a region the walk       *)
(* queries, the candidate of that region is at least as near, and the      *)
(* search takes the nearest candidate it does not lose.                    *)
(***************************************************************************)

\* Multiples are ordered as their factors are.
LEMMA MultipleBelow ==
    ASSUME NEW G \in Nat \ {0}, NEW j \in Int, NEW k \in Int, G * j < G * (k + 1)
    PROVE  j <= k
<1> SUFFICES ASSUME j >= k + 1 PROVE FALSE
  OBVIOUS
<1>1. j - (k + 1) \in Nat
  OBVIOUS
<1>2. G * (j - (k + 1)) \in Nat
  BY <1>1
<1>3. G * (j - (k + 1)) = G * j - G * (k + 1)
  OBVIOUS
<1> QED BY <1>2, <1>3

\* Division with remainder.
LEMMA Modulo ==
    ASSUME NEW G \in Nat \ {0}, NEW a \in Int
    PROVE  /\ a \div G \in Int /\ a % G \in Int
           /\ a % G >= 0 /\ a % G < G
           /\ a = G * (a \div G) + (a % G)
OBVIOUS

\* A multiple leaves no remainder.
LEMMA MultipleMod ==
    ASSUME NEW G \in Nat \ {0}, NEW k \in Int
    PROVE  (G * k) % G = 0
<1> DEFINE a == G * k
<1>1. a \in Int
  OBVIOUS
<1> HIDE DEF a
<1>2. /\ a \div G \in Int /\ a % G \in Int
           /\ a % G >= 0 /\ a % G < G
           /\ a = G * (a \div G) + (a % G)
  BY <1>1, Modulo
<1> QED BY <1>2, MultipleBelow DEF a

\* A set of numbers has a smallest one.
LEMMA MinOf ==
    ASSUME NEW S \in SUBSET Nat, S # {}
    PROVE  Min(S) \in S /\ \A x \in S : Min(S) <= x
<1> DEFINE R == {ss \in Nat \X Nat : ss[1] < ss[2]}
<1>0. IsWellFoundedOn(R, Nat)
  BY NatLessThanWellFounded DEF OpToRel
<1> HIDE DEF R
<1>1. PICK m \in S : \A y \in S : ~(<<y, m>> \in R)
  BY <1>0, WFMin
<1>2. ASSUME NEW y \in S PROVE m <= y
  <2>1. <<y, m>> \in Nat \X Nat /\ <<y, m>>[1] = y /\ <<y, m>>[2] = m
    OBVIOUS
  <2>2. ~(y < m)
    BY <1>1, <2>1 DEF R
  <2> QED BY <2>2
<1> QED BY <1>2 DEF Min

\* A set of numbers up to n has a largest one.
LEMMA MaxExists ==
    ASSUME NEW S \in SUBSET Nat, NEW n \in Nat, \A x \in S : x <= n, S # {}
    PROVE  \E m \in S : \A x \in S : x <= m
<1> DEFINE T == {t \in Nat : n - t \in S}
<1>1. ASSUME NEW x \in S PROVE n - x \in T
  BY n - (n - x) = x
<1>2. T \in SUBSET Nat /\ T # {}
  BY <1>1
<1> HIDE DEF T
<1>3. Min(T) \in T /\ \A t \in T : Min(T) <= t
  BY <1>2, MinOf
<1>4. n - Min(T) \in S /\ Min(T) \in Nat
  BY <1>3 DEF T
<1>5. ASSUME NEW x \in S PROVE x <= n - Min(T)
  BY <1>1, <1>3, <1>4
<1> QED BY <1>4, <1>5

\* The largest of three numbers.
LEMMA MaxOfThree ==
    ASSUME NEW a \in Int, NEW b \in Int, NEW c \in Int
    PROVE  LET m == Max({a, b, c})
           IN  m \in {a, b, c} /\ m >= a /\ m >= b /\ m >= c
<1>1. \E x \in {a, b, c} : \A y \in {a, b, c} : x >= y
  <2>1. CASE a >= b /\ a >= c
    BY <2>1
  <2>2. CASE b >= a /\ b >= c
    BY <2>2
  <2>3. CASE c >= a /\ c >= b
    BY <2>3
  <2> QED BY <2>1, <2>2, <2>3
<1>2. LET m == Max({a, b, c})
      IN  m \in {a, b, c} /\ \A y \in {a, b, c} : m >= y
  BY <1>1 DEF Max
<1> QED BY <1>2

\* The smaller of two.
LEMMA MinOfTwo ==
    ASSUME NEW a \in Int, NEW b \in Int
    PROVE  LET m == Min({a, b})
           IN  m \in {a, b} /\ m <= a /\ m <= b
<1>1. \E x \in {a, b} : \A y \in {a, b} : x =< y
  <2>1. CASE a <= b
    BY <2>1
  <2>2. CASE b <= a
    BY <2>2
  <2> QED BY <2>1, <2>2
<1>2. LET m == Min({a, b})
      IN  m \in {a, b} /\ \A y \in {a, b} : m =< y
  BY <1>1 DEF Min
<1> QED BY <1>2

\* align_down: the largest multiple up to a number.
LEMMA AlignDown ==
    ASSUME NEW a \in Int
    PROVE  LET d == align_down(a)
           IN  /\ d \in Int /\ d <= a /\ d > a - Granularity /\ d % Granularity = 0
               /\ \A b \in Int : b % Granularity = 0 /\ b <= a => b <= d
<1> DEFINE G == Granularity
           q == a \div Granularity
           d == align_down(a)
<1>1. G \in Nat \ {0}
  BY SearchAssumption
<1>2. /\ q \in Int /\ a % G \in Int /\ a % G >= 0 /\ a % G < G /\ a = G * q + (a % G)
  BY <1>1, Modulo
<1>3. d = a - (a % G)
  BY DEF align_down
<1>4. d = G * q /\ d \in Int /\ d <= a /\ d > a - G
  BY <1>1, <1>2, <1>3
<1>5. d % G = 0
  BY <1>1, <1>2, <1>4, MultipleMod
<1>6. ASSUME NEW b \in Int, b % G = 0, b <= a PROVE b <= d
  <2> DEFINE k == b \div G
  <2>1. k \in Int /\ b = G * k
    BY <1>1, <1>6, Modulo
  <2> HIDE DEF k, q
  <2>2. G * (q + 1) = G * q + G
    BY <1>1, <1>2
  <2>3. G * k < G * (q + 1)
    BY <1>1, <1>2, <1>6, <2>1, <2>2
  <2>4. k <= q
    BY <1>1, <1>2, <2>1, <2>3, MultipleBelow
  <2>5. G * (q - k) \in Nat /\ G * (q - k) = G * q - G * k
    BY <1>1, <1>2, <2>1, <2>4
  <2> QED BY <1>4, <2>1, <2>5
<1> QED BY <1>4, <1>5, <1>6

\* align_up: the smallest multiple from a number on.
LEMMA AlignUp ==
    ASSUME NEW a \in Int
    PROVE  LET u == align_up(a)
           IN  /\ u \in Int /\ u >= a /\ u < a + Granularity /\ u % Granularity = 0
               /\ \A b \in Int : b % Granularity = 0 /\ b >= a => b >= u
<1> DEFINE G == Granularity
           u == align_up(a)
<1>1. G \in Nat \ {0}
  BY SearchAssumption
<1>2. /\ u \in Int /\ u <= a + G - 1 /\ u > a + G - 1 - G /\ u % G = 0
      /\ u = align_down(a + G - 1)
  BY <1>1, AlignDown DEF align_up
<1> HIDE DEF u
<1>3. ASSUME NEW b \in Int, b % G = 0, b >= a PROVE b >= u
  <2> SUFFICES ASSUME b < u PROVE FALSE
    BY <1>2
  <2> DEFINE k == b \div G
             q == u \div G
  <2>0. k \in Int /\ b = G * k
    BY <1>1, <1>3, Modulo
  <2>1. q \in Int /\ u = G * q
    <3>1. u \in Int /\ u % G = 0
      BY <1>2
    <3> QED BY <1>1, <3>1, Modulo
  <2> HIDE DEF k, q
  <2>2. G * (k + 1) = G * k + G
    BY <1>1, <2>0
  <2>3. u < b + G
    BY <1>1, <1>2, <1>3
  <2>4. q <= k
    BY <1>1, <2>0, <2>1, <2>2, <2>3, MultipleBelow
  <2>5. G * (k - q) \in Nat /\ G * (k - q) = G * k - G * q
    BY <1>1, <2>0, <2>1, <2>4
  <2> QED BY <1>2, <2>0, <2>1, <2>5
<1> QED BY <1>1, <1>2, <1>3 DEF u

\* The pages from a up to e are a region, or what is left of one behind a.
Region(map, n, a, e) ==
    /\ e \in Nat /\ a < e /\ e <= n + 1
    /\ \A c \in a .. (e - 1) : c \in 0 .. n /\ map[c] = map[a]
    /\ e <= n => map[e] # map[a]

\* VirtualQuery finds the end of a region.
LEMMA RegionEndOf ==
    ASSUME NEW n \in Nat, NEW map \in [0 .. n -> {"free", "used"}], NEW a \in 0 .. n
    PROVE  Region(map, n, a, RegionEnd(map, a))
<1> DEFINE S == {b \in 0 .. n : b > a /\ map[b] # map[a]} \cup {n + 1}
           e == RegionEnd(map, a)
<1>1. Cardinality(0 .. n) = n + 1
  <2>1. Cardinality(0 .. n) = n - 0 + 1
    BY FS_Interval
  <2> QED BY <2>1 DEF Cardinality, Cardinality
<1>2. e = Min(S)
  BY <1>1 DEF RegionEnd
<1>3. S \in SUBSET Nat /\ S # {}
  OBVIOUS
<1>4. Min(S) \in S /\ \A x \in S : Min(S) <= x
  <2> HIDE DEF S
  <2> QED BY <1>3, MinOf
<1>5. /\ e \in Nat /\ a < e /\ e <= n + 1 /\ (e <= n => map[e] # map[a])
      /\ \A b \in 0 .. n : b > a /\ map[b] # map[a] => e <= b
  BY <1>2, <1>4
<1> HIDE DEF e
<1>6. ASSUME NEW c \in a .. (e - 1) PROVE c \in 0 .. n /\ map[c] = map[a]
  <2>1. c \in 0 .. n
    BY <1>5
  <2>2. CASE c = a
    BY <2>1, <2>2
  <2>3. CASE c > a
    BY <1>5, <2>1, <2>3
  <2> QED BY <2>1, <2>2, <2>3
<1> QED BY <1>5, <1>6 DEF e, Region

\* The walk from lo queries a, and the pages from there to b share its state.
Start(map, lo, a, b) ==
    /\ lo <= a /\ a <= b /\ (a = lo \/ map[a] # map[a - 1])
    /\ \A c \in a .. b : map[c] = map[a]

\* Every page from lo on lies in a region that the walk from lo queries.
LEMMA RegionStart ==
    ASSUME NEW n \in Nat, NEW map \in [0 .. n -> {"free", "used"}],
           NEW lo \in Nat, NEW b \in 0 .. n, lo <= b
    PROVE  \E a \in 0 .. n : Start(map, lo, a, b)
<1> DEFINE S == {a \in 0 .. n : lo <= a /\ a <= b /\ (a = lo \/ map[a] # map[a - 1])}
<1>1. S \in SUBSET Nat /\ lo \in S /\ \A x \in S : x <= n
  OBVIOUS
<1>2. PICK a \in S : \A x \in S : x <= a
  <2> HIDE DEF S
  <2> QED BY <1>1, MaxExists
<1>3. /\ a \in 0 .. n /\ lo <= a /\ a <= b /\ (a = lo \/ map[a] # map[a - 1])
      /\ \A x \in 0 .. n : lo <= x /\ x <= b /\ map[x] # map[x - 1] => x <= a
  BY <1>2
<1>4. ASSUME NEW d \in a .. b, map[d] # map[a] PROVE FALSE
  <2> DEFINE D == {c \in a .. b : map[c] # map[a]}
             f == Min(D)
  <2>1. D \in SUBSET Nat /\ D # {}
    BY <1>3, <1>4
  <2>2. f \in D /\ \A c \in D : f <= c
    <3> HIDE DEF D
    <3> QED BY <2>1, MinOf
  <2>3. f \in a .. b /\ map[f] # map[a] /\ \A c \in a .. b : map[c] # map[a] => f <= c
    BY <2>2
  <2> HIDE DEF f
  <2>4. f # a /\ f - 1 \in a .. b
    BY <1>3, <2>3
  <2>5. map[f - 1] = map[a]
    BY <2>3, <2>4
  <2> QED BY <1>3, <2>3, <2>4, <2>5
<1> QED BY <1>3, <1>4 DEF Start

\* The nearest of some places is one of them.
LEMMA NearestOf ==
    ASSUME NEW S \in SUBSET Nat, S # {}, NEW t \in Nat
    PROVE  LET a == Nearest(S, t)
           IN  a \in S /\ \A b \in S : Distance(a, t) <= Distance(b, t)
<1> DEFINE D == {d \in Nat : \E a \in S : d = Distance(a, t)}
           d == Min(D)
           E == {a \in S : Distance(a, t) = d}
           m == Min(E)
<1>0. \A a \in S : Distance(a, t) \in Nat
  BY DEF Distance
<1>1. D \in SUBSET Nat /\ D # {}
  BY <1>0
<1>2. d \in D /\ \A x \in D : d <= x
  <2> HIDE DEF D
  <2> QED BY <1>1, MinOf
<1>3. d \in Nat /\ (\E a \in S : d = Distance(a, t))
      /\ \A a \in S : Distance(a, t) \in Nat /\ d <= Distance(a, t)
  BY <1>0, <1>2
<1> HIDE DEF d
<1>4. E \in SUBSET Nat /\ E # {}
  BY <1>3
<1>5. m \in E /\ \A x \in E : m <= x
  <2> HIDE DEF E
  <2> QED BY <1>4, MinOf
<1>6. m \in S /\ Distance(m, t) = d /\ \A a \in S : Distance(a, t) = d => m <= a
  BY <1>5
<1> HIDE DEF m
<1>7. \A b \in S : \/ Distance(m, t) < Distance(b, t)
                   \/ Distance(m, t) = Distance(b, t) /\ m <= b
  BY <1>3, <1>6
<1> DEFINE a == Nearest(S, t)
<1>8. a \in S /\ \A b \in S : \/ Distance(a, t) < Distance(b, t)
                              \/ Distance(a, t) = Distance(b, t) /\ a <= b
  BY <1>6, <1>7 DEF Nearest
<1> HIDE DEF a
<1>9. ASSUME NEW b \in S PROVE Distance(a, t) <= Distance(b, t)
  BY <1>0, <1>8
<1> QED BY <1>8, <1>9 DEF a

\* The search window of a target.
LEMMA Window ==
    ASSUME NEW target \in Nat, NEW size \in Nat \ {0}
    PROVE  /\ min_addr(target, size) \in Nat
           /\ min_addr(target, size) >= Granularity
           /\ min_addr(target, size) >= target - range(size)
           /\ max_addr(target, size) \in Nat
           /\ max_addr(target, size) <= target + range(size)
           /\ range(size) \in Nat
           /\ range(size) = 0 \/ range(size) = Reach - (Margin + size)
<1>1. /\ range(size) \in Nat
      /\ range(size) = 0 \/ range(size) = Reach - (Margin + size)
  BY SearchAssumption DEF range
<1>2. LET m == min_addr(target, size)
      IN  m \in Nat /\ m >= Granularity /\ m >= target - range(size)
  <2> DEFINE r == target - range(size)
             m == Max({r, MinAddress, Granularity})
  <2>1. r \in Int /\ MinAddress \in Nat /\ Granularity \in Nat
    BY SearchAssumption, <1>1
  <2> HIDE DEF r
  <2>2. m \in {r, MinAddress, Granularity} /\ m >= r /\ m >= MinAddress /\ m >= Granularity
    <3>1. r \in Int /\ MinAddress \in Int /\ Granularity \in Int
      BY <2>1
    <3> QED BY <3>1, MaxOfThree, Zenon
  <2>3. m \in Nat /\ m >= Granularity /\ m >= r
    BY <2>1, <2>2
  <2> QED BY <2>3 DEF r, min_addr
<1>3. LET m == max_addr(target, size)
      IN  m \in Nat /\ m <= target + range(size)
  <2> DEFINE r == target + range(size)
             m == Min({r, MaxAddress})
  <2>1. r \in Nat /\ MaxAddress \in Nat
    BY SearchAssumption, <1>1
  <2> HIDE DEF r
  <2>2. m \in {r, MaxAddress} /\ m <= r
    BY <2>1, MinOfTwo
  <2>3. m \in Nat /\ m <= r
    BY <2>1, <2>2
  <2> QED BY <2>3 DEF r, max_addr
<1> QED BY <1>1, <1>2, <1>3

\* The candidate of a region is an aligned place in it and in the window, and none of its
\* places is nearer to the target.
LEMMA CandidateOf ==
    ASSUME NEW target \in Nat, NEW size \in Nat \ {0},
           NEW a \in Nat, NEW e \in Nat, a >= min_addr(target, size)
    PROVE  LET c == nearest_aligned_candidate(a, e, target, size)
               In(x) == /\ x \in Nat /\ x % Granularity = 0 /\ x >= a
                        /\ x + size <= e /\ x + size <= max_addr(target, size)
           IN  /\ c = -1 \/ In(c)
               /\ \A x \in Nat : In(x) =>
                     c # -1 /\ Distance(c, target) <= Distance(x, target)
<1> DEFINE lo == Max({a, min_addr(target, size), Granularity})
           hi == Min({e - size, max_addr(target, size) - size})
           ideal == Clamp(target, lo, hi)
           down == align_down(ideal)
           up == align_up(ideal)
           best == {x \in {down, up} : x >= lo /\ x <= hi}
           c == nearest_aligned_candidate(a, e, target, size)
           In(x) == /\ x \in Nat /\ x % Granularity = 0 /\ x >= a
                    /\ x + size <= e /\ x + size <= max_addr(target, size)
<1>1. c = IF lo > hi THEN -1
          ELSE IF best # {} THEN Nearest(best, target)
          ELSE IF align_up(lo) <= hi THEN align_up(lo) ELSE -1
  BY DEF nearest_aligned_candidate, Nowhere
<1>2. lo = a
  <2>1. min_addr(target, size) \in Nat /\ min_addr(target, size) >= Granularity
        /\ Granularity \in Nat
    BY SearchAssumption, Window
  <2>2. /\ lo \in {a, min_addr(target, size), Granularity}
        /\ lo >= a /\ lo >= min_addr(target, size) /\ lo >= Granularity
    BY <2>1, MaxOfThree
  <2> HIDE DEF lo
  <2> QED BY <2>1, <2>2
<1>3. /\ hi \in Int /\ hi <= e - size /\ hi <= max_addr(target, size) - size
      /\ hi = e - size \/ hi = max_addr(target, size) - size
  <2>1. max_addr(target, size) - size \in Int /\ e - size \in Int
    BY Window
  <2>2. hi \in {e - size, max_addr(target, size) - size} /\ hi <= e - size
        /\ hi <= max_addr(target, size) - size
    BY <2>1, MinOfTwo, Zenon
  <2> QED BY <2>1, <2>2
<1>4. \A x \in Int : In(x) <=> x % Granularity = 0 /\ x >= a /\ x <= hi
  <2>1. max_addr(target, size) \in Nat
    BY Window
  <2> QED BY <1>3, <2>1
<1>5. a >= 1
  BY SearchAssumption, Window
<1> HIDE DEF hi, lo, In
<1>6. ideal = (IF target < a THEN a ELSE IF target > hi THEN hi ELSE target) /\ ideal \in Int
  BY <1>2, <1>3 DEF Clamp
<1> HIDE DEF ideal
<1>7. /\ down \in Int /\ down <= ideal /\ down % Granularity = 0
      /\ \A b \in Int : b % Granularity = 0 /\ b <= ideal => b <= down
  BY <1>6, AlignDown
<1>8. /\ up \in Int /\ up >= ideal /\ up % Granularity = 0
      /\ \A b \in Int : b % Granularity = 0 /\ b >= ideal => b >= up
  BY <1>6, AlignUp
<1>9. /\ align_up(lo) \in Int /\ align_up(lo) >= a
      /\ align_up(lo) % Granularity = 0
  BY <1>2, AlignUp
<1> HIDE DEF down, up
<1>10. best \in SUBSET Nat /\ \A x \in best : In(x)
  BY <1>2, <1>4, <1>5, <1>7, <1>8
<1>11. best # {} => /\ Nearest(best, target) \in best
                    /\ \A b \in best : Distance(Nearest(best, target), target)
                                          <= Distance(b, target)
  <2> HIDE DEF best
  <2> QED BY <1>10, NearestOf
<1>12. c = -1 \/ In(c)
  BY <1>1, <1>4, <1>9, <1>10, <1>11
<1>13. ASSUME NEW x \in Nat, In(x)
       PROVE  \E b \in best : Distance(b, target) <= Distance(x, target)
  <2>1. x % Granularity = 0 /\ x >= a /\ x <= hi
    BY <1>4, <1>13
  <2>2. CASE x <= ideal
    <3>1. x <= down /\ down \in best
      BY <1>2, <1>3, <1>5, <1>6, <1>7, <2>1, <2>2
    <3>2. down <= target \/ down = x
      BY <1>3, <1>6, <1>7, <2>1, <2>2, <3>1
    <3> QED BY <1>7, <3>1, <3>2 DEF Distance
  <2>3. CASE x > ideal
    <3>1. x >= up /\ up \in best
      BY <1>2, <1>3, <1>5, <1>6, <1>8, <2>1, <2>3
    <3>2. up >= target \/ up = x
      BY <1>3, <1>6, <1>8, <2>1, <2>3, <3>1
    <3> QED BY <1>8, <3>1, <3>2 DEF Distance
  <2> QED BY <1>6, <2>2, <2>3
<1>14. ASSUME NEW x \in Nat, In(x)
       PROVE  c # -1 /\ Distance(c, target) <= Distance(x, target)
  <2>1. PICK b \in best : Distance(b, target) <= Distance(x, target)
    BY <1>13, <1>14
  <2>2. ~(lo > hi)
    BY <1>2, <1>3, <1>4, <1>14
  <2>3. c = Nearest(best, target)
    BY <1>1, <2>1, <2>2
  <2>4. c \in Nat /\ Distance(c, target) <= Distance(b, target)
    BY <1>10, <1>11, <2>1, <2>3
  <2>5. b \in Nat
    BY <1>10, <2>1
  <2>6. Distance(c, target) \in Int /\ Distance(b, target) \in Int
        /\ Distance(x, target) \in Int
    BY <2>4, <2>5 DEF Distance
  <2> QED BY <2>1, <2>4, <2>6
<1> QED BY <1>12, <1>14 DEF In

\* A place lies in a free region that the walk queries, with all of its pages.
LEMMA PlaceInRegion ==
    ASSUME NEW n \in Nat, NEW map \in [0 .. n -> {"free", "used"}],
           NEW lo \in Nat, NEW hi \in Int,
           NEW size \in Nat \ {0}, NEW b \in Places(map, lo, hi, size)
    PROVE  /\ b \in Nat /\ b % Granularity = 0 /\ b + size <= hi
           /\ \E r \in 0 .. n : /\ lo <= r /\ r <= b /\ (r = lo \/ map[r] # map[r - 1])
                                /\ map[r] = "free" /\ b + size <= RegionEnd(map, r)
<1>1. /\ b \in 0 .. n /\ b >= lo /\ b + size <= hi /\ b % Granularity = 0
      /\ \A c \in b .. (b + size - 1) : c \in 0 .. n /\ map[c] = "free"
  BY DEF Places
<1>0. PICK r \in 0 .. n : Start(map, lo, r, b)
  <2>1. lo <= b
    BY <1>1
  <2> QED BY <1>1, <2>1, RegionStart
<1>2. /\ lo <= r /\ r <= b /\ (r = lo \/ map[r] # map[r - 1])
      /\ \A c \in r .. b : map[c] = map[r]
  BY <1>0 DEF Start
<1> DEFINE e == RegionEnd(map, r)
<1>3. e \in Nat /\ r < e /\ (e <= n => map[e] # map[r])
  <2>1. Region(map, n, r, e)
    BY RegionEndOf
  <2> QED BY <2>1 DEF Region
<1> HIDE DEF e
<1>4. map[r] = "free"
  BY <1>1, <1>2
<1>5. ASSUME b + size > e PROVE FALSE
  <2>1. e \in r .. b \/ e \in b .. (b + size - 1)
    BY <1>1, <1>2, <1>3, <1>5
  <2>2. map[e] = "free" /\ e <= n
    BY <1>1, <1>2, <1>4, <2>1
  <2> QED BY <1>3, <1>4, <2>2
<1>6. b + size <= e
  BY <1>1, <1>3, <1>5
<1> QED BY <1>1, <1>2, <1>4, <1>6 DEF e

\* What lies between two pages of a free region is free.
LEMMA WithinRegion ==
    ASSUME NEW n \in Nat, NEW map \in [0 .. n -> {"free", "used"}], NEW r \in 0 .. n,
           map[r] = "free", NEW x \in Nat, NEW y \in Nat, r <= x, r <= y,
           x < RegionEnd(map, r), y < RegionEnd(map, r)
    PROVE  SameRegion(map, x, y)
<1> DEFINE e == RegionEnd(map, r)
<1>1. e \in Nat /\ x < e /\ y < e /\ \A c \in r .. (e - 1) : map[c] = map[r]
  <2>1. Region(map, n, r, e)
    BY RegionEndOf
  <2> QED BY <2>1 DEF Region
<1> HIDE DEF e
<1>2. ASSUME NEW c \in Int, (x <= c /\ c <= y) \/ (y <= c /\ c <= x) PROVE map[c] = "free"
  BY <1>1, <1>2
<1> QED BY <1>2 DEF SameRegion

\* An aligned address in a free region with room behind it is a place.
LEMMA RoomIsPlace ==
    ASSUME NEW n \in Nat, NEW map \in [0 .. n -> {"free", "used"}],
           NEW lo \in Nat, NEW hi \in Int,
           NEW size \in Nat \ {0}, NEW r \in 0 .. n, map[r] = "free", NEW c \in Nat \ {0},
           r <= c, lo <= c, c % Granularity = 0, c + size <= hi,
           c + size <= RegionEnd(map, r)
    PROVE  c \in Places(map, lo, hi, size)
<1> DEFINE e == RegionEnd(map, r)
<1>1. e \in Nat /\ \A x \in r .. (e - 1) : x \in 0 .. n /\ map[x] = map[r]
  <2>1. Region(map, n, r, e)
    BY RegionEndOf
  <2> QED BY <2>1 DEF Region
<1> HIDE DEF e
<1>2. c + size <= e
  BY DEF e
<1>3. \A x \in c .. (c + size - 1) : x \in 0 .. n /\ map[x] = "free"
  BY <1>1, <1>2
<1>4. c \in 0 .. n
  BY <1>3
<1> QED BY <1>3, <1>4 DEF Places

\* alloc_nearby: what it chooses from, and how.
LEMMA NearbyOf ==
    ASSUME NEW n \in Nat, NEW map \in [0 .. n -> {"free", "used"}],
           NEW target \in Nat \ {0}, NEW size \in Nat \ {0}, NEW lost
    PROVE  LET lo == min_addr(target, size)
               hi == max_addr(target, size)
               places == Places(map, lo, hi, size)
               C == Candidates(map, target, size)
               a == alloc_nearby_trampoline(map, target, size, lost)
           IN  /\ C \subseteq places
               /\ a = -1 => C \subseteq lost
               /\ a # -1 => /\ a \in C \ lost
                            /\ \A c \in C \ lost :
                                  Distance(a, target) <= Distance(c, target)
<1> DEFINE lo == min_addr(target, size)
           hi == max_addr(target, size)
           places == Places(map, lo, hi, size)
           C == Candidates(map, target, size)
           W == {c \in C \ lost : c >= lo /\ c + size <= hi}
           a == alloc_nearby_trampoline(map, target, size, lost)
<1>1. lo \in Nat /\ lo >= Granularity /\ hi \in Nat /\ Granularity \in Nat \ {0}
  BY SearchAssumption, Window
<1>2. ASSUME NEW c \in C PROVE c \in Nat /\ c \in places /\ c >= lo /\ c + size <= hi
  <2>1. PICK r \in Queried(map, lo, hi) :
           /\ map[r] = "free" /\ c # -1
           /\ c = nearest_aligned_candidate(r, RegionEnd(map, r), target, size)
    BY <1>2 DEF Candidates, Nowhere
  <2>2. r \in 0 .. n /\ r >= lo /\ RegionEnd(map, r) \in Nat
    BY <2>1, RegionEndOf DEF Queried, Region
  <2>3. /\ c \in Nat /\ c % Granularity = 0 /\ c >= r
        /\ c + size <= RegionEnd(map, r) /\ c + size <= hi
    BY <2>1, <2>2, CandidateOf
  <2> HIDE DEF lo, hi
  <2>4. c >= lo /\ c # 0
    BY <1>1, <2>2, <2>3
  <2> QED BY <1>1, <2>1, <2>2, <2>3, <2>4, RoomIsPlace
<1>3. W = C \ lost /\ W \in SUBSET Nat
  BY <1>2
<1>4. a = Nearest(W, target)
  BY DEF alloc_nearby_trampoline, alloc_nearby
<1> HIDE DEF a, W, C, places
<1>5. W = {} => a = -1 /\ C \subseteq lost
  BY <1>3, <1>4 DEF Nearest, Nowhere
<1>6. W # {} => /\ a \in C \ lost /\ a # -1
                /\ \A c \in C \ lost : Distance(a, target) <= Distance(c, target)
  <2> SUFFICES ASSUME W # {}
               PROVE  /\ a \in C \ lost /\ a # -1
                      /\ \A c \in C \ lost :
                            Distance(a, target) <= Distance(c, target)
    OBVIOUS
  <2>1. a \in W /\ \A c \in W : Distance(a, target) <= Distance(c, target)
    BY <1>3, <1>4, NearestOf
  <2>2. a # -1
    BY <1>3, <2>1
  <2> QED BY <1>3, <2>1, <2>2
<1>7. C \subseteq places
  BY <1>2
<1>8. /\ a = -1 => C \subseteq lost
      /\ a # -1 => /\ a \in C \ lost
                   /\ \A c \in C \ lost :
                         Distance(a, target) <= Distance(c, target)
  BY <1>5, <1>6
<1> QED BY <1>7, <1>8 DEF a, C, places

\* A place of a region that the trampoline search walks has a candidate at least as near.
LEMMA CandidateFor ==
    ASSUME NEW n \in Nat, NEW map \in [0 .. n -> {"free", "used"}],
           NEW target \in Nat \ {0}, NEW size \in Nat \ {0},
           NEW b \in Places(map, min_addr(target, size),
                                   max_addr(target, size), size)
    PROVE  \E c \in Candidates(map, target, size) :
              /\ SameRegion(map, b, c)
              /\ Distance(c, target) <= Distance(b, target)
<1> DEFINE lo == min_addr(target, size)
           hi == max_addr(target, size)
<1>1. lo \in Nat /\ hi \in Nat
  BY Window
<1>2. b \in Nat /\ b % Granularity = 0 /\ b + size <= hi
  BY <1>1, PlaceInRegion
<1>3. PICK r \in 0 .. n : /\ lo <= r /\ r <= b /\ (r = lo \/ map[r] # map[r - 1])
                          /\ map[r] = "free" /\ b + size <= RegionEnd(map, r)
  BY <1>1, PlaceInRegion
<1> DEFINE e == RegionEnd(map, r)
           c == nearest_aligned_candidate(r, e, target, size)
<1>4. e \in Nat
  BY RegionEndOf DEF Region
<1>5. /\ c \in Nat /\ c >= r /\ c + size <= e
      /\ Distance(c, target) <= Distance(b, target)
  BY <1>2, <1>3, <1>4, CandidateOf
<1>6. r \in Queried(map, lo, hi) /\ e - r >= size
  <2> HIDE DEF lo, hi, e
  <2>1. r < hi
    BY <1>1, <1>2, <1>3
  <2>2. e - r >= size
    BY <1>2, <1>3, <1>4 DEF e
  <2> QED BY <1>3, <2>1, <2>2 DEF Queried
<1>7. c \in Candidates(map, target, size)
  <2>1. c # -1
    BY <1>5
  <2> QED BY <1>3, <1>6, <2>1 DEF Candidates, Nowhere
<1>8. SameRegion(map, b, c)
  <2> HIDE DEF c, e
  <2>1. b < e /\ c < e
    BY <1>2, <1>3, <1>4, <1>5 DEF e
  <2> QED BY <1>2, <1>3, <1>5, <2>1, WithinRegion DEF e
<1> QED BY <1>5, <1>7, <1>8

\* alloc_export_stub: the lowest of its tries, and a try for every place.
LEMMA StubOf ==
    ASSUME NEW n \in Nat, NEW map \in [0 .. n -> {"free", "used"}],
           NEW target \in Nat \ {0}, NEW size \in Nat \ {0}, NEW lost
    PROVE  LET s == alloc_export_stub(map, target, size, lost)
               stubs == Places(map, target, target + RvaReach, size)
           IN  /\ s # -1 => s \in stubs \ lost
               /\ \A b \in stubs : s = -1 \/ b < s =>
                     \E c \in lost : SameRegion(map, b, c)
<1> DEFINE hi == target + RvaReach - size + 1
           starts == {b \in Queried(map, target, hi) :
                         /\ map[b] = "free"
                         /\ align_up(b) + size <= RegionEnd(map, b)
                         /\ align_up(b) + size - target <= RvaReach}
           tries == {align_up(b) : b \in starts}
           won == tries \ lost
           s == alloc_export_stub(map, target, size, lost)
           stubs == Places(map, target, target + RvaReach, size)
<1>1. s = IF won = {} THEN -1 ELSE Min(won)
  BY DEF alloc_export_stub, Nowhere
<1>2. RvaReach \in Nat /\ Granularity \in Nat \ {0}
  BY SearchAssumption
<1>3. ASSUME NEW r \in starts
      PROVE  align_up(r) \in Nat /\ align_up(r) \in stubs
  <2>1. /\ r \in 0 .. n /\ r >= target /\ map[r] = "free"
        /\ align_up(r) + size <= RegionEnd(map, r)
        /\ align_up(r) + size - target <= RvaReach
    BY <1>3 DEF Queried
  <2> DEFINE u == align_up(r)
  <2>2. u \in Int /\ u >= r /\ u % Granularity = 0
    BY <2>1, AlignUp
  <2> HIDE DEF u
  <2>3. u \in Nat \ {0} /\ u >= target /\ u + size <= target + RvaReach
    BY <1>2, <2>1, <2>2 DEF u
  <2>4. u \in Places(map, target, target + RvaReach, size)
    <3>1. u + size <= RegionEnd(map, r)
      BY <2>1 DEF u
    <3>2. r <= u /\ target <= u /\ target + RvaReach \in Int
      BY <1>2, <2>1, <2>2, <2>3
    <3> QED BY <2>1, <2>2, <2>3, <3>1, <3>2, RoomIsPlace
  <2> QED BY <2>3, <2>4 DEF u
<1>4. won \in SUBSET Nat /\ won \subseteq stubs \ lost
  BY <1>3
<1>5. ASSUME NEW b \in stubs
      PROVE  \E c \in tries : SameRegion(map, b, c) /\ c \in Nat /\ b \in Nat /\ c <= b
  <2>1. b \in Nat /\ b % Granularity = 0 /\ b + size <= target + RvaReach
    <3>1. target + RvaReach \in Int
      BY <1>2
    <3> QED BY <1>5, <3>1, PlaceInRegion
  <2>2. PICK r \in 0 .. n : /\ target <= r /\ r <= b /\ (r = target \/ map[r] # map[r - 1])
                            /\ map[r] = "free" /\ b + size <= RegionEnd(map, r)
    <3>1. target + RvaReach \in Int
      BY <1>2
    <3> QED BY <1>5, <3>1, PlaceInRegion
  <2> DEFINE u == align_up(r)
             e == RegionEnd(map, r)
  <2>3. u \in Int /\ u >= r /\ u <= b
    BY <2>1, <2>2, AlignUp
  <2>4. e \in Nat
    BY RegionEndOf DEF Region
  <2> HIDE DEF u, e
  <2>5. u \in Nat /\ u + size <= e /\ u + size - target <= RvaReach /\ r < hi
    BY <1>2, <2>1, <2>2, <2>3, <2>4 DEF e
  <2>6. r \in starts
    <3> HIDE DEF hi
    <3>1. r \in Queried(map, target, hi)
      BY <2>2, <2>5 DEF Queried
    <3> QED BY <2>2, <2>5, <3>1 DEF u, e
  <2>7. u \in tries
    BY <2>6 DEF u
  <2>8. SameRegion(map, b, u)
    <3>1. r <= u /\ u < e /\ b < e
      BY <2>1, <2>2, <2>3, <2>4, <2>5 DEF e
    <3> QED BY <2>1, <2>2, <2>5, <3>1, WithinRegion DEF e
  <2> QED BY <2>1, <2>3, <2>5, <2>7, <2>8
<1> HIDE DEF s, tries, stubs
<1>6. CASE won = {}
  <2>1. s = -1 /\ tries \subseteq lost
    BY <1>1, <1>6
  <2> QED BY <1>5, <2>1 DEF s, stubs
<1>7. CASE won # {}
  <2>1. s \in won /\ \A c \in won : s <= c
    <3> HIDE DEF won
    <3> QED BY <1>1, <1>4, <1>7, MinOf
  <2>2. s \in stubs \ lost /\ s \in Nat
    BY <1>4, <2>1
  <2>3. ASSUME NEW b \in stubs, b < s PROVE \E c \in lost : SameRegion(map, b, c)
    <3>1. PICK c \in tries : SameRegion(map, b, c) /\ c \in Nat /\ b \in Nat /\ c <= b
      BY <1>5
    <3>2. c \notin won
      BY <2>1, <2>2, <2>3, <3>1
    <3> QED BY <3>1, <3>2
  <2>4. s # -1
    BY <2>2
  <2> QED BY <2>2, <2>3, <2>4 DEF s, stubs
<1> QED BY <1>6, <1>7

\* The searches of alloc.rs on any memory map, whichever places another allocator takes first.
LEMMA WellPlaced ==
    ASSUME NEW n \in Nat, NEW map \in [0 .. n -> {"free", "used"}],
           NEW target \in Nat \ {0}, NEW size \in Nat \ {0}, NEW lost
    PROVE  PlacedWell(map, target, size, lost)
<1> DEFINE a == alloc_nearby_trampoline(map, target, size, lost)
           lo == min_addr(target, size)
           hi == max_addr(target, size)
           places == Places(map, lo, hi, size)
           C == Candidates(map, target, size)
<1>1. /\ C \subseteq places
      /\ a = -1 => C \subseteq lost
      /\ a # -1 => /\ a \in C \ lost
                   /\ \A c \in C \ lost :
                         Distance(a, target) <= Distance(c, target)
  BY NearbyOf
<1>2. ASSUME a # -1 PROVE a \in places \ lost /\ InReach(a, target, size)
  <2>1. a \in places
    BY <1>1, <1>2
  <2>2. a \in Nat /\ a >= lo /\ a + size <= hi
    BY <2>1 DEF Places
  <2> DEFINE reach == range(size)
  <2>3. /\ lo \in Nat /\ hi \in Nat /\ lo >= target - reach /\ hi <= target + reach
        /\ reach \in Nat /\ (reach = 0 \/ reach = Reach - (Margin + size))
    BY Window
  <2> HIDE DEF a, lo, hi, reach
  <2>4. /\ a >= target - reach /\ a + size <= target + reach
        /\ reach = Reach - (Margin + size) /\ Reach \in Nat /\ Margin \in Nat
    BY SearchAssumption, <2>2, <2>3
  <2>5. ASSUME NEW x \in target .. (target + Margin), NEW y \in a .. (a + size)
        PROVE  Distance(x, y) <= Reach
    BY <2>2, <2>3, <2>4 DEF Distance
  <2> QED BY <1>1, <1>2, <2>1, <2>5 DEF InReach
<1>3. ASSUME NEW b \in places, a = -1 \/ Distance(b, target) < Distance(a, target)
      PROVE  \E c \in lost : SameRegion(map, b, c)
  <2>1. PICK c \in C : /\ SameRegion(map, b, c)
                       /\ Distance(c, target) <= Distance(b, target)
    BY CandidateFor
  <2>2. b \in Nat /\ c \in Nat
    BY <1>1 DEF Places
  <2>3. c \in lost
    <3> SUFFICES ASSUME c \notin lost PROVE FALSE
      OBVIOUS
    <3>1. a # -1 /\ Distance(a, target) <= Distance(c, target) /\ a \in places
      BY <1>1
    <3>2. a \in Nat
      BY <3>1 DEF Places
    <3>3. /\ Distance(a, target) \in Int /\ Distance(b, target) \in Int
          /\ Distance(c, target) \in Int
      BY <2>2, <3>2 DEF Distance
    <3> QED BY <1>3, <2>1, <3>1, <3>3
  <2> QED BY <2>1, <2>3
<1> DEFINE s == alloc_export_stub(map, target, size, lost)
           stubs == Places(map, target, target + RvaReach, size)
<1>4. /\ s # -1 => s \in stubs \ lost
      /\ \A b \in stubs : s = -1 \/ b < s => \E c \in lost : SameRegion(map, b, c)
  BY StubOf
<1> HIDE DEF a, s, stubs, places
<1> QED BY <1>2, <1>3, <1>4 DEF PlacedWell, Nowhere, a, s, stubs, places

(***************************************************************************)
(* The searches of alloc.rs, for any memory map, address range, reach,     *)
(* granularity, target and size, whichever places another allocator takes  *)
(* first: a trampoline lies on free pages in reach of its target, in both  *)
(* directions, and a place that is nearer shares its free region with a    *)
(* place that was lost; the search gives up only when every region's best  *)
(* was lost; and the same for an export stub with the lowest place above   *)
(* the module's base.                                                      *)
(***************************************************************************)
THEOREM PlacementIsAlwaysNearest == SearchSpec => []PlacementIsNearest
<1> DEFINE T == /\ memory \in [0 .. LastPage -> {"free", "used"}]
                /\ request \in Requests \cup {NoRequest}
<1>1. SearchInit => T
  BY DEF SearchInit
<1>2. T /\ [SearchNext]_searchVars => T'
  <2> SUFFICES ASSUME T, [SearchNext]_searchVars PROVE T'
    OBVIOUS
  <2>1. CASE search \/ found \/ UNCHANGED searchVars
    BY <2>1 DEF search, found, searchVars
  <2>2. CASE \E a \in 0 .. LastPage : others(a)
    BY <2>2 DEF others
  <2> QED BY <2>1, <2>2 DEF SearchNext
<1>3. T => PlacementIsNearest
  <2> SUFFICES ASSUME T, request # NoRequest
               PROVE  PlacedWell(memory, request.target, request.size, request.lost)
    BY DEF PlacementIsNearest
  <2>1. LastPage \in Nat /\ request.target \in Nat \ {0} /\ request.size \in Nat \ {0}
    BY SearchAssumption DEF Requests
  <2> QED BY <2>1, WellPlaced
<1> QED BY <1>1, <1>2, <1>3, PTL DEF SearchSpec
=============================================================================
