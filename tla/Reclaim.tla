------------------------------- MODULE Reclaim -------------------------------
(***************************************************************************)
(* The release of executable stubs: the quarantine and the reclaim pass of *)
(* src/src/reclaim.rs, with the unwind tables of src/src/unwind.rs that    *)
(* are deleted before a stub goes and restored when it stays.              *)
(*                                                                         *)
(* A pass suspends the other threads one by one, looks into each of them,  *)
(* walks the thread list again for threads created meanwhile, and releases *)
(* what nobody references.  The transaction lock admits one pass at a time *)
(* ; the threads that are not suspended yet keep running.                  *)
(***************************************************************************)
EXTENDS Naturals, FiniteSets

CONSTANTS
    MaxThreads,     \* bound on the threads ever created
    Stubs,          \* addresses of stub allocations
    Rounds,         \* WALK_ROUNDS
    Slack,          \* NEW_THREAD_SLACK
    HasWalker,      \* NtGetNextThread exists
    ReuseTids,      \* the system reuses the id of an exited thread
    ReclaimOutside, \* clients do not start a pass from inside a retired stub
    AllocWhenIdle,  \* clients build no gateway between a release and its settling
    Faults          \* what the system may refuse

ASSUME BoundsAssumption ==
    /\ MaxThreads \in Nat \ {0} /\ Rounds \in Nat \ {0} /\ Slack \in Nat
ASSUME FlagsAssumption == {HasWalker, ReuseTids, ReclaimOutside, AllocWhenIdle} \subseteq BOOLEAN
ASSUME FaultsAssumption == Faults \subseteq {"freeze_lock", "snapshot", "suspend", "read", "walk"}

\* Threads in the order of their creation, which is the order of the system's
\* list.  Ids are drawn from the same numbers.
Threads == 1 .. MaxThreads
Phases == {"idle", "begin", "freeze", "walk", "release", "settle"}

VARIABLES
    \* the process
    born,        \* threads created so far
    alive,       \* threads that have not exited
    unjoined,    \* threads that have exited but are still listed
    tid,         \* their ids
    refs,        \* stubs a thread has in its ip, registers or stack
    suspended,
    \* stubs
    mem,         \* state of the allocation
    quarantine,  \* QUARANTINE
    tables,      \* TABLES: the registered flag of the entry, if any
    osTables,    \* function tables the system knows of
    \* the pass
    phase, passer, regions, tids, handles, frozen, busy, inspectedAll,
    capacity, cursor, round, stillBusy

processVars == <<born, alive, unjoined, tid, refs, suspended>>
stubVars == <<mem, quarantine, tables, osTables>>
scanVars == <<tids, handles, frozen, busy, inspectedAll, capacity, cursor, round>>
passVars == <<phase, passer, regions, stillBusy, scanVars>>
vars == <<processVars, stubVars, passVars>>

\* Every variable keeps its type; no thread is alive before its creation.
TypeOK ==
    /\ born \in Threads
    /\ alive \subseteq 1 .. born /\ unjoined \subseteq 1 .. born
    /\ tid \in [Threads -> Threads]
    /\ refs \in [Threads -> SUBSET Stubs]
    /\ suspended \subseteq Threads
    /\ mem \in [Stubs -> {"free", "used", "retired"}]
    /\ quarantine \subseteq Stubs
    /\ tables \in [Stubs -> {"none", "off", "on"}]
    /\ osTables \subseteq Stubs
    /\ phase \in Phases
    /\ passer \in Threads \cup {0}
    /\ regions \subseteq Stubs /\ stillBusy \subseteq Stubs /\ busy \subseteq Stubs
    /\ tids \subseteq Threads /\ frozen \subseteq Threads /\ handles \subseteq Threads
    /\ inspectedAll \in BOOLEAN
    /\ capacity \in Nat
    /\ cursor \in Threads \cup {0}
    /\ round \in 0 .. Rounds

Init ==
    /\ born = 1 /\ alive = {1} /\ unjoined = {} /\ suspended = {}
    /\ tid = [t \in Threads |-> t]
    /\ refs = [t \in Threads |-> {}]
    /\ mem = [s \in Stubs |-> "free"]
    /\ quarantine = {} /\ osTables = {}
    /\ tables = [s \in Stubs |-> "none"]
    /\ phase = "idle" /\ passer = 0
    /\ regions = {} /\ stillBusy = {} /\ busy = {}
    /\ tids = {} /\ frozen = {} /\ handles = {}
    /\ inspectedAll = TRUE /\ capacity = 0 /\ cursor = 0 /\ round = 0

-----------------------------------------------------------------------------
(***************************************************************************)
(* The process around the pass                                             *)
(***************************************************************************)

\* A thread runs client code: it is not suspended, nor busy with the pass.
Running(t) == t \in alive /\ t \notin suspended /\ t # passer

\* A stub is allocated and its unwind data registered (register_codes).  Gateways
\* of INT3 and VEH hooks are built under no lock a pass would hold.
register_codes(t, s) ==
    /\ Running(t) /\ mem[s] = "free"
    /\ AllocWhenIdle => phase # "settle"
    /\ mem' = [mem EXCEPT ![s] = "used"]
    /\ tables' = [tables EXCEPT ![s] = "on"]
    /\ osTables' = osTables \cup {s}
    /\ UNCHANGED <<quarantine, processVars, passVars>>

\* The hook goes and its stub is retired.
retire(t, s) ==
    /\ Running(t) /\ mem[s] = "used"
    /\ mem' = [mem EXCEPT ![s] = "retired"]
    /\ quarantine' = quarantine \cup {s}
    /\ UNCHANGED <<tables, osTables, processVars, passVars>>

\* External: a thread enters a hooked function and gets into the stub.
enter(t, s) ==
    /\ Running(t) /\ mem[s] = "used"
    /\ refs' = [refs EXCEPT ![t] = @ \cup {s}]
    /\ UNCHANGED <<born, alive, unjoined, tid, suspended, stubVars, passVars>>

\* External: it leaves the stub, handing what it called there to u or to nobody.
leave(t, s, u) ==
    /\ Running(t) /\ s \in refs[t] /\ Running(u)
    /\ refs' = IF u = t THEN [refs EXCEPT ![t] = @ \ {s}]
               ELSE [refs EXCEPT ![t] = @ \ {s}, ![u] = @ \cup {s}]
    /\ UNCHANGED <<born, alive, unjoined, tid, suspended, stubVars, passVars>>

\* Threads with a handle open somewhere keep their id and their place in the list.
Listed == alive \cup unjoined

\* The ids a new thread may get.
FreshTids == IF ReuseTids THEN Threads \ {tid[t] : t \in Listed} ELSE {born + 1}

\* External: a thread starts another one, which may begin inside a stub.
spawn(t, R) ==
    /\ Running(t) /\ born < MaxThreads /\ R \subseteq refs[t]
    /\ born' = born + 1
    /\ alive' = alive \cup {born + 1}
    /\ \E x \in FreshTids : tid' = [tid EXCEPT ![born + 1] = x]
    /\ refs' = [refs EXCEPT ![born + 1] = R]
    /\ UNCHANGED <<unjoined, suspended, stubVars, passVars>>

\* External: a thread exits; the process ends with the last one.
exit(t) ==
    /\ Running(t) /\ alive # {t}
    /\ alive' = alive \ {t}
    /\ unjoined' \in {unjoined, unjoined \cup {t}}
    /\ refs' = [refs EXCEPT ![t] = {}]
    /\ UNCHANGED <<born, tid, suspended, stubVars, passVars>>

\* External: the last handle of an exited thread is closed.  The walk keeps one
\* of the thread it has come to.
join(t) ==
    /\ t \in unjoined /\ ~(phase = "walk" /\ t = cursor)
    /\ unjoined' = unjoined \ {t}
    /\ UNCHANGED <<born, alive, tid, refs, suspended, stubVars, passVars>>

-----------------------------------------------------------------------------
(***************************************************************************)
(* The pass                                                                *)
(***************************************************************************)

\* reclaim: the quarantine is drained and its tables deleted (unwind::suspend).
reclaim(p) ==
    /\ phase = "idle" /\ Running(p) /\ quarantine # {}
    /\ ReclaimOutside => refs[p] \cap quarantine = {}
    /\ phase' = "begin" /\ passer' = p
    /\ regions' = quarantine /\ quarantine' = {}
    /\ osTables' = osTables \ {s \in quarantine : tables[s] = "on"}
    /\ tables' = [s \in Stubs |-> IF s \in quarantine /\ tables[s] = "on" THEN "off"
                                  ELSE tables[s]]
    /\ UNCHANGED <<processVars, mem, stillBusy, scanVars>>

\* enumerate_process_threads: the ids of the other threads.
Enumerated(p) == {tid[t] : t \in Listed \ {p}}

\* free_quiescent_regions: another pass that suspends threads is under way, or
\* the buffers are reserved for the threads there are now.
free_quiescent_regions ==
    /\ phase = "begin"
    /\ \/ /\ "freeze_lock" \in Faults
          /\ stillBusy' = regions
          /\ phase' = "settle"
          /\ UNCHANGED scanVars
       \/ /\ \/ tids' = Enumerated(passer)
             \/ "snapshot" \in Faults /\ tids' = {}
          /\ capacity' = Cardinality(tids') + Slack
          /\ handles' = {} /\ frozen' = {} /\ busy' = {}
          /\ inspectedAll' = TRUE
          /\ cursor' = 0 /\ round' = 0
          /\ phase' = "freeze"
          /\ UNCHANGED stillBusy
    /\ UNCHANGED <<processVars, stubVars, passer, regions>>

\* A thread is suspended and its handle kept.
Suspend_Unrecorded(t) == suspended' = suspended \cup {t} /\ UNCHANGED handles
Suspend(t) == suspended' = suspended \cup {t} /\ handles' = handles \cup {t}

\* One id of the snapshot, of a thread that is still there.
freeze(t) ==
    /\ phase = "freeze" /\ t \in alive /\ tid[t] \in tids
    /\ tids' = tids \ {tid[t]}
    /\ \/ Suspend(t) /\ frozen' = frozen \cup {tid[t]} /\ UNCHANGED inspectedAll
       \/ /\ "suspend" \in Faults /\ inspectedAll' = FALSE
          /\ UNCHANGED <<suspended, handles, frozen>>
    /\ UNCHANGED <<born, alive, unjoined, tid, refs, stubVars, phase, passer, regions,
                   stillBusy, busy, capacity, cursor, round>>

\* Or of a thread that has exited: it is remembered if it could be opened.
freeze_exited(x) ==
    /\ phase = "freeze" /\ x \in tids /\ x \notin {tid[t] : t \in alive}
    /\ tids' = tids \ {x}
    /\ frozen' = frozen \cup ({x} \cap {tid[t] : t \in unjoined})
    /\ UNCHANGED <<processVars, stubVars, phase, passer, regions, stillBusy, handles,
                   busy, inspectedAll, capacity, cursor, round>>

\* inspect_thread: the regions a thread has in its registers or on its stack.
inspect_thread(T) == regions \cap UNION {refs[t] : t \in T}

\* All of them are suspended: they are looked into.
inspect ==
    /\ phase = "freeze" /\ tids = {}
    /\ busy' = inspect_thread(handles)
    /\ \/ UNCHANGED inspectedAll
       \/ "read" \in Faults /\ handles # {} /\ inspectedAll' = FALSE
    /\ phase' = IF HasWalker THEN "walk" ELSE "release"
    /\ round' = 1
    /\ UNCHANGED <<processVars, stubVars, passer, regions, stillBusy, tids, handles,
                   frozen, capacity, cursor>>

-----------------------------------------------------------------------------
(***************************************************************************)
(* catch_up_new_threads                                                    *)
(***************************************************************************)

\* External (NtGetNextThread): the next thread in the list.
NextThread(n) == /\ phase = "walk" /\ n \in Listed /\ n > cursor
                 /\ \A m \in Listed : m > cursor => n <= m

\* The next thread is the caller or known, or it is gone and is remembered.
Known(n) == n = passer \/ tid[n] \in frozen

\* Never grow either buffer.
Full_Never == FALSE
Full == Cardinality(handles) = capacity \/ Cardinality(frozen) = capacity

walk_on(n) ==
    /\ NextThread(n)
    /\ \/ Known(n) /\ UNCHANGED frozen
       \/ ~Known(n) /\ ~Full /\ n \notin alive /\ frozen' = frozen \cup {tid[n]}
    /\ cursor' = n
    /\ UNCHANGED <<processVars, stubVars, phase, passer, regions, stillBusy, tids,
                   handles, busy, inspectedAll, capacity, round>>

\* It cannot be caught up: no room, or it refuses to be suspended.
walk_failed(n) ==
    /\ NextThread(n) /\ ~Known(n)
    /\ Full \/ ("suspend" \in Faults /\ n \in alive)
    /\ inspectedAll' = FALSE
    /\ phase' = "release"
    /\ UNCHANGED <<processVars, stubVars, passer, regions, stillBusy, tids, handles,
                   frozen, busy, capacity, cursor, round>>

\* After a new thread: once more from the start, at most Rounds times.
Restarts_Unbounded ==
    round' = round + 1 /\ cursor' = 0 /\ UNCHANGED <<phase, inspectedAll>>
Restarts ==
    \/ /\ round < Rounds /\ round' = round + 1
       /\ cursor' = 0
       /\ UNCHANGED <<phase, inspectedAll>>
    \/ /\ round = Rounds
       /\ inspectedAll' = FALSE /\ phase' = "release"
       /\ UNCHANGED <<cursor, round>>

\* A thread created after the snapshot.
walk_suspend(n) ==
    /\ NextThread(n) /\ ~Known(n) /\ ~Full /\ n \in alive
    /\ Suspend(n)
    /\ frozen' = frozen \cup {tid[n]}
    /\ busy' = busy \cup inspect_thread({n})
    /\ \/ Restarts
       \/ /\ "read" \in Faults /\ inspectedAll' = FALSE /\ phase' = "release"
          /\ UNCHANGED <<cursor, round>>
    /\ UNCHANGED <<born, alive, unjoined, tid, refs, stubVars, passer, regions, stillBusy,
                   tids, capacity>>

\* The list ends with no new thread found in this round.  A call that fails is
\* taken for the end of the list.
walk_end ==
    /\ phase = "walk"
    /\ "walk" \notin Faults => \A m \in Listed : m <= cursor
    /\ phase' = "release"
    /\ UNCHANGED <<processVars, stubVars, passer, regions, stillBusy, scanVars>>

-----------------------------------------------------------------------------
\* The regions nobody is in.
Quiescent_Partial == regions \ busy
Quiescent_AllOrNone == IF inspectedAll /\ busy = {} THEN regions ELSE {}
Quiescent == IF inspectedAll THEN regions \ busy ELSE {}

\* They are released while everybody is still suspended; then all go on.
release ==
    /\ phase = "release"
    /\ mem' = [s \in Stubs |-> IF s \in Quiescent THEN "free" ELSE mem[s]]
    /\ stillBusy' = regions \ Quiescent
    /\ suspended' = suspended \ handles
    /\ handles' = {}
    /\ phase' = "settle"
    /\ UNCHANGED <<born, alive, unjoined, tid, refs, quarantine, tables, osTables, passer,
                   regions, tids, frozen, busy, inspectedAll, capacity, cursor, round>>

\* unwind::settle: the table of a region that stays is registered again.
settle_Forgotten ==
    /\ tables' = [s \in Stubs |-> IF s \in regions \ stillBusy THEN "none" ELSE tables[s]]
    /\ UNCHANGED osTables
settle ==
    /\ tables' = [s \in Stubs |->
                    IF s \in regions \ stillBusy THEN "none"
                    ELSE IF s \in stillBusy /\ tables[s] = "off" THEN "on"
                    ELSE tables[s]]
    /\ osTables' = osTables \cup {s \in stillBusy : tables[s] = "off"}

\* What was still busy goes back to the quarantine.
Requeued == quarantine \cup stillBusy

reclaim_end ==
    /\ phase = "settle"
    /\ settle
    /\ quarantine' = Requeued
    /\ regions' = {} /\ stillBusy' = {}
    /\ phase' = "idle" /\ passer' = 0
    /\ UNCHANGED <<processVars, mem, scanVars>>

-----------------------------------------------------------------------------
Process == \E t \in Threads :
    \/ \E s \in Stubs :
          \/ register_codes(t, s) \/ retire(t, s) \/ enter(t, s)
          \/ \E u \in Threads : leave(t, s, u)
    \/ \E R \in SUBSET refs[t] : spawn(t, R)
    \/ exit(t) \/ join(t)

Walk == walk_end \/ \E n \in Threads : walk_on(n) \/ walk_failed(n) \/ walk_suspend(n)

Pass ==
    \/ free_quiescent_regions \/ inspect \/ Walk \/ release \/ reclaim_end
    \/ \E t \in Threads : freeze(t) \/ freeze_exited(t)

Next == Process \/ Pass \/ \E p \in Threads : reclaim(p)

Spec == Init /\ [][Next]_vars

\* A pass that has begun goes on, and clients keep starting transactions.
FairSpec ==
    /\ Spec
    /\ WF_vars(Pass)
    /\ WF_vars(\E p \in Threads : reclaim(p))

-----------------------------------------------------------------------------
(***************************************************************************)
(* Properties                                                              *)
(***************************************************************************)

(***************************************************************************)
(* No thread has a released stub in its registers or on its stack,         *)
(* whatever threads are created, exit and pass stubs on while the pass     *)
(* suspends them one by one.                                               *)
(***************************************************************************)
NoUseAfterFree == \A t \in alive : \A s \in refs[t] : mem[s] # "free"

(***************************************************************************)
(* The pass resumes every thread it suspended, the late ones too.          *)
(***************************************************************************)
NobodyLeftSuspended == phase \in {"idle", "begin", "settle"} => suspended = {}

(***************************************************************************)
(* Neither buffer is grown while threads are suspended: one of them may    *)
(* own the heap lock.                                                      *)
(***************************************************************************)
BuffersNeverGrow ==
    phase \in {"freeze", "walk"} =>
        Cardinality(handles) <= capacity /\ Cardinality(frozen) <= capacity

(***************************************************************************)
(* Between passes the system has the unwind data of exactly the stubs that *)
(* are allocated: a stub that stays has it back, a released one has none.  *)
(***************************************************************************)
TablesFollowStubs == phase = "idle" => osTables = {s \in Stubs : mem[s] # "free"}

(***************************************************************************)
(* A retired stub that no thread is in is released in the end, however     *)
(* many passes were cut short by new threads.                              *)
(***************************************************************************)
IdleStubIsReleased ==
    \A s \in Stubs :
        (mem[s] = "retired" /\ \A t \in alive : s \notin refs[t]) ~> mem[s] = "free"
=============================================================================
