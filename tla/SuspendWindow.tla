--------------------------- MODULE SuspendWindow ----------------------------
(***************************************************************************)
(* The suspend window of a commit (src/src/transaction.rs), the watchdog   *)
(* (src/src/watchdog.rs) and the lock that keeps two freezes apart         *)
(* (src/src/threads.rs), against threads of the program that execute the   *)
(* hooked code, own the heap lock and the gateway registry, and are        *)
(* suspended wherever they are.                                            *)
(*                                                                         *)
(* A stolen range is two instructions, the first maybe a call: a thread is *)
(* at <<f, "code", 0>>, at <<f, "code", 1>> or at their copies in the      *)
(* trampoline, and a return address on its stack may be the second.        *)
(***************************************************************************)
EXTENDS Naturals, Sequences, FiniteSets

CONSTANTS
    Threads, Client, Watcher, None,
    Funcs,      \* functions that can be hooked
    Rigid,      \* those whose second instruction has no copy of its own
    Calling,    \* those whose first instruction is a call
    MaxQueue, MaxCommits, MaxFreezes, MaxCalls, MaxTampers, MaxGuards,
    Racing,     \* "untracked": commits whose threads were not, or are no longer, tracked;
                \* "return": guarded regions with a call in them
    Faults      \* what the system refuses: "suspend", "context", "write", "table"

Procs == Threads \cup {Client, Watcher}
Locks == {"heap", "tx", "code", "freeze", "regions"}
At(f, where, i) == <<f, where, i>>

ASSUME ProcsAssumption ==
    /\ Client # Watcher /\ None \notin {Client, Watcher}
    /\ {Client, Watcher, None} \cap (Threads \cup Funcs) = {}
ASSUME FuncsAssumption ==
    /\ Rigid \cup Calling \subseteq Funcs /\ "table" \notin Funcs
    /\ None \notin Funcs \X {"code", "tramp"} \X {0, 1}
ASSUME BoundsAssumption == {MaxQueue, MaxCommits, MaxFreezes, MaxCalls, MaxTampers, MaxGuards} \subseteq Nat
ASSUME FaultsAssumption ==
    Racing \subseteq {"untracked", "return"} /\ Faults \subseteq {"suspend", "context", "write", "table"}

VARIABLES
    pos, ret,                       \* a thread's instruction pointer and return address
    susp,                           \* suspend counts
    owner,                          \* the locks
    code,                           \* what the stolen range of a function holds
    live,                           \* the hooks the client owns
    pc, queue, step, failed, tracked, todo,     \* the transaction and its threads
    redirIp, redirStack, installed, \* redirected_threads, redirected_stacks, installed
    before,                         \* where the threads were when the window opened
    guard,                          \* the watchdog's regions
    wpc, mode, running, wtodo, frozen, bad, hits,
    commits, freezes, calls, tampers, guards \* counters for the bounds

threadVars == <<pos, ret, calls>>
txVars == <<pc, queue, step, failed, tracked, todo, redirIp, redirStack, installed, before, commits,
           freezes>>
dogVars == <<wpc, wtodo, frozen, bad, hits>>
apiVars == <<guard, mode, running, tampers, guards>>
vars == <<threadVars, susp, owner, code, live, txVars, dogVars, apiVars>>

Init ==
    /\ pos = [t \in Threads |-> None] /\ ret = [t \in Threads |-> None] /\ calls = 0
    /\ susp = [p \in Procs |-> 0] /\ owner = [l \in Locks |-> None]
    /\ code = [f \in Funcs |-> "orig"] /\ live = {}
    /\ pc = "idle" /\ queue = <<>> /\ step = 1 /\ failed = FALSE /\ tracked = {} /\ todo = {}
    /\ redirIp = {} /\ redirStack = {} /\ installed = {} /\ before = None
    /\ commits = 0 /\ freezes = 0
    /\ guard = [f \in Funcs |-> None] /\ mode = "restore" /\ running = TRUE
    /\ tampers = 0 /\ guards = 0
    /\ wpc = "parked" /\ wtodo = {} /\ frozen = {}
    /\ bad = {} /\ hits = {}

Runs(p) == susp[p] = 0
Free(l) == owner[l] = None
Take(l, p) == owner' = [owner EXCEPT ![l] = p]
Suspend(p) == susp' = [susp EXCEPT ![p] = @ + 1]
Resume(p) == susp' = [susp EXCEPT ![p] = @ - 1]

-----------------------------------------------------------------------------
(***************************************************************************)
(* External: the program's threads                                         *)
(***************************************************************************)

ThreadStep(t) == Runs(t) /\ UNCHANGED <<susp, code, live, txVars, dogVars, apiVars>>
call(t, f) ==
    /\ pos[t] = None /\ calls < MaxCalls
    /\ pos' = [pos EXCEPT ![t] = At(f, "code", 0)] /\ calls' = calls + 1
    /\ UNCHANGED <<ret, owner>>
\* Out of the first instruction: through the jump, into a callee, or over it.
first(t, f) ==
    \E where \in {"code", "tramp"} :
        /\ pos[t] = At(f, where, 0)
        /\ IF where = "code" /\ code[f] = "jump"
           THEN pos' = [pos EXCEPT ![t] = At(f, "tramp", 0)] /\ UNCHANGED ret
           ELSE \/ pos' = [pos EXCEPT ![t] = At(f, where, 1)] /\ UNCHANGED ret
                \/ /\ f \in Calling /\ ret[t] = None
                   /\ pos' = [pos EXCEPT ![t] = None]
                   /\ ret' = [ret EXCEPT ![t] = At(f, where, 1)]
        /\ UNCHANGED <<calls, owner>>
second(t, f) ==
    /\ \E where \in {"code", "tramp"} : pos[t] = At(f, where, 1)
    /\ pos' = [pos EXCEPT ![t] = None] /\ UNCHANGED <<ret, calls, owner>>
return(t) ==
    /\ pos[t] = None /\ ret[t] # None
    /\ pos' = [pos EXCEPT ![t] = ret[t]] /\ ret' = [ret EXCEPT ![t] = None]
    /\ UNCHANGED <<calls, owner>>
\* The heap lock stands for the gateway registry and the quarantine as well.
acquire(t) == pos[t] = None /\ Free("heap") /\ Take("heap", t) /\ UNCHANGED threadVars
release(t) == owner["heap"] = t /\ Take("heap", None) /\ UNCHANGED threadVars

Thread(t) ==
    /\ ThreadStep(t)
    /\ \/ \E f \in Funcs : first(t, f) \/ second(t, f)
       \/ return(t) \/ release(t)
Program(t) ==
    /\ ThreadStep(t)
    /\ \/ \E f \in Funcs : call(t, f)
       \/ acquire(t)
\* External: an integrity check of the program writes the original bytes back.
tamper(t, f) ==
    /\ Runs(t) /\ guard[f] # None /\ code[f] = "jump" /\ tampers < MaxTampers
    /\ code' = [code EXCEPT ![f] = "orig"] /\ tampers' = tampers + 1
    /\ UNCHANGED <<threadVars, susp, owner, live, txVars, dogVars, guard, mode, running, guards>>

-----------------------------------------------------------------------------
(***************************************************************************)
(* The transaction                                                         *)
(***************************************************************************)

ClientStep == Runs(Client) /\ UNCHANGED <<calls, dogVars, apiVars>>
Others == Threads \cup (IF wpc = "exited" THEN {} ELSE {Watcher})
Mine(l) == owner[l] \in {None, Client}

\* begin and update_all_threads, again after a commit that failed.
update_all_threads ==
    /\ pc \in {"idle", "open"} /\ tracked = {} /\ commits < MaxCommits /\ Mine("tx")
    /\ pc' = "open" /\ Take("tx", Client) /\ tracked' = Others
    /\ UNCHANGED <<pos, ret, susp, code, live, queue, step, failed, todo, redirIp, redirStack,
                   installed, before, commits, freezes>>
attach(op) ==
    /\ pc \in {"idle", "open"} /\ commits < MaxCommits
    /\ pc = "open" \/ "untracked" \in Racing
    /\ Len(queue) < MaxQueue /\ op \notin live /\ \A i \in 1..Len(queue) : queue[i] # op
    /\ queue' = Append(queue, op) /\ pc' = "open"
    /\ UNCHANGED <<pos, ret, susp, owner, code, live, step, failed, tracked, todo, redirIp,
                   redirStack, installed, before, commits, freezes>>
abort ==
    /\ pc = "open"
    /\ pc' = "idle" /\ queue' = <<>> /\ tracked' = {}
    /\ owner' = [owner EXCEPT !["tx"] = IF @ = Client THEN None ELSE @]
    /\ UNCHANGED <<pos, ret, susp, code, live, step, failed, todo, redirIp, redirStack, installed,
                   before, commits, freezes>>
\* What a commit allocates it allocates here.
commit ==
    /\ pc = "open" /\ queue # <<>> /\ Mine("tx") /\ Free("heap")
    /\ tracked # {} \/ "untracked" \in Racing
    /\ pc' = "code" /\ Take("tx", Client) /\ commits' = commits + 1
    /\ UNCHANGED <<pos, ret, susp, code, live, queue, step, failed, tracked, todo, redirIp,
                   redirStack, installed, before, freezes>>
hold_code_lock ==
    /\ pc = "code" /\ Free("code")
    /\ pc' = "freeze" /\ Take("code", Client)
    /\ UNCHANGED <<pos, ret, susp, code, live, queue, step, failed, tracked, todo, redirIp,
                   redirStack, installed, before, commits, freezes>>
\* A reclaim pass or the arming of a breakpoint freezes without the other locks.
freeze ==
    /\ pc = "idle" /\ freezes < MaxFreezes
    /\ pc' = "freeze" /\ freezes' = freezes + 1 /\ tracked' = Others
    /\ UNCHANGED <<pos, ret, susp, owner, code, live, queue, step, failed, todo, redirIp,
                   redirStack, installed, before, commits>>
FreezeIsFree == Free("freeze")
hold_freeze_lock ==
    /\ pc = "freeze" /\ FreezeIsFree
    /\ pc' = "suspend" /\ Take("freeze", Client) /\ todo' = tracked
    /\ UNCHANGED <<pos, ret, susp, code, live, queue, step, failed, tracked, redirIp, redirStack,
                   installed, before, commits, freezes>>
\* A thread that cannot be suspended is no longer tracked.
suspend_threads(p) ==
    /\ pc = "suspend" /\ p \in todo
    /\ \E refused \in {FALSE, "suspend" \in Faults} :
          IF refused THEN tracked' = tracked \ {p} /\ UNCHANGED susp
                     ELSE Suspend(p) /\ UNCHANGED tracked
    /\ todo' = todo \ {p}
    /\ UNCHANGED <<pos, ret, owner, code, live, pc, queue, step, failed, redirIp, redirStack,
                   installed, before, commits, freezes>>
suspended ==
    /\ pc = "suspend" /\ todo = {}
    /\ pc' = IF queue = <<>> THEN "resume" ELSE "install"
    /\ todo' = tracked /\ before' = <<pos, ret>>
    /\ UNCHANGED <<pos, ret, susp, owner, code, live, queue, step, failed, tracked, redirIp,
                   redirStack, installed, commits, freezes>>

Fail == pc' = "rollback" /\ UNCHANGED <<pos, ret, code, step, todo, redirIp, redirStack, installed>>
\* redirect_rip_relative_threads: the instruction pointer, then the stack.  What has no copy
\* fails the commit with the pointer already redirected.
map_redirect_address_exact(a) == At(a[1], "tramp", a[3])
Movable(a) == a[1] \notin Rigid \/ a[3] = 0
Hit(a, f) == a # None /\ a[1] = f /\ a[2] = "code"
Moved_Ip(t, f) == <<Hit(pos[t], f), FALSE>>
Moved(t, f) == <<Hit(pos[t], f), Hit(ret[t], f)>>
redirect(t, f) ==
    LET ip == Moved(t, f)[1]
        stack == Moved(t, f)[2]
    IN  IF ip /\ ~Movable(pos[t]) THEN Fail
        ELSE /\ pos' = IF ip THEN [pos EXCEPT ![t] = map_redirect_address_exact(@)] ELSE pos
             /\ redirIp' = redirIp \cup (IF ip THEN {<<t, pos[t]>>} ELSE {})
             /\ IF stack /\ ~Movable(ret[t])
                THEN pc' = "rollback" /\ UNCHANGED <<ret, redirStack, todo>>
                ELSE /\ ret' = IF stack THEN [ret EXCEPT ![t] = map_redirect_address_exact(@)]
                                        ELSE ret
                     /\ redirStack' = redirStack \cup (IF stack THEN {<<t, ret[t]>>} ELSE {})
                     /\ todo' = todo \ {t} /\ UNCHANGED pc
             /\ UNCHANGED <<code, step, installed>>
skip(p) == todo' = todo \ {p} /\ UNCHANGED <<pos, ret, code, pc, step, redirIp, redirStack, installed>>
\* Every thread first, then the jump.
install_inline(f) ==
    \/ \E p \in todo : \E refused \in {FALSE, "context" \in Faults} :
          IF p = Watcher \/ refused THEN skip(p) ELSE redirect(p, f)
    \/ /\ todo = {}
       /\ \E refused \in {FALSE, "write" \in Faults} :
             IF refused THEN Fail
             ELSE /\ code' = [code EXCEPT ![f] = "jump"] /\ installed' = installed \cup {f}
                  /\ step' = step + 1 /\ todo' = tracked
                  /\ UNCHANGED <<pos, ret, pc, redirIp, redirStack>>
\* An operation on a table can fail after functions were patched.
install_table ==
    \E refused \in {FALSE, "table" \in Faults} :
       IF refused THEN Fail
       ELSE step' = step + 1 /\ UNCHANGED <<pos, ret, code, pc, todo, redirIp, redirStack, installed>>
install ==
    /\ pc = "install" /\ step <= Len(queue)
    /\ IF queue[step] = "table" THEN install_table ELSE install_inline(queue[step])
    /\ UNCHANGED <<susp, owner, live, queue, failed, tracked, before, commits, freezes>>
install_done_Publishes ==
    /\ pc = "install" /\ step > Len(queue) /\ Free("heap")
    /\ pc' = "resume" /\ todo' = tracked
    /\ UNCHANGED <<pos, ret, susp, owner, code, live, queue, step, failed, tracked, redirIp,
                   redirStack, installed, before, commits, freezes>>
install_done ==
    /\ pc = "install" /\ step > Len(queue)
    /\ pc' = "resume" /\ todo' = tracked
    /\ UNCHANGED <<pos, ret, susp, owner, code, live, queue, step, failed, tracked, redirIp,
                   redirStack, installed, before, commits, freezes>>
\* Threads first, then the bytes.
PutBack(at, records) ==
    [t \in Threads |-> IF \E a \in records : a[1] = t
                       THEN (CHOOSE a \in records : a[1] = t)[2] ELSE at[t]]
RestoredStacks_Kept == ret
RestoredStacks == PutBack(ret, redirStack)
rollback ==
    /\ pc = "rollback"
    /\ pos' = PutBack(pos, redirIp) /\ ret' = RestoredStacks
    /\ redirIp' = {} /\ redirStack' = {}
    /\ code' = [f \in Funcs |-> IF f \in installed THEN "orig" ELSE code[f]]
    /\ installed' = {} /\ failed' = TRUE
    /\ pc' = "resume" /\ todo' = tracked
    /\ UNCHANGED <<susp, owner, live, queue, step, tracked, before, commits, freezes>>
resume_threads(p) ==
    /\ pc = "resume" /\ p \in todo
    /\ Resume(p) /\ todo' = todo \ {p}
    /\ UNCHANGED <<pos, ret, owner, code, live, pc, queue, step, failed, tracked, redirIp,
                   redirStack, installed, before, commits, freezes>>
\* The threads run again: the registry is updated, or what was built is dismantled.  A failed
\* transaction stays open with no threads and without its lock.
finish ==
    /\ pc = "resume" /\ todo = {} /\ (queue # <<>> => Free("heap"))
    /\ owner' = [l \in Locks |-> IF owner[l] = Client THEN None ELSE owner[l]]
    /\ live' = live \cup installed
    /\ pc' = IF failed THEN "open" ELSE "idle"
    /\ queue' = <<>> /\ step' = 1 /\ failed' = FALSE /\ tracked' = {} /\ before' = None
    /\ redirIp' = {} /\ redirStack' = {} /\ installed' = {}
    /\ UNCHANGED <<pos, ret, susp, code, todo, commits, freezes>>
\* A hook is removed under the code lock alone, after its region was unguarded.
unhook(f) ==
    /\ pc \in {"idle", "open"} /\ f \in live /\ guard[f] = None /\ Free("code")
    /\ code' = [code EXCEPT ![f] = "orig"] /\ live' = live \ {f}
    /\ UNCHANGED <<pos, ret, susp, owner, txVars>>

Commit ==
    /\ ClientStep
    /\ \/ hold_code_lock \/ hold_freeze_lock \/ suspended \/ install \/ install_done
       \/ rollback \/ finish
       \/ \E p \in Procs : suspend_threads(p) \/ resume_threads(p)
Transaction ==
    /\ ClientStep
    /\ \/ update_all_threads \/ abort \/ commit \/ freeze
       \/ \E op \in Funcs \cup {"table"} : attach(op)
       \/ \E f \in Funcs : unhook(f)

-----------------------------------------------------------------------------
(***************************************************************************)
(* The watchdog, as its client calls it                                    *)
(***************************************************************************)

Api == Runs(Client) /\ UNCHANGED <<threadVars, susp, owner, code, live, dogVars, tampers>>
\* The bytes are read now, with no lock; the list waits for a sweep.
guard_region(f) ==
    /\ pc \in {"idle", "open"} /\ running /\ f \in live /\ guard[f] = None /\ guards < MaxGuards
    /\ Free("regions") /\ (f \in Calling => "return" \in Racing)
    /\ guard' = [guard EXCEPT ![f] = [expected |-> code[f], tampered |-> FALSE]]
    /\ guards' = guards + 1
    /\ UNCHANGED <<txVars, mode, running>>
unguard(f) ==
    /\ pc \in {"idle", "open"} /\ guard[f] # None /\ Free("regions")
    /\ guard' = [guard EXCEPT ![f] = None]
    /\ UNCHANGED <<txVars, mode, running, guards>>
set_mode(m) ==
    /\ pc \in {"idle", "open"} /\ \E f \in Funcs : guard[f] # None
    /\ mode # m /\ mode' = m
    /\ UNCHANGED <<txVars, guard, running, guards>>
\* drop stops the thread, then waits for it; an open transaction stays open.
drop ==
    /\ pc \in {"idle", "open"} /\ running
    /\ running' = FALSE /\ pc' = "join"
    /\ UNCHANGED <<queue, step, failed, tracked, todo, redirIp, redirStack, installed, before,
                   commits, freezes, guard, mode, guards>>
join ==
    /\ pc = "join" /\ wpc = "exited"
    /\ pc' = IF owner["tx"] = Client \/ queue # <<>> THEN "open" ELSE "idle"
    /\ UNCHANGED <<queue, step, failed, tracked, todo, redirIp, redirStack, installed, before,
                   commits, freezes, apiVars>>

-----------------------------------------------------------------------------
(***************************************************************************)
(* The watchdog's thread                                                   *)
(***************************************************************************)

Sweep == Runs(Watcher) /\ UNCHANGED <<threadVars, live, txVars, mode, tampers, guards>>
Tampered(f) == guard[f] # None /\ code[f] # guard[f].expected
\* run: park, look whether to go on, then sweep.  A sweep reads the mode and keeps the list
\* locked from the comparison until the flags are set.
run ==
    /\ wpc = "parked" /\ ~running
    /\ wpc' = "exited"
    /\ UNCHANGED <<susp, owner, code, guard, running, wtodo, frozen, bad, hits>>
Compared_Once ==
    /\ bad' = {<<f, guard[f].expected>> :
                f \in {g \in Funcs : Tampered(g) /\ ~guard[g].tampered}}
    /\ guard' = [f \in Funcs |-> IF guard[f] = None \/ Tampered(f) THEN guard[f]
                                  ELSE [guard[f] EXCEPT !.tampered = FALSE]]
    /\ wpc' = IF bad' = {} THEN "parked" ELSE IF mode = "restore" THEN "tx" ELSE "hits"
Compared ==
    /\ bad' = {<<f, guard[f].expected>> : f \in {g \in Funcs : Tampered(g)}}
    /\ guard' = [f \in Funcs |-> IF guard[f] = None \/ Tampered(f) THEN guard[f]
                                  ELSE [guard[f] EXCEPT !.tampered = FALSE]]
    /\ wpc' = IF bad' = {} THEN "parked" ELSE IF mode = "restore" THEN "tx" ELSE "hits"
sweep_Unlocked ==
    /\ wpc = "parked" /\ running /\ Free("regions") /\ Compared
    /\ UNCHANGED <<susp, owner, code, running, wtodo, frozen, hits>>
sweep ==
    /\ wpc = "parked" /\ running /\ Free("regions") /\ Compared
    /\ IF bad' = {} THEN UNCHANGED owner ELSE Take("regions", Watcher)
    /\ UNCHANGED <<susp, code, running, wtodo, frozen, hits>>
\* restore_quiescent: the three locks in their order, without waiting for any.
Release(L) == owner' = [l \in Locks |-> IF l \in L /\ owner[l] = Watcher THEN None ELSE owner[l]]
RestoreLocks == {"tx", "code", "freeze"}
try_lock(l, next) ==
    /\ wpc = l
    /\ IF Free(l) THEN wpc' = next /\ Take(l, Watcher)
                  ELSE wpc' = "hits" /\ Release(RestoreLocks)
    /\ UNCHANGED <<susp, code, guard, running, wtodo, frozen, bad, hits>>
\* Room for the handles is made before the first suspension.
enumerate_process_threads ==
    /\ wpc = "enumerate" /\ Free("heap")
    /\ wpc' = "suspend" /\ wtodo' = Threads \cup {Client}
    /\ UNCHANGED <<susp, owner, code, guard, running, frozen, bad, hits>>
suspend_other(p) ==
    /\ wpc = "suspend" /\ p \in wtodo
    /\ \E refused \in {FALSE, "suspend" \in Faults} :
          IF refused THEN UNCHANGED <<susp, frozen>>
                     ELSE Suspend(p) /\ frozen' = frozen \cup {p}
    /\ wtodo' = wtodo \ {p}
    /\ UNCHANGED <<owner, code, guard, running, wpc, bad, hits>>
\* A region a thread is in is left for a later sweep, all of them if a position is unknown.
Occupied(f) == \E t \in Threads \cap frozen : Hit(pos[t], f)
restore_quiescent ==
    /\ wpc = "suspend" /\ wtodo = {}
    /\ \E refused \in {FALSE, "context" \in Faults} :
          code' = [f \in Funcs |->
                     IF ~refused /\ ~Occupied(f) /\ \E b \in bad : b[1] = f
                     THEN (CHOOSE b \in bad : b[1] = f)[2] ELSE code[f]]
    /\ wpc' = "resume"
    /\ UNCHANGED <<susp, owner, guard, running, wtodo, frozen, bad, hits>>
resume_other(p) ==
    /\ wpc = "resume" /\ p \in frozen
    /\ Resume(p) /\ frozen' = frozen \ {p}
    /\ UNCHANGED <<owner, code, guard, running, wpc, wtodo, bad, hits>>
resumed ==
    /\ wpc = "resume" /\ frozen = {}
    /\ wpc' = "hits" /\ Release(RestoreLocks)
    /\ UNCHANGED <<susp, code, guard, running, wtodo, frozen, bad, hits>>
\* One report for each region that was intact before; the list is unlocked for the callback.
report ==
    /\ wpc = "hits"
    /\ hits' = {f \in Funcs : guard[f] # None /\ ~guard[f].tampered /\ \E b \in bad : b[1] = f}
    /\ guard' = [f \in Funcs |-> IF f \in hits' THEN [guard[f] EXCEPT !.tampered = TRUE] ELSE guard[f]]
    /\ bad' = {} /\ Release({"regions"})
    /\ wpc' = IF hits' = {} THEN "parked" ELSE "callback"
    /\ UNCHANGED <<susp, code, running, wtodo, frozen>>
\* The callback may drop the watchdog or unguard the region; a panic ends it.
callback ==
    /\ wpc = "callback" /\ Free("regions")
    /\ \/ UNCHANGED <<guard, running>>
       \/ running' = FALSE /\ UNCHANGED guard
       \/ \E f \in hits : guard' = [guard EXCEPT ![f] = None] /\ UNCHANGED running
    /\ hits' = {} /\ wpc' = "parked"
    /\ UNCHANGED <<susp, owner, code, wtodo, frozen, bad>>

Watch ==
    /\ Sweep
    /\ \/ run \/ sweep \/ enumerate_process_threads \/ restore_quiescent \/ resumed
       \/ report \/ callback
       \/ try_lock("tx", "code") \/ try_lock("code", "freeze") \/ try_lock("freeze", "enumerate")
       \/ \E p \in Procs : suspend_other(p) \/ resume_other(p)
Join == Api /\ join
Control ==
    /\ Api
    /\ \/ drop \/ \E m \in {"restore", "detect"} : set_mode(m)
       \/ \E f \in Funcs : guard_region(f) \/ unguard(f)

Next ==
    \/ Transaction \/ Commit \/ Control \/ Join \/ Watch
    \/ \E t \in Threads : Thread(t) \/ Program(t) \/ \E f \in Funcs : tamper(t, f)

Spec == Init /\ [][Next]_vars

\* Threads that are not suspended run; the watchdog's park times out; a client's open
\* transaction is committed or aborted.
FairSpec ==
    /\ Spec
    /\ SF_vars(Watch) /\ WF_vars(Join) /\ SF_vars(Commit) /\ WF_vars(ClientStep /\ abort)
    /\ \A t \in Threads : SF_vars(Thread(t))

-----------------------------------------------------------------------------
(***************************************************************************)
(* Properties                                                              *)
(***************************************************************************)

(***************************************************************************)
(* No thread runs on inside bytes that a commit or the watchdog has turned *)
(* into a jump: whoever was inside, or was to return there, was redirected *)
(* into the trampoline before it was resumed, or the write waited.         *)
(***************************************************************************)
NoTornExecution ==
    \A t \in Threads, f \in Funcs :
        Runs(t) /\ pos[t] = At(f, "code", 1) => code[f] = "orig"

(***************************************************************************)
(* A commit that fails gives every thread it had moved its own position    *)
(* and return address back before it resumes it.                           *)
(***************************************************************************)
RollbackMovesBack ==
    pc = "resume" /\ failed =>
        \A t \in Threads \cap todo : pos[t] = before[1][t] /\ ret[t] = before[2][t]

(***************************************************************************)
(* A hook that was unguarded and then removed stays removed, whatever a    *)
(* sweep had found before.                                                 *)
(***************************************************************************)
RemovedStaysRemoved ==
    \A f \in Funcs : f \notin live \cup installed => code[f] = "orig"

(***************************************************************************)
(* Every freeze ends and every call returns: nothing inside a window waits *)
(* for a lock of a suspended thread, two freezes never suspend each other, *)
(* and drop is not blocked by a sweep.                                     *)
(***************************************************************************)
WindowsClose ==
    /\ \A p \in Procs : susp[p] > 0 ~> susp[p] = 0
    /\ pc \notin {"idle", "open"} ~> pc \in {"idle", "open"}

(***************************************************************************)
(* A tampered region is restored in the end, however often a sweep had to  *)
(* put it off, unless the client stops it.                                 *)
(***************************************************************************)
TamperedIsRestored ==
    \A f \in Funcs :
        Tampered(f) ~> (~Tampered(f) \/ mode # "restore" \/ ~running)
=============================================================================
