------------------------ MODULE SuspendWindow_proofs ------------------------
(***************************************************************************)
(* The suspend window of a commit and the watchdog, for any threads,       *)
(* functions, bounds and refusals: what is removed stays removed, a failed *)
(* commit moves every thread back, and, where all threads are found and    *)
(* suspended, nobody runs on in torn code.                                 *)
(***************************************************************************)
EXTENDS SuspendWindow, TLAPS

Spots == Funcs \X {"code", "tramp"} \X {0, 1}
Bytes == {"orig", "jump"}
Regions == [expected : Bytes, tampered : BOOLEAN]

ThreadType ==
    /\ pos \in [Threads -> Spots \cup {None}] /\ ret \in [Threads -> Spots \cup {None}]
    /\ susp \in [Procs -> Nat] /\ owner \in [Locks -> Procs \cup {None}]
    /\ code \in [Funcs -> Bytes] /\ live \subseteq Funcs
TxType ==
    /\ pc \in {"idle", "open", "code", "freeze", "suspend", "install", "rollback", "resume",
               "join"}
    /\ queue \in Seq(Funcs \cup {"table"}) /\ step \in Nat \ {0} /\ failed \in BOOLEAN
    /\ tracked \subseteq Procs /\ todo \subseteq Procs /\ installed \subseteq Funcs
    /\ redirIp \subseteq Threads \X Spots /\ redirStack \subseteq Threads \X Spots
DogType ==
    /\ wpc \in {"parked", "exited", "tx", "code", "freeze", "enumerate", "suspend", "resume",
                "hits", "callback"}
    /\ wtodo \subseteq Procs /\ frozen \subseteq Procs
    /\ bad \subseteq Funcs \X Bytes
    /\ guard \in [Funcs -> Regions \cup {None}]
Types == ThreadType /\ TxType /\ DogType

(* Whom the client has suspended; the count is this and the watchdog's.    *)
Held(p) ==
    \/ pc = "suspend" /\ p \in tracked \ todo
    \/ pc \in {"install", "rollback"} /\ p \in tracked
    \/ pc = "resume" /\ p \in todo
One(b) == IF b THEN 1 ELSE 0
CountOK == \A p \in Procs : susp[p] = One(Held(p)) + One(p \in frozen)
ListOK ==
    /\ Client \notin tracked
    /\ pc \in {"suspend", "install", "resume"} => todo \subseteq tracked
    /\ wpc \notin {"suspend", "resume"} => frozen = {}
    /\ wpc = "suspend" => wtodo \cap frozen = {}

(* A sweep keeps the regions locked as long as it has found something, so  *)
(* that what it is about to write back is still guarded, and hooked.       *)
GuardOK ==
    /\ \A f \in Funcs : guard[f] # None => f \in live
    /\ wpc \in {"parked", "exited", "callback"} => bad = {}
    /\ wpc \notin {"parked", "exited", "callback"} => owner["regions"] = Watcher
    /\ \A b \in bad : guard[b[1]] # None
QueueOK == \A i \in DOMAIN queue : queue[i] \notin live

(* Every thread of the window is where it was, or in the trampoline with a *)
(* record of where it was.                                                 *)
MovesOf(at, records, was) ==
    /\ \A a \in records : /\ a[1] \in tracked /\ a[2] = was[a[1]] /\ a[2][2] = "code"
                          /\ at[a[1]] # None /\ at[a[1]][2] = "tramp"
                          /\ \E i \in DOMAIN queue : queue[i] = a[2][1]
    /\ \A t \in Threads \cap tracked : at[t] = was[t] \/ \E a \in records : a[1] = t
MoveOK ==
    pc \in {"install", "rollback"} =>
        MovesOf(pos, redirIp, before[1]) /\ MovesOf(ret, redirStack, before[2])
WindowOK ==
    /\ pc \notin {"install", "rollback", "resume"} =>
          redirIp = {} /\ redirStack = {} /\ installed = {}
    /\ failed => pc = "resume"
Inv ==
    /\ Types /\ CountOK /\ ListOK /\ GuardOK /\ QueueOK /\ MoveOK /\ WindowOK
    /\ RollbackMovesBack /\ RemovedStaysRemoved

(* Where every thread is tracked, can be suspended and tells its position, *)
(* and no guarded region holds a call.                                     *)
Orderly == Racing = {} /\ {"suspend", "context"} \cap Faults = {}
TornOK ==
    \A t \in Threads, f \in Funcs :
        pos[t] = At(f, "code", 1) \/ ret[t] = At(f, "code", 1) => code[f] = "orig"
ReturnOK ==
    /\ \A t \in Threads : ret[t] # None => ret[t][1] \in Calling
    /\ \A a \in redirStack : a[2][1] \in Calling
    /\ \A f \in Funcs : guard[f] # None => f \notin Calling
TrackOK ==
    /\ tracked = {} \/ Threads \subseteq tracked
    /\ pc \in {"code", "freeze", "suspend", "install"} => Threads \subseteq tracked
DoneOK ==
    pc = "install" /\ step \in DOMAIN queue =>
        /\ queue[step] \notin Funcs => todo = tracked
        /\ queue[step] \in Funcs => \A t \in Threads \ todo :
              ~Hit(pos[t], queue[step]) /\ ~Hit(ret[t], queue[step])
FrozenOK == wpc = "suspend" => Threads \ wtodo \subseteq frozen
NInv == TornOK /\ ReturnOK /\ TrackOK /\ DoneOK /\ FrozenOK

-----------------------------------------------------------------------------

LEMMA Names ==
  /\ Threads \subseteq Procs /\ Client \in Procs /\ Watcher \in Procs /\ Watcher # Client
  /\ None \notin Procs /\ Client \notin Threads /\ Watcher \notin Threads
  /\ "tx" \in Locks /\ "code" \in Locks /\ "freeze" \in Locks /\ "regions" \in Locks
  /\ "heap" \in Locks
<1>1. /\ Threads \subseteq Procs /\ Client \in Procs /\ Watcher \in Procs /\ Watcher # Client
      /\ None \notin Procs /\ Client \notin Threads /\ Watcher \notin Threads
  BY ProcsAssumption DEF Procs
<1>2. /\ "tx" \in Locks /\ "code" \in Locks /\ "freeze" \in Locks /\ "regions" \in Locks
      /\ "heap" \in Locks
  BY DEF Locks
<1>3. QED
  BY <1>1, <1>2

LEMMA NoneElsewhere ==
  /\ None \notin Spots
  /\ \A f \in Funcs, w \in {"code", "tramp"}, i \in {0, 1} : At(f, w, i) \in Spots
  BY FuncsAssumption DEF Spots, At

LEMMA InitInv == Init => Inv /\ NInv
<1>1. SUFFICES ASSUME Init PROVE Inv /\ NInv
  OBVIOUS
<1>2. ThreadType /\ TxType /\ DogType
  <2>1. ThreadType
    BY <1>1 DEF Init, ThreadType, Bytes
  <2>2. TxType
    <3>1. /\ pc = "idle" /\ queue = <<>> /\ step = 1 /\ failed = FALSE /\ tracked = {}
          /\ todo = {} /\ redirIp = {} /\ redirStack = {} /\ installed = {}
      BY <1>1 DEF Init
    <3>2. queue \in Seq(Funcs \cup {"table"})
      BY <3>1
    <3>3. 1 \in Nat \ {0}
      OBVIOUS
    <3>4. QED
      BY <3>1, <3>2, <3>3 DEF TxType
  <2>3. DogType
    <3>1. guard = [f \in Funcs |-> None] /\ None \in Regions \cup {None}
      BY <1>1 DEF Init
    <3>2. guard \in [Funcs -> Regions \cup {None}]
      BY <3>1, Zenon
    <3>3. /\ wpc = "parked" /\ wtodo = {} /\ frozen = {} /\ bad = {}
      BY <1>1 DEF Init
    <3>4. QED
      BY <3>2, <3>3 DEF DogType
  <2>4. QED
    BY <2>1, <2>2, <2>3
<1>3. CountOK /\ ListOK
  BY <1>1 DEF Init, CountOK, ListOK, Held, One
<1>4. GuardOK /\ QueueOK /\ MoveOK /\ WindowOK
  BY <1>1 DEF Init, GuardOK, QueueOK, MoveOK, WindowOK
<1>5. RollbackMovesBack /\ RemovedStaysRemoved
  BY <1>1 DEF Init, RollbackMovesBack, RemovedStaysRemoved
<1>6. TornOK /\ ReturnOK
  BY <1>1, NoneElsewhere DEF Init, TornOK, ReturnOK
<1>7. TrackOK /\ DoneOK /\ FrozenOK
  BY <1>1 DEF Init, TrackOK, DoneOK, FrozenOK
<1>8. QED
  BY <1>2, <1>3, <1>4, <1>5, <1>6, <1>7 DEF Inv, NInv, Types

LEMMA Running ==
  ASSUME Types, CountOK, NEW p \in Procs, Runs(p)
  PROVE  ~Held(p) /\ p \notin frozen
  BY DEF CountOK, Runs, One

-----------------------------------------------------------------------------
(***************************************************************************)
(* The threads of the program                                              *)
(***************************************************************************)

(* A thread that runs is not one that a window has suspended.              *)
LEMMA OwnStep ==
  ASSUME Inv, NEW t \in Threads, Runs(t),
         UNCHANGED <<susp, code, live, txVars, dogVars, guard>>,
         pos' \in [Threads -> Spots \cup {None}], ret' \in [Threads -> Spots \cup {None}],
         owner' \in [Locks -> Procs \cup {None}], owner'["regions"] = owner["regions"],
         \A u \in Threads \ {t} : pos'[u] = pos[u] /\ ret'[u] = ret[u]
  PROVE  /\ Inv'
         /\ NInv /\ (ret'[t] # None => ret'[t][1] \in Calling)
            /\ (\A f \in Funcs : pos'[t] = At(f, "code", 1) \/ ret'[t] = At(f, "code", 1)
                                 => code[f] = "orig") => NInv'
<1>1. UNCHANGED <<pc, queue, step, failed, tracked, todo, redirIp, redirStack, installed, before,
                  wpc, wtodo, frozen, bad>>
  BY DEF txVars, dogVars
<1>2. ~Held(t)
  BY Running, Names DEF Inv
<1>3. Types'
  BY <1>1 DEF Inv, Types, ThreadType, TxType, DogType
<1>4. CountOK' /\ ListOK'
  BY <1>1 DEF Inv, CountOK, ListOK, Held
<1>5. GuardOK' /\ QueueOK' /\ WindowOK' /\ RemovedStaysRemoved'
  BY <1>1 DEF Inv, GuardOK, QueueOK, WindowOK, RemovedStaysRemoved
<1>6. MoveOK'
  <2>1. SUFFICES ASSUME pc \in {"install", "rollback"}
                 PROVE  MovesOf(pos, redirIp, before[1])' /\ MovesOf(ret, redirStack, before[2])'
    BY <1>1 DEF MoveOK
  <2>2. t \notin tracked
    BY <1>2, <2>1 DEF Held
  <2>3. MovesOf(pos, redirIp, before[1]) /\ MovesOf(ret, redirStack, before[2])
    BY <2>1 DEF Inv, MoveOK
  <2>4. /\ \A a \in redirIp : a[1] \in Threads
        /\ \A a \in redirStack : a[1] \in Threads
    BY DEF Inv, Types, TxType
  <2>5. MovesOf(pos, redirIp, before[1])'
    BY <1>1, <2>2, <2>3, <2>4 DEF MovesOf
  <2>6. MovesOf(ret, redirStack, before[2])'
    BY <1>1, <2>2, <2>3, <2>4 DEF MovesOf
  <2>7. QED
    BY <2>5, <2>6
<1>7. RollbackMovesBack'
  BY <1>1, <1>2 DEF Inv, RollbackMovesBack, Held
<1>8. ASSUME NInv, ret'[t] # None => ret'[t][1] \in Calling,
             \A f \in Funcs : pos'[t] = At(f, "code", 1) \/ ret'[t] = At(f, "code", 1)
                              => code[f] = "orig"
      PROVE  NInv'
  <2>1. TornOK'
    BY <1>8 DEF NInv, TornOK
  <2>2. ReturnOK'
    BY <1>1, <1>8 DEF NInv, ReturnOK
  <2>3. TrackOK' /\ FrozenOK'
    BY <1>1, <1>8 DEF NInv, TrackOK, FrozenOK
  <2>4. pc # "install"
    BY <1>2, <1>8 DEF NInv, TrackOK, Held
  <2>5. DoneOK'
    BY <1>1, <2>4 DEF DoneOK
  <2>6. QED
    BY <2>1, <2>2, <2>3, <2>5 DEF NInv
<1>9. QED
  BY <1>3, <1>4, <1>5, <1>6, <1>7, <1>8 DEF Inv

LEMMA ThreadKeeps ==
  ASSUME Inv, NEW t \in Threads, Thread(t) \/ Program(t)
  PROVE  Inv' /\ (NInv => NInv')
<1>1. Runs(t) /\ UNCHANGED <<susp, code, live, txVars, dogVars, guard>>
  BY DEF Thread, Program, ThreadStep, apiVars
<1>2. /\ pos \in [Threads -> Spots \cup {None}] /\ ret \in [Threads -> Spots \cup {None}]
      /\ owner \in [Locks -> Procs \cup {None}] /\ code \in [Funcs -> Bytes]
  BY DEF Inv, Types, ThreadType
<1>3. TornOK /\ ReturnOK => /\ ret[t] # None => ret[t][1] \in Calling
                            /\ \A f \in Funcs :
                                  pos[t] = At(f, "code", 1) \/ ret[t] = At(f, "code", 1)
                                  => code[f] = "orig"
  BY DEF TornOK, ReturnOK
<1>4. ASSUME NEW f \in Funcs, call(t, f) PROVE Inv' /\ (NInv => NInv')
  <2>1. /\ pos' = [pos EXCEPT ![t] = At(f, "code", 0)] /\ ret' = ret /\ owner' = owner
    BY <1>4 DEF call
  <2>2. /\ pos' \in [Threads -> Spots \cup {None}] /\ pos'[t] = At(f, "code", 0)
        /\ \A u \in Threads \ {t} : pos'[u] = pos[u]
    BY <1>2, <2>1, NoneElsewhere
  <2>3. \A g \in Funcs : pos'[t] # At(g, "code", 1)
    BY <2>2 DEF At
  <2>4. QED
    BY <1>1, <1>2, <1>3, <2>1, <2>2, <2>3, OwnStep DEF NInv
<1>5. ASSUME NEW f \in Funcs, first(t, f) PROVE Inv' /\ (NInv => NInv')
  <2>1. PICK where \in {"code", "tramp"} :
           /\ pos[t] = At(f, where, 0) /\ UNCHANGED <<calls, owner>>
           /\ IF where = "code" /\ code[f] = "jump"
              THEN pos' = [pos EXCEPT ![t] = At(f, "tramp", 0)] /\ UNCHANGED ret
              ELSE \/ pos' = [pos EXCEPT ![t] = At(f, where, 1)] /\ UNCHANGED ret
                   \/ /\ f \in Calling /\ ret[t] = None
                      /\ pos' = [pos EXCEPT ![t] = None]
                      /\ ret' = [ret EXCEPT ![t] = At(f, where, 1)]
    BY <1>5 DEF first
  <2>2. CASE where = "code" /\ code[f] = "jump"
    <3>1. /\ pos' \in [Threads -> Spots \cup {None}] /\ pos'[t] = At(f, "tramp", 0) /\ ret' = ret
          /\ \A u \in Threads \ {t} : pos'[u] = pos[u]
      BY <1>2, <2>1, <2>2, NoneElsewhere
    <3>2. \A g \in Funcs : pos'[t] # At(g, "code", 1)
      BY <3>1 DEF At
    <3>3. QED
      BY <1>1, <1>2, <1>3, <2>1, <3>1, <3>2, OwnStep DEF NInv
  <2>3. CASE ~(where = "code" /\ code[f] = "jump")
    <3>1. where = "code" => code[f] = "orig"
      BY <1>2, <2>3 DEF Bytes
    <3>2. \A g \in Funcs : At(f, where, 1) = At(g, "code", 1) => code[g] = "orig"
      BY <3>1 DEF At
    <3>3. CASE pos' = [pos EXCEPT ![t] = At(f, where, 1)] /\ UNCHANGED ret
      <4>1. /\ pos' \in [Threads -> Spots \cup {None}] /\ pos'[t] = At(f, where, 1) /\ ret' = ret
            /\ \A u \in Threads \ {t} : pos'[u] = pos[u]
        BY <1>2, <3>3, NoneElsewhere
      <4>2. QED
        BY <1>1, <1>2, <1>3, <2>1, <3>2, <4>1, OwnStep DEF NInv
    <3>4. CASE /\ f \in Calling /\ ret[t] = None
               /\ pos' = [pos EXCEPT ![t] = None]
               /\ ret' = [ret EXCEPT ![t] = At(f, where, 1)]
      <4>1. /\ pos' \in [Threads -> Spots \cup {None}] /\ pos'[t] = None
            /\ ret' \in [Threads -> Spots \cup {None}] /\ ret'[t] = At(f, where, 1)
            /\ \A u \in Threads \ {t} : pos'[u] = pos[u] /\ ret'[u] = ret[u]
        BY <1>2, <3>4, NoneElsewhere
      <4>2. At(f, where, 1)[1] \in Calling
        BY <3>4 DEF At
      <4>3. \A g \in Funcs : None # At(g, "code", 1)
        BY NoneElsewhere
      <4>4. QED
        BY <1>1, <1>2, <2>1, <3>2, <4>1, <4>2, <4>3, OwnStep
    <3>5. QED
      BY <2>1, <2>3, <3>3, <3>4
  <2>4. QED
    BY <2>2, <2>3
<1>6. ASSUME NEW f \in Funcs, second(t, f) PROVE Inv' /\ (NInv => NInv')
  <2>1. /\ pos' = [pos EXCEPT ![t] = None] /\ ret' = ret /\ owner' = owner
    BY <1>6 DEF second
  <2>2. /\ pos' \in [Threads -> Spots \cup {None}] /\ pos'[t] = None
        /\ \A u \in Threads \ {t} : pos'[u] = pos[u]
    BY <1>2, <2>1
  <2>3. \A g \in Funcs : None # At(g, "code", 1)
    BY NoneElsewhere
  <2>4. QED
    BY <1>1, <1>2, <1>3, <2>1, <2>2, <2>3, OwnStep DEF NInv
<1>7. CASE return(t)
  <2>1. /\ pos' = [pos EXCEPT ![t] = ret[t]] /\ ret' = [ret EXCEPT ![t] = None] /\ owner' = owner
    BY <1>7 DEF return
  <2>2. /\ pos' \in [Threads -> Spots \cup {None}] /\ pos'[t] = ret[t]
        /\ ret' \in [Threads -> Spots \cup {None}] /\ ret'[t] = None
        /\ \A u \in Threads \ {t} : pos'[u] = pos[u] /\ ret'[u] = ret[u]
    BY <1>2, <2>1
  <2>3. \A g \in Funcs : None # At(g, "code", 1)
    BY NoneElsewhere
  <2>4. QED
    BY <1>1, <1>2, <1>3, <2>1, <2>2, <2>3, OwnStep DEF NInv
<1>8. CASE acquire(t) \/ release(t)
  <2>1. /\ pos' = pos /\ ret' = ret
        /\ owner' \in [Locks -> Procs \cup {None}] /\ owner'["regions"] = owner["regions"]
    BY <1>2, <1>8, Names DEF acquire, release, Take, threadVars
  <2>2. QED
    BY <1>1, <1>2, <1>3, <2>1, OwnStep DEF NInv
<1>9. QED
  BY <1>4, <1>5, <1>6, <1>7, <1>8 DEF Thread, Program

LEMMA tamperKeeps ==
  ASSUME Inv, NEW t \in Threads, NEW f \in Funcs, tamper(t, f)
  PROVE  Inv' /\ (NInv => NInv')
<1>1. /\ code' = [code EXCEPT ![f] = "orig"]
      /\ UNCHANGED <<pos, ret, susp, owner, live, pc, queue, step, failed, tracked, todo, redirIp,
                     redirStack, installed, before, wpc, wtodo, frozen, bad, guard>>
  BY DEF tamper, threadVars, txVars, dogVars
<1>2. code' \in [Funcs -> Bytes] /\ \A g \in Funcs : code[g] = "orig" => code'[g] = "orig"
  BY <1>1 DEF Inv, Types, ThreadType, Bytes
<1>3. Types'
  BY <1>1, <1>2 DEF Inv, Types, ThreadType, TxType, DogType
<1>4. CountOK' /\ ListOK' /\ GuardOK' /\ QueueOK'
  BY <1>1 DEF Inv, CountOK, ListOK, Held, GuardOK, QueueOK
<1>5. MoveOK' /\ WindowOK' /\ RollbackMovesBack'
  BY <1>1 DEF Inv, MoveOK, MovesOf, WindowOK, RollbackMovesBack
<1>6. RemovedStaysRemoved'
  BY <1>1, <1>2 DEF Inv, RemovedStaysRemoved
<1>7. ASSUME NInv PROVE NInv'
  <2>1. TornOK'
    BY <1>1, <1>2, <1>7 DEF NInv, TornOK
  <2>2. ReturnOK' /\ TrackOK' /\ FrozenOK' /\ DoneOK'
    BY <1>1, <1>7 DEF NInv, ReturnOK, TrackOK, FrozenOK, DoneOK
  <2>3. QED
    BY <2>1, <2>2 DEF NInv
<1>8. QED
  BY <1>3, <1>4, <1>5, <1>6, <1>7 DEF Inv

-----------------------------------------------------------------------------
(***************************************************************************)
(* The client outside a window                                             *)
(***************************************************************************)

LEMMA ClientStepIs ==
  ASSUME ClientStep
  PROVE  /\ Runs(Client) /\ guard' = guard
         /\ UNCHANGED <<wpc, wtodo, frozen, bad>>
  BY DEF ClientStep, dogVars, apiVars

LEMMA OutsideStep ==
  ASSUME Inv,
         pc \in {"idle", "open", "code", "freeze", "join"},
         pc' \in {"idle", "open", "code", "freeze", "join"},
         UNCHANGED <<pos, ret, susp, code, live, step, failed, todo, redirIp, redirStack,
                     installed, before, wpc, wtodo, frozen, bad>>,
         queue' \in Seq(Funcs \cup {"table"}), QueueOK',
         tracked' \subseteq Procs, Client \notin tracked',
         owner' \in [Locks -> Procs \cup {None}],
         guard' \in [Funcs -> Regions \cup {None}], GuardOK'
  PROVE  Inv' /\ (NInv /\ TrackOK' /\ ReturnOK' => NInv')
<1>1. Types'
  BY DEF Inv, Types, ThreadType, TxType, DogType
<1>2. CountOK'
  BY DEF Inv, CountOK, Held
<1>3. ListOK'
  BY DEF Inv, ListOK
<1>4. MoveOK' /\ WindowOK' /\ RollbackMovesBack' /\ RemovedStaysRemoved'
  BY DEF Inv, MoveOK, WindowOK, RollbackMovesBack, RemovedStaysRemoved
<1>5. NInv /\ TrackOK' /\ ReturnOK' => NInv'
  BY DEF NInv, TornOK, DoneOK, FrozenOK
<1>6. QED
  BY <1>1, <1>2, <1>3, <1>4, <1>5 DEF Inv

LEMMA OthersAre == Others \subseteq Procs /\ Client \notin Others /\ Threads \subseteq Others
  BY Names DEF Others, Procs

LEMMA update_all_threadsKeeps ==
  ASSUME Inv, ClientStep, update_all_threads
  PROVE  Inv' /\ (Orderly /\ NInv => NInv')
<1>1. /\ pc \in {"idle", "open"} /\ pc' = "open" /\ tracked' = Others
      /\ owner' = [owner EXCEPT !["tx"] = Client]
      /\ UNCHANGED <<pos, ret, susp, code, live, queue, step, failed, todo, redirIp, redirStack,
                     installed, before>>
  BY DEF update_all_threads, Take
<1>2. owner' \in [Locks -> Procs \cup {None}] /\ owner'["regions"] = owner["regions"]
  BY <1>1, Names DEF Inv, Types, ThreadType
<1>3. queue' \in Seq(Funcs \cup {"table"}) /\ guard' \in [Funcs -> Regions \cup {None}]
  BY <1>1, ClientStepIs DEF Inv, Types, TxType, DogType
<1>4. QueueOK' /\ GuardOK'
  BY <1>1, <1>2, ClientStepIs DEF Inv, QueueOK, GuardOK
<1>5. NInv => TrackOK' /\ ReturnOK'
  BY <1>1, OthersAre, ClientStepIs DEF NInv, TrackOK, ReturnOK
<1>6. QED
  BY <1>1, <1>2, <1>3, <1>4, <1>5, OthersAre, ClientStepIs, OutsideStep

LEMMA attachKeeps ==
  ASSUME Inv, ClientStep, NEW op \in Funcs \cup {"table"}, attach(op)
  PROVE  Inv' /\ (Orderly /\ NInv => NInv')
<1>1. /\ pc \in {"idle", "open"} /\ pc' = "open" /\ queue' = Append(queue, op) /\ op \notin live
      /\ UNCHANGED <<pos, ret, susp, owner, code, live, tracked, step, failed, todo, redirIp,
                     redirStack, installed, before>>
  BY DEF attach
<1>2. /\ queue \in Seq(Funcs \cup {"table"}) /\ tracked \subseteq Procs
      /\ owner \in [Locks -> Procs \cup {None}] /\ guard \in [Funcs -> Regions \cup {None}]
      /\ Client \notin tracked
  BY DEF Inv, Types, ThreadType, TxType, DogType, ListOK
<1>3. /\ queue' \in Seq(Funcs \cup {"table"})
      /\ \A i \in DOMAIN queue' : queue'[i] = op \/ (i \in DOMAIN queue /\ queue'[i] = queue[i])
  BY <1>1, <1>2
<1>4. QueueOK' /\ GuardOK'
  BY <1>1, <1>3, ClientStepIs DEF Inv, QueueOK, GuardOK
<1>5. NInv => TrackOK' /\ ReturnOK'
  BY <1>1, ClientStepIs DEF NInv, TrackOK, ReturnOK
<1>6. QED
  BY <1>1, <1>2, <1>3, <1>4, <1>5, ClientStepIs, OutsideStep

LEMMA abortKeeps ==
  ASSUME Inv, ClientStep, abort
  PROVE  Inv' /\ (Orderly /\ NInv => NInv')
<1>1. /\ pc = "open" /\ pc' = "idle" /\ queue' = <<>> /\ tracked' = {}
      /\ owner' = [owner EXCEPT !["tx"] = IF @ = Client THEN None ELSE @]
      /\ UNCHANGED <<pos, ret, susp, code, live, step, failed, todo, redirIp, redirStack,
                     installed, before>>
  BY DEF abort
<1>2. owner' \in [Locks -> Procs \cup {None}] /\ owner'["regions"] = owner["regions"]
  BY <1>1, Names DEF Inv, Types, ThreadType
<1>3. queue' \in Seq(Funcs \cup {"table"}) /\ guard' \in [Funcs -> Regions \cup {None}]
  BY <1>1, ClientStepIs DEF Inv, Types, DogType
<1>4. QueueOK' /\ GuardOK'
  BY <1>1, <1>2, ClientStepIs DEF Inv, QueueOK, GuardOK
<1>5. NInv => TrackOK' /\ ReturnOK'
  BY <1>1, ClientStepIs DEF NInv, TrackOK, ReturnOK
<1>6. QED
  BY <1>1, <1>2, <1>3, <1>4, <1>5, ClientStepIs, OutsideStep

LEMMA commitKeeps ==
  ASSUME Inv, ClientStep, commit
  PROVE  Inv' /\ (Orderly /\ NInv => NInv')
<1>1. /\ pc = "open" /\ pc' = "code" /\ (tracked # {} \/ "untracked" \in Racing)
      /\ owner' = [owner EXCEPT !["tx"] = Client]
      /\ UNCHANGED <<pos, ret, susp, code, live, queue, tracked, step, failed, todo, redirIp,
                     redirStack, installed, before>>
  BY DEF commit, Take
<1>2. /\ owner' \in [Locks -> Procs \cup {None}] /\ owner'["regions"] = owner["regions"]
      /\ tracked' \subseteq Procs /\ Client \notin tracked'
  BY <1>1, Names DEF Inv, Types, ThreadType, TxType, ListOK
<1>3. queue' \in Seq(Funcs \cup {"table"}) /\ guard' \in [Funcs -> Regions \cup {None}]
  BY <1>1, ClientStepIs DEF Inv, Types, TxType, DogType
<1>4. QueueOK' /\ GuardOK'
  BY <1>1, <1>2, ClientStepIs DEF Inv, QueueOK, GuardOK
<1>5. Orderly /\ NInv => TrackOK' /\ ReturnOK'
  BY <1>1, ClientStepIs DEF Orderly, NInv, TrackOK, ReturnOK
<1>6. QED
  BY <1>1, <1>2, <1>3, <1>4, <1>5, ClientStepIs, OutsideStep

LEMMA hold_code_lockKeeps ==
  ASSUME Inv, ClientStep, hold_code_lock
  PROVE  Inv' /\ (Orderly /\ NInv => NInv')
<1>1. /\ pc = "code" /\ pc' = "freeze" /\ owner' = [owner EXCEPT !["code"] = Client]
      /\ UNCHANGED <<pos, ret, susp, code, live, queue, tracked, step, failed, todo, redirIp,
                     redirStack, installed, before>>
  BY DEF hold_code_lock, Take
<1>2. /\ owner' \in [Locks -> Procs \cup {None}] /\ owner'["regions"] = owner["regions"]
      /\ tracked' \subseteq Procs /\ Client \notin tracked'
  BY <1>1, Names DEF Inv, Types, ThreadType, TxType, ListOK
<1>3. queue' \in Seq(Funcs \cup {"table"}) /\ guard' \in [Funcs -> Regions \cup {None}]
  BY <1>1, ClientStepIs DEF Inv, Types, TxType, DogType
<1>4. QueueOK' /\ GuardOK'
  BY <1>1, <1>2, ClientStepIs DEF Inv, QueueOK, GuardOK
<1>5. NInv => TrackOK' /\ ReturnOK'
  BY <1>1, ClientStepIs DEF NInv, TrackOK, ReturnOK
<1>6. QED
  BY <1>1, <1>2, <1>3, <1>4, <1>5, ClientStepIs, OutsideStep

LEMMA freezeKeeps ==
  ASSUME Inv, ClientStep, freeze
  PROVE  Inv' /\ (Orderly /\ NInv => NInv')
<1>1. /\ pc = "idle" /\ pc' = "freeze" /\ tracked' = Others
      /\ UNCHANGED <<pos, ret, susp, owner, code, live, queue, step, failed, todo, redirIp,
                     redirStack, installed, before>>
  BY DEF freeze
<1>2. owner' \in [Locks -> Procs \cup {None}]
  BY <1>1 DEF Inv, Types, ThreadType
<1>3. queue' \in Seq(Funcs \cup {"table"}) /\ guard' \in [Funcs -> Regions \cup {None}]
  BY <1>1, ClientStepIs DEF Inv, Types, TxType, DogType
<1>4. QueueOK' /\ GuardOK'
  BY <1>1, ClientStepIs DEF Inv, QueueOK, GuardOK
<1>5. NInv => TrackOK' /\ ReturnOK'
  BY <1>1, OthersAre, ClientStepIs DEF NInv, TrackOK, ReturnOK
<1>6. QED
  BY <1>1, <1>2, <1>3, <1>4, <1>5, OthersAre, ClientStepIs, OutsideStep

LEMMA unhookKeeps ==
  ASSUME Inv, ClientStep, NEW f \in Funcs, unhook(f)
  PROVE  Inv' /\ (Orderly /\ NInv => NInv')
<1>1. /\ pc \in {"idle", "open"} /\ guard[f] = None
      /\ code' = [code EXCEPT ![f] = "orig"] /\ live' = live \ {f}
      /\ UNCHANGED <<pos, ret, susp, owner, pc, queue, step, failed, tracked, todo, redirIp,
                     redirStack, installed, before>>
  BY DEF unhook, txVars
<1>2. /\ code' \in [Funcs -> Bytes] /\ code'[f] = "orig"
      /\ \A g \in Funcs \ {f} : code'[g] = code[g]
  BY <1>1 DEF Inv, Types, ThreadType, Bytes
<1>3. Types'
  BY <1>1, <1>2, ClientStepIs DEF Inv, Types, ThreadType, TxType, DogType
<1>4. CountOK' /\ ListOK' /\ GuardOK' /\ QueueOK'
  BY <1>1, ClientStepIs DEF Inv, CountOK, ListOK, Held, GuardOK, QueueOK
<1>5. MoveOK' /\ WindowOK' /\ RollbackMovesBack' /\ RemovedStaysRemoved'
  BY <1>1, <1>2 DEF Inv, MoveOK, WindowOK, RollbackMovesBack, RemovedStaysRemoved
<1>6. ASSUME NInv PROVE NInv'
  <2>1. TornOK' /\ ReturnOK'
    BY <1>1, <1>2, <1>6, ClientStepIs DEF NInv, TornOK, ReturnOK
  <2>2. TrackOK' /\ FrozenOK' /\ DoneOK'
    BY <1>1, <1>6, ClientStepIs DEF NInv, TrackOK, FrozenOK, DoneOK
  <2>3. QED
    BY <2>1, <2>2 DEF NInv
<1>7. QED
  BY <1>3, <1>4, <1>5, <1>6 DEF Inv

LEMMA ControlKeeps ==
  ASSUME Inv, Control \/ Join
  PROVE  Inv' /\ (Orderly /\ NInv => NInv')
<1>1. UNCHANGED <<pos, ret, susp, owner, code, live, wpc, wtodo, frozen, bad>>
  BY DEF Control, Join, Api, threadVars, dogVars
<1>2. /\ queue \in Seq(Funcs \cup {"table"}) /\ tracked \subseteq Procs
      /\ owner \in [Locks -> Procs \cup {None}] /\ guard \in [Funcs -> Regions \cup {None}]
      /\ Client \notin tracked /\ code \in [Funcs -> Bytes]
  BY DEF Inv, Types, ThreadType, TxType, DogType, ListOK
<1>3. GuardOK /\ QueueOK
  BY DEF Inv
<1>4. ASSUME UNCHANGED <<queue, step, failed, tracked, todo, redirIp, redirStack, installed,
                         before, guard>>,
             pc \in {"idle", "open", "join"}, pc' \in {"idle", "open", "join"}
      PROVE  Inv' /\ (Orderly /\ NInv => NInv')
  <2>1. QueueOK' /\ GuardOK'
    BY <1>1, <1>3, <1>4 DEF QueueOK, GuardOK
  <2>2. NInv => TrackOK' /\ ReturnOK'
    BY <1>1, <1>4 DEF NInv, TrackOK, ReturnOK
  <2>3. QED
    BY <1>1, <1>2, <1>4, <2>1, <2>2, OutsideStep
<1>5. CASE drop \/ join \/ \E m \in {"restore", "detect"} : set_mode(m)
  BY <1>4, <1>5 DEF drop, join, set_mode, txVars, apiVars
<1>6. ASSUME owner["regions"] = None, NEW f \in Funcs, NEW g, g = None \/ g \in Regions,
             guard' = [guard EXCEPT ![f] = g], UNCHANGED txVars, pc \in {"idle", "open"},
             g # None => f \in live /\ (f \in Calling => "return" \in Racing)
      PROVE  Inv' /\ (Orderly /\ NInv => NInv')
  <2>1. UNCHANGED <<pc, queue, step, failed, tracked, todo, redirIp, redirStack, installed, before>>
    BY <1>6 DEF txVars
  <2>2. bad = {} /\ wpc \in {"parked", "exited", "callback"}
    BY <1>3, <1>6, Names DEF GuardOK
  <2>3. /\ guard' \in [Funcs -> Regions \cup {None}]
        /\ guard'[f] = g /\ \A h \in Funcs \ {f} : guard'[h] = guard[h]
    BY <1>2, <1>6
  <2>4. QueueOK' /\ GuardOK'
    BY <1>1, <1>3, <1>6, <2>1, <2>2, <2>3 DEF QueueOK, GuardOK
  <2>5. Orderly /\ NInv => TrackOK' /\ ReturnOK'
    BY <1>1, <1>6, <2>1, <2>3 DEF Orderly, NInv, TrackOK, ReturnOK
  <2>6. QED
    BY <1>1, <1>2, <1>6, <2>1, <2>3, <2>4, <2>5, OutsideStep
<1>7. ASSUME NEW f \in Funcs, guard_region(f) PROVE Inv' /\ (Orderly /\ NInv => NInv')
  <2>1. [expected |-> code[f], tampered |-> FALSE] \in Regions
    BY <1>2 DEF Regions
  <2>2. QED
    BY <1>6, <1>7, <2>1 DEF guard_region, Free
<1>8. ASSUME NEW f \in Funcs, unguard(f) PROVE Inv' /\ (Orderly /\ NInv => NInv')
  BY <1>6, <1>8 DEF unguard, Free
<1>9. QED
  BY <1>5, <1>7, <1>8 DEF Control, Join

-----------------------------------------------------------------------------
(***************************************************************************)
(* The watchdog's thread                                                   *)
(***************************************************************************)

LEMMA SweepIs ==
  ASSUME Sweep
  PROVE  UNCHANGED <<pos, ret, live, pc, queue, step, failed, tracked, todo, redirIp, redirStack,
                     installed, before>>
  BY DEF Sweep, threadVars, txVars

LEMMA DogStep ==
  ASSUME Inv, Sweep, UNCHANGED <<susp, code, frozen>>,
         owner' \in [Locks -> Procs \cup {None}], DogType', ListOK', GuardOK'
  PROVE  Inv' /\ (NInv /\ ReturnOK' /\ FrozenOK' => NInv')
<1>1. Types'
  BY SweepIs DEF Inv, Types, ThreadType, TxType
<1>2. CountOK' /\ QueueOK' /\ WindowOK'
  <2>1. \A p \in Procs : Held(p)' <=> Held(p)
    BY SweepIs DEF Held
  <2>2. CountOK'
    BY <2>1 DEF Inv, CountOK, One
  <2>3. QED
    BY <2>2, SweepIs DEF Inv, QueueOK, WindowOK
<1>3. MoveOK' /\ RollbackMovesBack' /\ RemovedStaysRemoved'
  BY SweepIs DEF Inv, MoveOK, MovesOf, RollbackMovesBack, RemovedStaysRemoved
<1>4. NInv => TornOK' /\ TrackOK' /\ DoneOK'
  BY SweepIs DEF NInv, TornOK, TrackOK, DoneOK
<1>5. QED
  BY <1>1, <1>2, <1>3, <1>4 DEF Inv, NInv

LEMMA runKeeps ==
  ASSUME Inv, Sweep, run
  PROVE  Inv' /\ (Orderly /\ NInv => NInv')
<1>1. /\ wpc = "parked" /\ wpc' = "exited"
      /\ UNCHANGED <<susp, owner, code, guard, wtodo, frozen, bad>>
  BY DEF run
<1>2. owner' \in [Locks -> Procs \cup {None}]
  BY <1>1 DEF Inv, Types, ThreadType
<1>3. DogType' /\ ListOK' /\ GuardOK'
  BY <1>1, SweepIs DEF Inv, Types, DogType, ListOK, GuardOK
<1>4. NInv => ReturnOK' /\ FrozenOK'
  BY <1>1, SweepIs DEF NInv, ReturnOK, FrozenOK
<1>5. QED
  BY <1>1, <1>2, <1>3, <1>4, DogStep

LEMMA sweepKeeps ==
  ASSUME Inv, Sweep, sweep
  PROVE  Inv' /\ (Orderly /\ NInv => NInv')
<1>1. /\ wpc = "parked" /\ UNCHANGED <<susp, code, wtodo, frozen>>
      /\ bad' = {<<f, guard[f].expected>> : f \in {g \in Funcs : Tampered(g)}}
      /\ guard' = [f \in Funcs |-> IF guard[f] = None \/ Tampered(f) THEN guard[f]
                                    ELSE [guard[f] EXCEPT !.tampered = FALSE]]
      /\ wpc' \in {"parked", "tx", "hits"} /\ (wpc' = "parked" <=> bad' = {})
      /\ bad' = {} => owner' = owner
      /\ bad' # {} => owner' = [owner EXCEPT !["regions"] = Watcher]
  BY DEF sweep, Compared, Take
<1>2. guard \in [Funcs -> Regions \cup {None}] /\ owner \in [Locks -> Procs \cup {None}]
  BY DEF Inv, Types, ThreadType, DogType
<1>3. owner' \in [Locks -> Procs \cup {None}] /\ (bad' # {} => owner'["regions"] = Watcher)
  BY <1>1, <1>2, Names
<1>4. \A f \in Funcs : guard[f] # None => guard[f] \in Regions
  BY <1>2
<1>5. /\ \A f \in Funcs : guard[f] = None => guard'[f] = None
      /\ \A f \in Funcs : Tampered(f) => guard'[f] # None
  BY <1>1 DEF Tampered
<1>6. \A f \in Funcs : guard'[f] \in Regions \cup {None}
  <2>1. SUFFICES ASSUME NEW f \in Funcs, guard[f] # None, ~Tampered(f)
                 PROVE  [guard[f] EXCEPT !.tampered = FALSE] \in Regions
    BY <1>1, <1>2
  <2>2. guard[f] \in Regions
    BY <1>4, <2>1
  <2>3. QED
    BY <2>2 DEF Regions
<1>7. guard' \in [Funcs -> Regions \cup {None}]
  <2>1. guard' = [f \in Funcs |-> guard'[f]]
    BY <1>1
  <2>2. QED
    BY <1>6, <2>1, Zenon
<1>8. \A b \in bad' : \E f \in Funcs : Tampered(f) /\ b = <<f, guard[f].expected>>
  BY <1>1
<1>9. \A f \in Funcs : Tampered(f) => guard[f].expected \in Bytes
  BY <1>4 DEF Tampered, Regions
<1>10. bad' \subseteq Funcs \X Bytes /\ \A b \in bad' : guard'[b[1]] # None
  BY <1>5, <1>8, <1>9
<1>11. DogType'
  BY <1>1, <1>7, <1>10 DEF Inv, Types, DogType
<1>12. ListOK'
  BY <1>1, SweepIs DEF Inv, ListOK
<1>13. GuardOK'
  BY <1>1, <1>3, <1>5, <1>10, SweepIs DEF Inv, GuardOK
<1>14. NInv => ReturnOK' /\ FrozenOK'
  BY <1>1, <1>5, SweepIs DEF NInv, ReturnOK, FrozenOK
<1>15. QED
  BY <1>1, <1>3, <1>11, <1>12, <1>13, <1>14, DogStep

LEMMA ReleaseKeeps ==
  ASSUME Inv, NEW L, Release(L)
  PROVE  /\ owner' \in [Locks -> Procs \cup {None}]
         /\ "regions" \notin L => owner'["regions"] = owner["regions"]
  BY Names DEF Inv, Types, ThreadType, Release

LEMMA try_lockKeeps ==
  ASSUME Inv, Sweep, NEW l \in RestoreLocks, NEW next \in {"code", "freeze", "enumerate"},
         try_lock(l, next)
  PROVE  Inv' /\ (Orderly /\ NInv => NInv')
<1>1. /\ wpc = l /\ wpc' \in {next, "hits"}
      /\ owner' = [owner EXCEPT ![l] = Watcher] \/ Release(RestoreLocks)
      /\ UNCHANGED <<susp, code, guard, wtodo, frozen, bad>>
  BY DEF try_lock, Take
<1>2. l \in Locks /\ l # "regions" /\ "regions" \notin RestoreLocks
  BY DEF Locks, RestoreLocks
<1>3. owner' \in [Locks -> Procs \cup {None}] /\ owner'["regions"] = owner["regions"]
  <2>1. CASE owner' = [owner EXCEPT ![l] = Watcher]
    BY <1>2, <2>1, Names DEF Inv, Types, ThreadType
  <2>2. CASE Release(RestoreLocks)
    BY <1>2, <2>2, ReleaseKeeps
  <2>3. QED
    BY <1>1, <2>1, <2>2
<1>4. wpc \in {"tx", "code", "freeze"} /\ wpc' \in {"code", "freeze", "enumerate", "hits"}
  BY <1>1 DEF RestoreLocks
<1>5. DogType' /\ ListOK' /\ GuardOK'
  BY <1>1, <1>3, <1>4, SweepIs DEF Inv, Types, DogType, ListOK, GuardOK
<1>6. NInv => ReturnOK' /\ FrozenOK'
  BY <1>1, <1>4, SweepIs DEF NInv, ReturnOK, FrozenOK
<1>7. QED
  BY <1>1, <1>3, <1>5, <1>6, DogStep

LEMMA enumerateKeeps ==
  ASSUME Inv, Sweep, enumerate_process_threads
  PROVE  Inv' /\ (Orderly /\ NInv => NInv')
<1>1. /\ wpc = "enumerate" /\ wpc' = "suspend" /\ wtodo' = Threads \cup {Client}
      /\ UNCHANGED <<susp, owner, code, guard, frozen, bad>>
  BY DEF enumerate_process_threads
<1>2. owner' \in [Locks -> Procs \cup {None}]
  BY <1>1 DEF Inv, Types, ThreadType
<1>3. wtodo' \subseteq Procs
  BY <1>1 DEF Procs
<1>4. DogType' /\ ListOK' /\ GuardOK'
  BY <1>1, <1>3, SweepIs DEF Inv, Types, DogType, ListOK, GuardOK
<1>5. NInv => ReturnOK' /\ FrozenOK'
  BY <1>1, SweepIs DEF NInv, ReturnOK, FrozenOK
<1>6. QED
  BY <1>1, <1>2, <1>4, <1>5, DogStep

LEMMA resumedKeeps ==
  ASSUME Inv, Sweep, resumed
  PROVE  Inv' /\ (Orderly /\ NInv => NInv')
<1>1. /\ wpc = "resume" /\ wpc' = "hits" /\ frozen = {} /\ Release(RestoreLocks)
      /\ UNCHANGED <<susp, code, guard, wtodo, frozen, bad>>
  BY DEF resumed
<1>2. owner' \in [Locks -> Procs \cup {None}] /\ owner'["regions"] = owner["regions"]
  BY <1>1, ReleaseKeeps DEF RestoreLocks
<1>3. DogType' /\ ListOK' /\ GuardOK'
  BY <1>1, <1>2, SweepIs DEF Inv, Types, DogType, ListOK, GuardOK
<1>4. NInv => ReturnOK' /\ FrozenOK'
  BY <1>1, SweepIs DEF NInv, ReturnOK, FrozenOK
<1>5. QED
  BY <1>1, <1>2, <1>3, <1>4, DogStep

LEMMA reportKeeps ==
  ASSUME Inv, Sweep, report
  PROVE  Inv' /\ (Orderly /\ NInv => NInv')
<1>1. /\ wpc = "hits" /\ wpc' \in {"parked", "callback"} /\ bad' = {} /\ Release({"regions"})
      /\ guard' = [f \in Funcs |-> IF f \in hits' THEN [guard[f] EXCEPT !.tampered = TRUE]
                                                   ELSE guard[f]]
      /\ \A f \in hits' : guard[f] # None
      /\ UNCHANGED <<susp, code, wtodo, frozen>>
  BY DEF report
<1>2. guard \in [Funcs -> Regions \cup {None}] /\ owner' \in [Locks -> Procs \cup {None}]
  BY <1>1, ReleaseKeeps DEF Inv, Types, DogType
<1>3. \A f \in Funcs : guard[f] = None => guard'[f] = None
  BY <1>1
<1>4. \A f \in Funcs : guard'[f] \in Regions \cup {None}
  <2>1. SUFFICES ASSUME NEW f \in Funcs, f \in hits'
                 PROVE  [guard[f] EXCEPT !.tampered = TRUE] \in Regions
    BY <1>1, <1>2
  <2>2. guard[f] \in Regions
    BY <1>1, <1>2, <2>1
  <2>3. QED
    BY <2>2 DEF Regions
<1>5. guard' \in [Funcs -> Regions \cup {None}]
  <2>1. guard' = [f \in Funcs |-> guard'[f]]
    BY <1>1
  <2>2. QED
    BY <1>4, <2>1, Zenon
<1>6. DogType' /\ ListOK' /\ GuardOK'
  BY <1>1, <1>3, <1>5, SweepIs DEF Inv, Types, DogType, ListOK, GuardOK
<1>7. NInv => ReturnOK' /\ FrozenOK'
  BY <1>1, <1>3, SweepIs DEF NInv, ReturnOK, FrozenOK
<1>8. QED
  BY <1>1, <1>2, <1>6, <1>7, DogStep

LEMMA callbackKeeps ==
  ASSUME Inv, Sweep, callback
  PROVE  Inv' /\ (Orderly /\ NInv => NInv')
<1>1. /\ wpc = "callback" /\ wpc' = "parked"
      /\ UNCHANGED <<susp, owner, code, wtodo, frozen, bad>>
      /\ guard' = guard \/ \E f \in hits : guard' = [guard EXCEPT ![f] = None]
  BY DEF callback
<1>2. guard \in [Funcs -> Regions \cup {None}] /\ owner' \in [Locks -> Procs \cup {None}]
  BY <1>1 DEF Inv, Types, DogType, ThreadType
<1>3. /\ guard' \in [Funcs -> Regions \cup {None}]
      /\ \A f \in Funcs : guard[f] = None => guard'[f] = None
  BY <1>1, <1>2
<1>4. bad = {}
  BY <1>1 DEF Inv, GuardOK
<1>5. DogType' /\ ListOK' /\ GuardOK'
  BY <1>1, <1>3, <1>4, SweepIs DEF Inv, Types, DogType, ListOK, GuardOK
<1>6. NInv => ReturnOK' /\ FrozenOK'
  BY <1>1, <1>3, SweepIs DEF NInv, ReturnOK, FrozenOK
<1>7. QED
  BY <1>1, <1>2, <1>5, <1>6, DogStep

(* The watchdog suspends a thread it has not suspended, or resumes one.    *)
LEMMA FreezeStep ==
  ASSUME Inv, Sweep, NEW p \in Procs, UNCHANGED <<owner, code, guard, wpc, bad>>,
         \/ susp' = susp /\ frozen' = frozen
         \/ p \notin frozen /\ susp' = [susp EXCEPT ![p] = @ + 1] /\ frozen' = frozen \cup {p}
         \/ p \in frozen /\ susp' = [susp EXCEPT ![p] = @ - 1] /\ frozen' = frozen \ {p},
         wtodo' \subseteq Procs, ListOK'
  PROVE  Inv' /\ (NInv /\ FrozenOK' => NInv')
<1>1. susp \in [Procs -> Nat] /\ frozen \subseteq Procs
  BY DEF Inv, Types, ThreadType, DogType
<1>2. \A q \in Procs : susp[q] = One(Held(q)) + One(q \in frozen)
  BY DEF Inv, CountOK
<1>3. \A q \in Procs : Held(q)' <=> Held(q)
  BY SweepIs DEF Held
<1>4. p \in frozen => susp[p] > 0
  BY <1>2 DEF One
<1>5. susp' \in [Procs -> Nat] /\ frozen' \subseteq Procs
  BY <1>1, <1>4
<1>6. \A q \in Procs : susp'[q] = One(Held(q)) + One(q \in frozen')
  BY <1>1, <1>2 DEF One
<1>7. CountOK'
  BY <1>3, <1>6 DEF CountOK, One
<1>8. Types'
  BY <1>5, SweepIs DEF Inv, Types, ThreadType, TxType, DogType
<1>9. GuardOK' /\ QueueOK' /\ WindowOK'
  BY SweepIs DEF Inv, GuardOK, QueueOK, WindowOK
<1>10. MoveOK' /\ RollbackMovesBack' /\ RemovedStaysRemoved'
  BY SweepIs DEF Inv, MoveOK, MovesOf, RollbackMovesBack, RemovedStaysRemoved
<1>11. NInv => TornOK' /\ ReturnOK' /\ TrackOK' /\ DoneOK'
  BY SweepIs DEF NInv, TornOK, ReturnOK, TrackOK, DoneOK
<1>12. QED
  BY <1>7, <1>8, <1>9, <1>10, <1>11 DEF Inv, NInv

LEMMA suspend_otherKeeps ==
  ASSUME Inv, Sweep, NEW p \in Procs, suspend_other(p)
  PROVE  Inv' /\ (Orderly /\ NInv => NInv')
<1>1. /\ wpc = "suspend" /\ p \in wtodo /\ wtodo' = wtodo \ {p}
      /\ UNCHANGED <<owner, code, guard, wpc, bad>>
      /\ \/ "suspend" \in Faults /\ susp' = susp /\ frozen' = frozen
         \/ susp' = [susp EXCEPT ![p] = @ + 1] /\ frozen' = frozen \cup {p}
  BY DEF suspend_other, Suspend
<1>2. p \notin frozen
  BY <1>1 DEF Inv, ListOK
<1>3. wtodo' \subseteq Procs /\ ListOK'
  BY <1>1, SweepIs DEF Inv, Types, DogType, ListOK
<1>4. Orderly /\ NInv => FrozenOK'
  BY <1>1 DEF Orderly, NInv, FrozenOK
<1>5. QED
  BY <1>1, <1>2, <1>3, <1>4, FreezeStep

LEMMA resume_otherKeeps ==
  ASSUME Inv, Sweep, NEW p \in Procs, resume_other(p)
  PROVE  Inv' /\ (Orderly /\ NInv => NInv')
<1>1. /\ wpc = "resume" /\ p \in frozen /\ UNCHANGED <<owner, code, guard, wpc, wtodo, bad>>
      /\ susp' = [susp EXCEPT ![p] = @ - 1] /\ frozen' = frozen \ {p}
  BY DEF resume_other, Resume
<1>2. wtodo' \subseteq Procs /\ ListOK'
  BY <1>1, SweepIs DEF Inv, Types, DogType, ListOK
<1>3. FrozenOK'
  BY <1>1 DEF FrozenOK
<1>4. QED
  BY <1>1, <1>2, <1>3, FreezeStep

(* The watchdog writes only regions that are guarded, so only hooks of the *)
(* client; and, where it has every thread suspended, only where nobody is. *)
LEMMA restore_quiescentKeeps ==
  ASSUME Inv, Sweep, restore_quiescent
  PROVE  Inv' /\ (Orderly /\ NInv => NInv')
<1>1. /\ wpc = "suspend" /\ wtodo = {} /\ wpc' = "resume"
      /\ UNCHANGED <<susp, owner, guard, wtodo, frozen, bad>>
  BY DEF restore_quiescent
<1>2. PICK refused \in {FALSE, "context" \in Faults} :
         code' = [f \in Funcs |-> IF ~refused /\ ~Occupied(f) /\ \E b \in bad : b[1] = f
                                  THEN (CHOOSE b \in bad : b[1] = f)[2] ELSE code[f]]
  BY DEF restore_quiescent
<1>3. /\ code \in [Funcs -> Bytes] /\ bad \subseteq Funcs \X Bytes
      /\ pos \in [Threads -> Spots \cup {None}]
  BY DEF Inv, Types, ThreadType, DogType
<1>4. ASSUME NEW f \in Funcs
      PROVE  /\ code'[f] \in Bytes
             /\ code'[f] = code[f] \/ (guard[f] # None /\ ~Occupied(f))
  <2>1. CASE ~refused /\ ~Occupied(f) /\ \E b \in bad : b[1] = f
    <3>1. code'[f] = (CHOOSE b \in bad : b[1] = f)[2]
      BY <1>2, <2>1
    <3>2. PICK c \in bad : c[1] = f /\ c = CHOOSE b \in bad : b[1] = f
      BY <2>1
    <3>3. c[2] \in Bytes
      BY <1>3, <3>2
    <3>4. guard[f] # None
      BY <3>2 DEF Inv, GuardOK
    <3>5. QED
      BY <2>1, <3>1, <3>2, <3>3, <3>4
  <2>2. CASE ~(~refused /\ ~Occupied(f) /\ \E b \in bad : b[1] = f)
    <3>1. code'[f] = code[f]
      BY <1>2, <2>2
    <3>2. QED
      BY <1>3, <3>1
  <2>3. QED
    BY <2>1, <2>2
<1>5. code' \in [Funcs -> Bytes]
  BY <1>2, <1>4
<1>6. Types'
  BY <1>1, <1>5, SweepIs DEF Inv, Types, ThreadType, TxType, DogType
<1>7. CountOK' /\ QueueOK' /\ WindowOK' /\ ListOK' /\ GuardOK'
  <2>1. \A p \in Procs : Held(p)' <=> Held(p)
    BY SweepIs DEF Held
  <2>2. CountOK'
    BY <1>1, <2>1 DEF Inv, CountOK, One
  <2>3. QED
    BY <1>1, <2>2, SweepIs DEF Inv, QueueOK, WindowOK, ListOK, GuardOK
<1>8. MoveOK' /\ RollbackMovesBack'
  BY SweepIs DEF Inv, MoveOK, MovesOf, RollbackMovesBack
<1>9. RemovedStaysRemoved'
  BY <1>4, SweepIs DEF Inv, GuardOK, RemovedStaysRemoved
<1>10. ASSUME NInv PROVE NInv'
  <2>1. ASSUME NEW t \in Threads, NEW f \in Funcs,
               pos[t] = At(f, "code", 1) \/ ret[t] = At(f, "code", 1)
        PROVE  code'[f] = "orig"
    <3>1. code[f] = "orig"
      BY <1>10, <2>1 DEF NInv, TornOK
    <3>2. SUFFICES ASSUME guard[f] # None, ~Occupied(f) PROVE FALSE
      BY <1>4, <3>1
    <3>3. f \notin Calling
      BY <1>10, <3>2 DEF NInv, ReturnOK
    <3>4. At(f, "code", 1) # None /\ At(f, "code", 1)[1] = f /\ At(f, "code", 1)[2] = "code"
      BY NoneElsewhere DEF At
    <3>5. CASE pos[t] = At(f, "code", 1)
      <4>1. t \in frozen
        BY <1>1, <1>10 DEF NInv, FrozenOK
      <4>2. QED
        BY <3>2, <3>4, <3>5, <4>1 DEF Occupied, Hit
    <3>6. CASE ret[t] = At(f, "code", 1)
      BY <1>10, <3>3, <3>4, <3>6 DEF NInv, ReturnOK
    <3>7. QED
      BY <2>1, <3>5, <3>6
  <2>2. TornOK'
    BY <2>1, SweepIs DEF TornOK
  <2>3. ReturnOK' /\ TrackOK' /\ DoneOK' /\ FrozenOK'
    BY <1>1, <1>10, SweepIs DEF NInv, ReturnOK, TrackOK, DoneOK, FrozenOK
  <2>4. QED
    BY <2>2, <2>3 DEF NInv
<1>11. QED
  BY <1>6, <1>7, <1>8, <1>9, <1>10 DEF Inv

LEMMA WatchKeeps ==
  ASSUME Inv, Watch
  PROVE  Inv' /\ (Orderly /\ NInv => NInv')
<1>1. Sweep
  BY DEF Watch
<1>2. CASE try_lock("tx", "code") \/ try_lock("code", "freeze") \/ try_lock("freeze", "enumerate")
  <2>1. "tx" \in RestoreLocks /\ "code" \in RestoreLocks /\ "freeze" \in RestoreLocks
    BY DEF RestoreLocks
  <2>2. QED
    BY <1>1, <1>2, <2>1, try_lockKeeps
<1>3. CASE \E p \in Procs : suspend_other(p) \/ resume_other(p)
  BY <1>1, <1>3, suspend_otherKeeps, resume_otherKeeps
<1>4. QED
  BY <1>1, <1>2, <1>3, runKeeps, sweepKeeps, enumerateKeeps, restore_quiescentKeeps, resumedKeeps,
     reportKeeps, callbackKeeps DEF Watch

-----------------------------------------------------------------------------
(***************************************************************************)
(* The window                                                              *)
(***************************************************************************)

LEMMA hold_freeze_lockKeeps ==
  ASSUME Inv, ClientStep, hold_freeze_lock
  PROVE  Inv' /\ (Orderly /\ NInv => NInv')
<1>1. /\ pc = "freeze" /\ pc' = "suspend" /\ todo' = tracked
      /\ owner' = [owner EXCEPT !["freeze"] = Client]
      /\ UNCHANGED <<pos, ret, susp, code, live, queue, step, failed, tracked, redirIp,
                     redirStack, installed, before>>
  BY DEF hold_freeze_lock, Take
<1>2. owner' \in [Locks -> Procs \cup {None}] /\ owner'["regions"] = owner["regions"]
  BY <1>1, Names DEF Inv, Types, ThreadType
<1>3. Types'
  BY <1>1, <1>2, ClientStepIs DEF Inv, Types, ThreadType, TxType, DogType
<1>4. CountOK'
  <2>1. \A p \in Procs : ~Held(p) /\ ~Held(p)'
    BY <1>1 DEF Held
  <2>2. QED
    BY <1>1, <2>1, ClientStepIs DEF Inv, CountOK, One
<1>5. ListOK' /\ GuardOK' /\ QueueOK'
  BY <1>1, <1>2, ClientStepIs DEF Inv, ListOK, GuardOK, QueueOK
<1>6. MoveOK' /\ WindowOK' /\ RollbackMovesBack' /\ RemovedStaysRemoved'
  BY <1>1 DEF Inv, MoveOK, WindowOK, RollbackMovesBack, RemovedStaysRemoved
<1>7. NInv => NInv'
  BY <1>1, ClientStepIs DEF NInv, TornOK, ReturnOK, TrackOK, DoneOK, FrozenOK
<1>8. QED
  BY <1>3, <1>4, <1>5, <1>6, <1>7 DEF Inv

LEMMA suspend_threadsKeeps ==
  ASSUME Inv, ClientStep, NEW p \in Procs, suspend_threads(p)
  PROVE  Inv' /\ (Orderly /\ NInv => NInv')
<1>1. /\ pc = "suspend" /\ p \in todo /\ todo' = todo \ {p}
      /\ \/ "suspend" \in Faults /\ tracked' = tracked \ {p} /\ susp' = susp
         \/ susp' = [susp EXCEPT ![p] = @ + 1] /\ tracked' = tracked
      /\ UNCHANGED <<pos, ret, owner, code, live, pc, queue, step, failed, redirIp, redirStack,
                     installed, before>>
  BY DEF suspend_threads, Suspend
<1>2. /\ susp \in [Procs -> Nat] /\ todo \subseteq tracked
      /\ \A q \in Procs : susp[q] = One(Held(q)) + One(q \in frozen)
  BY <1>1 DEF Inv, Types, ThreadType, CountOK, ListOK
<1>3. /\ ~Held(p) /\ (Held(p)' <=> p \in tracked')
      /\ \A q \in Procs \ {p} : Held(q)' <=> Held(q)
  BY <1>1 DEF Held
<1>4. /\ susp' \in [Procs -> Nat]
      /\ \A q \in Procs \ {p} : susp'[q] = susp[q]
      /\ susp'[p] = susp[p] + One(p \in tracked')
  BY <1>1, <1>2 DEF One
<1>5. CountOK'
  BY <1>2, <1>3, <1>4, ClientStepIs DEF CountOK, One
<1>6. Types'
  BY <1>1, <1>4, ClientStepIs DEF Inv, Types, ThreadType, TxType, DogType
<1>7. ListOK' /\ GuardOK' /\ QueueOK'
  BY <1>1, <1>2, ClientStepIs DEF Inv, ListOK, GuardOK, QueueOK
<1>8. MoveOK' /\ WindowOK' /\ RollbackMovesBack' /\ RemovedStaysRemoved'
  BY <1>1 DEF Inv, MoveOK, WindowOK, RollbackMovesBack, RemovedStaysRemoved
<1>9. Orderly /\ NInv => NInv'
  BY <1>1, ClientStepIs DEF Orderly, NInv, TornOK, ReturnOK, TrackOK, DoneOK, FrozenOK
<1>10. QED
  BY <1>5, <1>6, <1>7, <1>8, <1>9 DEF Inv

LEMMA suspendedKeeps ==
  ASSUME Inv, ClientStep, suspended
  PROVE  Inv' /\ (Orderly /\ NInv => NInv')
<1>1. /\ pc = "suspend" /\ todo = {} /\ pc' \in {"resume", "install"} /\ todo' = tracked
      /\ before' = <<pos, ret>>
      /\ UNCHANGED <<pos, ret, susp, owner, code, live, queue, step, failed, tracked, redirIp,
                     redirStack, installed>>
  BY DEF suspended
<1>2. \A q \in Procs : Held(q)' <=> Held(q)
  BY <1>1 DEF Held
<1>3. CountOK'
  BY <1>1, <1>2, ClientStepIs DEF Inv, CountOK, One
<1>4. Types'
  BY <1>1, ClientStepIs DEF Inv, Types, ThreadType, TxType, DogType
<1>5. ListOK' /\ GuardOK' /\ QueueOK'
  BY <1>1, ClientStepIs DEF Inv, ListOK, GuardOK, QueueOK
<1>6. redirIp = {} /\ redirStack = {} /\ installed = {} /\ ~failed
  BY <1>1 DEF Inv, WindowOK
<1>7. before'[1] = pos /\ before'[2] = ret
  BY <1>1
<1>8. MoveOK'
  BY <1>1, <1>6, <1>7 DEF MoveOK, MovesOf
<1>9. WindowOK' /\ RollbackMovesBack' /\ RemovedStaysRemoved'
  BY <1>1, <1>6 DEF Inv, WindowOK, RollbackMovesBack, RemovedStaysRemoved
<1>10. NInv => NInv'
  BY <1>1, ClientStepIs DEF NInv, TornOK, ReturnOK, TrackOK, DoneOK, FrozenOK
<1>11. QED
  BY <1>3, <1>4, <1>5, <1>8, <1>9, <1>10 DEF Inv

LEMMA install_doneKeeps ==
  ASSUME Inv, ClientStep, install_done
  PROVE  Inv' /\ (Orderly /\ NInv => NInv')
<1>1. /\ pc = "install" /\ pc' = "resume" /\ todo' = tracked
      /\ UNCHANGED <<pos, ret, susp, owner, code, live, queue, step, failed, tracked, redirIp,
                     redirStack, installed, before>>
  BY DEF install_done
<1>2. \A q \in Procs : Held(q)' <=> Held(q)
  BY <1>1 DEF Held
<1>3. CountOK'
  BY <1>1, <1>2, ClientStepIs DEF Inv, CountOK, One
<1>4. Types'
  BY <1>1, ClientStepIs DEF Inv, Types, ThreadType, TxType, DogType
<1>5. ListOK' /\ GuardOK' /\ QueueOK'
  BY <1>1, ClientStepIs DEF Inv, ListOK, GuardOK, QueueOK
<1>6. MoveOK' /\ WindowOK' /\ RollbackMovesBack' /\ RemovedStaysRemoved'
  BY <1>1 DEF Inv, MoveOK, WindowOK, RollbackMovesBack, RemovedStaysRemoved
<1>7. NInv => NInv'
  BY <1>1, ClientStepIs DEF NInv, TornOK, ReturnOK, TrackOK, DoneOK, FrozenOK
<1>8. QED
  BY <1>3, <1>4, <1>5, <1>6, <1>7 DEF Inv

LEMMA resume_threadsKeeps ==
  ASSUME Inv, ClientStep, NEW p \in Procs, resume_threads(p)
  PROVE  Inv' /\ (Orderly /\ NInv => NInv')
<1>1. /\ pc = "resume" /\ p \in todo /\ todo' = todo \ {p}
      /\ susp' = [susp EXCEPT ![p] = @ - 1]
      /\ UNCHANGED <<pos, ret, owner, code, live, pc, queue, step, failed, tracked, redirIp,
                     redirStack, installed, before>>
  BY DEF resume_threads, Resume
<1>2. /\ susp \in [Procs -> Nat]
      /\ \A q \in Procs : susp[q] = One(Held(q)) + One(q \in frozen)
  BY <1>1 DEF Inv, Types, ThreadType, CountOK
<1>3. /\ Held(p) /\ ~Held(p)'
      /\ \A q \in Procs \ {p} : Held(q)' <=> Held(q)
  BY <1>1 DEF Held
<1>4. susp[p] > 0
  BY <1>2, <1>3 DEF One
<1>5. /\ susp' \in [Procs -> Nat]
      /\ \A q \in Procs \ {p} : susp'[q] = susp[q]
      /\ susp'[p] = susp[p] - 1
  BY <1>1, <1>2, <1>4
<1>6. CountOK'
  BY <1>2, <1>3, <1>5, ClientStepIs DEF CountOK, One
<1>7. Types'
  BY <1>1, <1>5, ClientStepIs DEF Inv, Types, ThreadType, TxType, DogType
<1>8. ListOK' /\ GuardOK' /\ QueueOK'
  BY <1>1, ClientStepIs DEF Inv, ListOK, GuardOK, QueueOK
<1>9. MoveOK' /\ WindowOK' /\ RollbackMovesBack' /\ RemovedStaysRemoved'
  BY <1>1 DEF Inv, MoveOK, WindowOK, RollbackMovesBack, RemovedStaysRemoved
<1>10. NInv => NInv'
  BY <1>1, ClientStepIs DEF NInv, TornOK, ReturnOK, TrackOK, DoneOK, FrozenOK
<1>11. QED
  BY <1>6, <1>7, <1>8, <1>9, <1>10 DEF Inv

LEMMA finishKeeps ==
  ASSUME Inv, ClientStep, finish
  PROVE  Inv' /\ (Orderly /\ NInv => NInv')
<1>1. /\ pc = "resume" /\ todo = {} /\ pc' \in {"open", "idle"}
      /\ owner' = [l \in Locks |-> IF owner[l] = Client THEN None ELSE owner[l]]
      /\ live' = live \cup installed /\ queue' = <<>> /\ step' = 1 /\ failed' = FALSE
      /\ tracked' = {} /\ redirIp' = {} /\ redirStack' = {} /\ installed' = {}
      /\ UNCHANGED <<pos, ret, susp, code, todo>>
  BY DEF finish
<1>2. /\ owner' \in [Locks -> Procs \cup {None}]
      /\ owner["regions"] = Watcher => owner'["regions"] = Watcher
  BY <1>1, Names DEF Inv, Types, ThreadType
<1>3. queue' \in Seq(Funcs \cup {"table"}) /\ DOMAIN queue' = {}
  BY <1>1
<1>4. ThreadType' /\ DogType'
  BY <1>1, <1>2, ClientStepIs DEF Inv, Types, ThreadType, TxType, DogType
<1>5. TxType'
  <2>1. 1 \in Nat \ {0}
    OBVIOUS
  <2>2. QED
    BY <1>1, <1>3, <2>1 DEF Inv, Types, TxType
<1>6. CountOK'
  <2>1. \A q \in Procs : ~Held(q) /\ ~Held(q)'
    BY <1>1 DEF Held
  <2>2. QED
    BY <1>1, <2>1, ClientStepIs DEF Inv, CountOK, One
<1>7. ListOK' /\ GuardOK' /\ QueueOK'
  BY <1>1, <1>2, <1>3, ClientStepIs DEF Inv, ListOK, GuardOK, QueueOK
<1>8. MoveOK' /\ WindowOK' /\ RollbackMovesBack' /\ RemovedStaysRemoved'
  BY <1>1 DEF Inv, MoveOK, WindowOK, RollbackMovesBack, RemovedStaysRemoved
<1>9. NInv => NInv'
  BY <1>1, ClientStepIs DEF NInv, TornOK, ReturnOK, TrackOK, DoneOK, FrozenOK
<1>10. QED
  BY <1>4, <1>5, <1>6, <1>7, <1>8, <1>9 DEF Inv, Types

(* Putting the threads back undoes the moves, and touches nobody else.     *)
LEMMA PutBackIs ==
  ASSUME NEW at \in [Threads -> Spots \cup {None}], NEW records \in SUBSET (Threads \X Spots),
         NEW was, MovesOf(at, records, was)
  PROVE  /\ PutBack(at, records) \in [Threads -> Spots \cup {None}]
         /\ \A t \in Threads \cap tracked : PutBack(at, records)[t] = was[t]
         /\ \A t \in Threads :
               \/ PutBack(at, records)[t] = at[t]
               \/ \E a \in records : a[1] = t /\ PutBack(at, records)[t] = a[2]
<1>1. ASSUME NEW t \in Threads
      PROVE  /\ PutBack(at, records)[t] \in Spots \cup {None}
             /\ t \in tracked => PutBack(at, records)[t] = was[t]
             /\ \/ PutBack(at, records)[t] = at[t]
                \/ \E a \in records : a[1] = t /\ PutBack(at, records)[t] = a[2]
  <2>1. CASE \E a \in records : a[1] = t
    <3>1. PICK c \in records : c[1] = t /\ c = CHOOSE a \in records : a[1] = t
      BY <2>1
    <3>2. PutBack(at, records)[t] = c[2]
      BY <2>1, <3>1 DEF PutBack
    <3>3. c[2] \in Spots /\ c[2] = was[t]
      BY <3>1 DEF MovesOf
    <3>4. QED
      BY <3>1, <3>2, <3>3
  <2>2. CASE ~\E a \in records : a[1] = t
    <3>1. PutBack(at, records)[t] = at[t]
      BY <2>2 DEF PutBack
    <3>2. QED
      BY <2>2, <3>1 DEF MovesOf
  <2>3. QED
    BY <2>1, <2>2
<1>2. PutBack(at, records) \in [Threads -> Spots \cup {None}]
  <2>1. PutBack(at, records) = [t \in Threads |-> PutBack(at, records)[t]]
    BY DEF PutBack
  <2>2. \A t \in Threads : PutBack(at, records)[t] \in Spots \cup {None}
    BY <1>1
  <2>3. QED
    BY <2>1, <2>2, Zenon
<1>3. QED
  BY <1>1, <1>2

LEMMA rollbackKeeps ==
  ASSUME Inv, ClientStep, rollback
  PROVE  Inv' /\ (Orderly /\ NInv => NInv')
<1>1. /\ pc = "rollback" /\ pc' = "resume" /\ todo' = tracked
      /\ pos' = PutBack(pos, redirIp) /\ ret' = PutBack(ret, redirStack)
      /\ redirIp' = {} /\ redirStack' = {} /\ installed' = {} /\ failed' = TRUE
      /\ code' = [f \in Funcs |-> IF f \in installed THEN "orig" ELSE code[f]]
      /\ UNCHANGED <<susp, owner, live, queue, step, tracked, before>>
  BY DEF rollback, RestoredStacks
<1>2. /\ pos \in [Threads -> Spots \cup {None}] /\ ret \in [Threads -> Spots \cup {None}]
      /\ redirIp \in SUBSET (Threads \X Spots) /\ redirStack \in SUBSET (Threads \X Spots)
      /\ code \in [Funcs -> Bytes]
  BY DEF Inv, Types, ThreadType, TxType
<1>3. MovesOf(pos, redirIp, before[1]) /\ MovesOf(ret, redirStack, before[2])
  BY <1>1 DEF Inv, MoveOK
<1>4. /\ pos' \in [Threads -> Spots \cup {None}]
      /\ \A t \in Threads \cap tracked : pos'[t] = before[1][t]
      /\ \A t \in Threads : pos'[t] = pos[t] \/ \E a \in redirIp : a[1] = t /\ pos'[t] = a[2]
  BY <1>1, <1>2, <1>3, PutBackIs
<1>5. /\ ret' \in [Threads -> Spots \cup {None}]
      /\ \A t \in Threads \cap tracked : ret'[t] = before[2][t]
      /\ \A t \in Threads : ret'[t] = ret[t] \/ \E a \in redirStack : a[1] = t /\ ret'[t] = a[2]
  BY <1>1, <1>2, <1>3, PutBackIs
<1>6. /\ code' \in [Funcs -> Bytes]
      /\ \A f \in Funcs : f \in installed => code'[f] = "orig"
      /\ \A f \in Funcs : f \notin installed => code'[f] = code[f]
  BY <1>1, <1>2 DEF Bytes
<1>7. Types'
  BY <1>1, <1>4, <1>5, <1>6, ClientStepIs DEF Inv, Types, ThreadType, TxType, DogType
<1>8. CountOK'
  <2>1. \A q \in Procs : Held(q)' <=> Held(q)
    BY <1>1 DEF Held
  <2>2. QED
    BY <1>1, <2>1, ClientStepIs DEF Inv, CountOK, One
<1>9. ListOK' /\ GuardOK' /\ QueueOK'
  BY <1>1, ClientStepIs DEF Inv, ListOK, GuardOK, QueueOK
<1>10. MoveOK' /\ WindowOK' /\ RollbackMovesBack'
  BY <1>1, <1>4, <1>5 DEF MoveOK, WindowOK, RollbackMovesBack
<1>11. RemovedStaysRemoved'
  BY <1>1, <1>6 DEF Inv, RemovedStaysRemoved
<1>12. ASSUME NInv PROVE NInv'
  <2>1. ASSUME NEW f \in Funcs, NEW at, code[f] = "orig" \/ \E i \in DOMAIN queue : queue[i] = f
        PROVE  code'[f] = "orig"
    <3>1. CASE code[f] = "orig"
      BY <1>6, <3>1
    <3>2. CASE \E i \in DOMAIN queue : queue[i] = f
      <4>1. f \notin live
        BY <3>2 DEF Inv, QueueOK
      <4>2. f \notin (live \cup installed)'
        BY <1>1, <4>1
      <4>3. QED
        BY <1>11, <4>2 DEF RemovedStaysRemoved
    <3>3. QED
      BY <2>1, <3>1, <3>2
  <2>2. ASSUME NEW t \in Threads, NEW f \in Funcs, pos'[t] = At(f, "code", 1)
        PROVE  code'[f] = "orig"
    <3>1. CASE pos'[t] = pos[t]
      BY <1>12, <2>1, <2>2, <3>1 DEF NInv, TornOK
    <3>2. CASE \E a \in redirIp : a[1] = t /\ pos'[t] = a[2]
      <4>1. PICK a \in redirIp : a[2] = At(f, "code", 1)
        BY <2>2, <3>2
      <4>2. a[2][1] = f
        BY <4>1 DEF At
      <4>3. QED
        BY <1>3, <2>1, <4>2 DEF MovesOf
    <3>3. QED
      BY <1>4, <3>1, <3>2
  <2>3. ASSUME NEW t \in Threads, NEW f \in Funcs, ret'[t] = At(f, "code", 1)
        PROVE  code'[f] = "orig"
    <3>1. CASE ret'[t] = ret[t]
      BY <1>12, <2>1, <2>3, <3>1 DEF NInv, TornOK
    <3>2. CASE \E a \in redirStack : a[1] = t /\ ret'[t] = a[2]
      <4>1. PICK a \in redirStack : a[2] = At(f, "code", 1)
        BY <2>3, <3>2
      <4>2. a[2][1] = f
        BY <4>1 DEF At
      <4>3. QED
        BY <1>3, <2>1, <4>2 DEF MovesOf
    <3>3. QED
      BY <1>5, <3>1, <3>2
  <2>4. TornOK'
    BY <2>2, <2>3 DEF TornOK
  <2>5. ReturnOK'
    BY <1>1, <1>5, <1>12, ClientStepIs DEF NInv, ReturnOK
  <2>6. TrackOK' /\ DoneOK' /\ FrozenOK'
    BY <1>1, <1>12, ClientStepIs DEF NInv, TrackOK, DoneOK, FrozenOK
  <2>7. QED
    BY <2>4, <2>5, <2>6 DEF NInv
<1>13. QED
  BY <1>7, <1>8, <1>9, <1>10, <1>11, <1>12 DEF Inv

(* The steps of install leave alone who is suspended, and what is queued.  *)
LEMMA InstallStep ==
  ASSUME Inv, ClientStep, pc = "install", pc' \in {"install", "rollback"},
         UNCHANGED <<susp, owner, live, queue, failed, tracked, before>>,
         pos' \in [Threads -> Spots \cup {None}], ret' \in [Threads -> Spots \cup {None}],
         code' \in [Funcs -> Bytes], step' \in Nat \ {0}, todo' \subseteq tracked,
         redirIp' \subseteq Threads \X Spots, redirStack' \subseteq Threads \X Spots,
         installed' \subseteq Funcs, MoveOK', RemovedStaysRemoved'
  PROVE  Inv' /\ (NInv /\ TornOK' /\ ReturnOK' /\ DoneOK' => NInv')
<1>1. Types'
  <2>1. ThreadType' /\ DogType'
    BY ClientStepIs DEF Inv, Types, ThreadType, DogType
  <2>2. TxType'
    BY DEF Inv, Types, TxType
  <2>3. QED
    BY <2>1, <2>2 DEF Types
<1>2. CountOK'
  <2>1. \A q \in Procs : Held(q)' <=> Held(q)
    BY DEF Held
  <2>2. QED
    BY <2>1, ClientStepIs DEF Inv, CountOK, One
<1>3. ListOK' /\ GuardOK' /\ QueueOK'
  BY ClientStepIs DEF Inv, ListOK, GuardOK, QueueOK
<1>4. WindowOK' /\ RollbackMovesBack'
  BY DEF Inv, WindowOK, RollbackMovesBack
<1>5. NInv => TrackOK' /\ FrozenOK'
  BY ClientStepIs DEF NInv, TrackOK, FrozenOK
<1>6. QED
  BY <1>1, <1>2, <1>3, <1>4, <1>5 DEF Inv, NInv

MoveIn(at, t) == [at EXCEPT ![t] = map_redirect_address_exact(at[t])]
Recorded(records, at, t) == records \cup {<<t, at[t]>>}

(* A thread inside a stolen range has not been moved yet: moving it into   *)
(* the trampoline, and recording where it was, accounts for it.            *)
LEMMA OneMove ==
  ASSUME NEW at \in [Threads -> Spots \cup {None}], NEW records \in SUBSET (Threads \X Spots),
         NEW was, MovesOf(at, records, was), NEW t \in Threads \cap tracked, NEW f \in Funcs,
         \E i \in DOMAIN queue : queue[i] = f, Hit(at[t], f)
  PROVE  /\ MoveIn(at, t) \in [Threads -> Spots \cup {None}]
         /\ Recorded(records, at, t) \in SUBSET (Threads \X Spots)
         /\ MovesOf(MoveIn(at, t), Recorded(records, at, t), was)
         /\ MoveIn(at, t)[t] # None /\ MoveIn(at, t)[t][1] = f /\ MoveIn(at, t)[t][2] = "tramp"
         /\ \A u \in Threads \ {t} : MoveIn(at, t)[u] = at[u]
<1>a. PICK at2 : at2 = MoveIn(at, t)
  OBVIOUS
<1>b. PICK records2 : records2 = Recorded(records, at, t)
  OBVIOUS
<1>1. at[t] \in Spots /\ at[t] # None /\ at[t][1] = f /\ at[t][2] = "code"
  BY DEF Hit
<1>2. PICK m : m = map_redirect_address_exact(at[t])
  OBVIOUS
<1>3. m \in Spots /\ m[1] = f /\ m[2] = "tramp" /\ m # None
  <2>1. m = <<at[t][1], "tramp", at[t][3]>>
    BY <1>2 DEF map_redirect_address_exact, At
  <2>2. m \in Spots
    BY <1>1, <2>1 DEF Spots
  <2>3. QED
    BY <1>1, <2>1, <2>2, NoneElsewhere
<1>4. at2 = [at EXCEPT ![t] = m]
  BY <1>2, <1>a DEF MoveIn
<1>5. /\ at2[t] = m /\ at2 \in [Threads -> Spots \cup {None}]
      /\ \A u \in Threads \ {t} : at2[u] = at[u]
  BY <1>3, <1>4
<1>6. records2 \in SUBSET (Threads \X Spots)
  BY <1>1, <1>b DEF Recorded
<1>7. ~\E a \in records : a[1] = t
  BY <1>1 DEF MovesOf
<1>8. at[t] = was[t]
  BY <1>7 DEF MovesOf
<1>9. PICK r : r = <<t, at[t]>>
  OBVIOUS
<1>10. r[1] = t /\ r[2] = at[t] /\ records2 = records \cup {r}
  BY <1>9, <1>b DEF Recorded
<1>11. \A a \in records : a[1] \in Threads
  OBVIOUS
<1>12. MovesOf(at2, records2, was)
  <2>1. ASSUME NEW a \in records2
        PROVE  /\ a[1] \in tracked /\ a[2] = was[a[1]] /\ a[2][2] = "code"
               /\ at2[a[1]] # None /\ at2[a[1]][2] = "tramp"
               /\ \E i \in DOMAIN queue : queue[i] = a[2][1]
    <3>1. CASE a \in records
      <4>1. a[1] # t /\ a[1] \in Threads
        BY <1>7, <1>11, <3>1
      <4>2. at2[a[1]] = at[a[1]]
        BY <1>5, <4>1
      <4>3. QED
        BY <3>1, <4>2 DEF MovesOf
    <3>2. CASE a = r
      BY <1>1, <1>3, <1>5, <1>8, <1>10, <3>2
    <3>3. QED
      BY <1>10, <3>1, <3>2
  <2>2. \A u \in Threads \cap tracked : at2[u] = was[u] \/ \E a \in records2 : a[1] = u
    BY <1>5, <1>10 DEF MovesOf
  <2>3. QED
    BY <2>1, <2>2 DEF MovesOf
<1>13. QED
  BY <1>3, <1>5, <1>6, <1>12, <1>a, <1>b

LEMMA redirectKeeps ==
  ASSUME Inv, ClientStep, install, pc = "install", step \in DOMAIN queue,
         NEW f \in Funcs, f = queue[step], NEW t \in Threads, t \in todo, redirect(t, f),
         UNCHANGED <<susp, owner, live, queue, failed, tracked, before>>
  PROVE  Inv' /\ (NInv => NInv')
<1>1. /\ pos \in [Threads -> Spots \cup {None}] /\ ret \in [Threads -> Spots \cup {None}]
      /\ redirIp \in SUBSET (Threads \X Spots) /\ redirStack \in SUBSET (Threads \X Spots)
      /\ code \in [Funcs -> Bytes] /\ step \in Nat \ {0} /\ installed \subseteq Funcs
  BY DEF Inv, Types, ThreadType, TxType
<1>2. /\ t \in Threads \cap tracked /\ todo \subseteq tracked
      /\ MovesOf(pos, redirIp, before[1]) /\ MovesOf(ret, redirStack, before[2])
      /\ \E i \in DOMAIN queue : queue[i] = f
  BY DEF Inv, ListOK, MoveOK
<1>3. \/ /\ Hit(pos[t], f)
         /\ pos' = MoveIn(pos, t)
         /\ redirIp' = Recorded(redirIp, pos, t)
      \/ pos' = pos /\ redirIp' = redirIp /\ (pc' = "rollback" \/ ~Hit(pos[t], f))
  BY DEF redirect, Moved, Fail, MoveIn, Recorded
<1>4. \/ /\ Hit(ret[t], f)
         /\ ret' = MoveIn(ret, t)
         /\ redirStack' = Recorded(redirStack, ret, t)
      \/ ret' = ret /\ redirStack' = redirStack /\ (pc' = "rollback" \/ ~Hit(ret[t], f))
  BY DEF redirect, Moved, Fail, MoveIn, Recorded
<1>5. /\ code' = code /\ step' = step /\ installed' = installed
      /\ \/ pc' = "rollback" /\ todo' = todo
         \/ pc' = pc /\ todo' = todo \ {t}
  BY DEF redirect, Moved, Fail
<1>6. /\ pos' \in [Threads -> Spots \cup {None}] /\ redirIp' \in SUBSET (Threads \X Spots)
      /\ MovesOf(pos', redirIp', before[1])
      /\ \A u \in Threads \ {t} : pos'[u] = pos[u]
      /\ \A g \in Funcs : pos'[t] = At(g, "code", 1) => pos[t] = At(g, "code", 1)
      /\ pc' = "rollback" \/ ~Hit(pos'[t], f)
  <2>1. CASE pos' = pos /\ redirIp' = redirIp /\ (pc' = "rollback" \/ ~Hit(pos[t], f))
    BY <1>1, <1>2, <2>1
  <2>2. CASE /\ Hit(pos[t], f)
             /\ pos' = MoveIn(pos, t)
             /\ redirIp' = Recorded(redirIp, pos, t)
    <3>1. /\ pos' \in [Threads -> Spots \cup {None}] /\ redirIp' \in SUBSET (Threads \X Spots)
          /\ MovesOf(pos', redirIp', before[1])
          /\ pos'[t][2] = "tramp"
          /\ \A u \in Threads \ {t} : pos'[u] = pos[u]
      <4>1. /\ MoveIn(pos, t) \in [Threads -> Spots \cup {None}]
            /\ Recorded(redirIp, pos, t) \in SUBSET (Threads \X Spots)
            /\ MovesOf(MoveIn(pos, t), Recorded(redirIp, pos, t), before[1])
            /\ MoveIn(pos, t)[t][1] = f /\ MoveIn(pos, t)[t][2] = "tramp"
            /\ \A u \in Threads \ {t} : MoveIn(pos, t)[u] = pos[u]
        BY <1>1, <1>2, <2>2, OneMove
      <4>2. QED
        BY <2>2, <4>1
    <3>2. \A g \in Funcs : At(g, "code", 1)[2] = "code"
      BY DEF At
    <3>3. \A g \in Funcs : pos'[t] # At(g, "code", 1)
      BY <3>1, <3>2
    <3>4. ~Hit(pos'[t], f)
      BY <3>1 DEF Hit
    <3>5. QED
      BY <3>1, <3>3, <3>4
  <2>3. QED
    BY <1>3, <2>1, <2>2
<1>7. /\ ret' \in [Threads -> Spots \cup {None}] /\ redirStack' \in SUBSET (Threads \X Spots)
      /\ MovesOf(ret', redirStack', before[2])
      /\ \A u \in Threads \ {t} : ret'[u] = ret[u]
      /\ \A g \in Funcs : ret'[t] = At(g, "code", 1) => ret[t] = At(g, "code", 1)
      /\ pc' = "rollback" \/ ~Hit(ret'[t], f)
      /\ ReturnOK => /\ ret'[t] # None => ret'[t][1] \in Calling
                     /\ \A a \in redirStack' : a[2][1] \in Calling
  <2>1. CASE ret' = ret /\ redirStack' = redirStack /\ (pc' = "rollback" \/ ~Hit(ret[t], f))
    BY <1>1, <1>2, <2>1 DEF ReturnOK
  <2>2. CASE /\ Hit(ret[t], f)
             /\ ret' = MoveIn(ret, t)
             /\ redirStack' = Recorded(redirStack, ret, t)
    <3>1. /\ ret' \in [Threads -> Spots \cup {None}] /\ redirStack' \in SUBSET (Threads \X Spots)
          /\ MovesOf(ret', redirStack', before[2])
          /\ ret'[t][1] = f /\ ret'[t][2] = "tramp"
          /\ \A u \in Threads \ {t} : ret'[u] = ret[u]
      BY <1>1, <1>2, <2>2, OneMove
    <3>2. \A g \in Funcs : At(g, "code", 1)[2] = "code"
      BY DEF At
    <3>3. \A g \in Funcs : ret'[t] # At(g, "code", 1)
      BY <3>1, <3>2
    <3>4. ~Hit(ret'[t], f)
      BY <3>1 DEF Hit
    <3>5. ret[t] # None /\ ret[t][1] = f
      BY <2>2 DEF Hit
    <3>6. ReturnOK => f \in Calling /\ \A a \in redirStack : a[2][1] \in Calling
      BY <3>5 DEF ReturnOK
    <3>7. <<t, ret[t]>>[2][1] = f
      BY <3>5
    <3>8. QED
      BY <2>2, <3>1, <3>3, <3>4, <3>6, <3>7 DEF Recorded
  <2>3. QED
    BY <1>4, <2>1, <2>2
<1>8. MoveOK'
  BY <1>6, <1>7 DEF MoveOK, MovesOf
<1>9. RemovedStaysRemoved'
  BY <1>5 DEF Inv, RemovedStaysRemoved
<1>10. NInv => TornOK' /\ ReturnOK' /\ DoneOK'
  <2>1. SUFFICES ASSUME NInv PROVE TornOK' /\ ReturnOK' /\ DoneOK'
    OBVIOUS
  <2>2. TornOK'
    BY <1>5, <1>6, <1>7, <2>1 DEF NInv, TornOK
  <2>3. ReturnOK'
    BY <1>7, <2>1, ClientStepIs DEF NInv, ReturnOK
  <2>4. DoneOK'
    <3>1. SUFFICES ASSUME pc' = "install", NEW u \in Threads \ todo'
                   PROVE  ~Hit(pos'[u], f) /\ ~Hit(ret'[u], f)
      BY <1>5 DEF DoneOK
    <3>2. CASE u = t
      BY <1>6, <1>7, <3>1, <3>2
    <3>3. CASE u # t
      <4>1. u \in Threads \ todo
        BY <1>5, <3>1, <3>3
      <4>2. pos'[u] = pos[u] /\ ret'[u] = ret[u]
        BY <1>6, <1>7, <3>3
      <4>3. QED
        BY <2>1, <4>1, <4>2 DEF NInv, DoneOK
    <3>4. QED
      BY <3>2, <3>3
  <2>5. QED
    BY <2>2, <2>3, <2>4
<1>11. pc' \in {"install", "rollback"} /\ todo' \subseteq tracked
  BY <1>2, <1>5
<1>12. QED
  BY <1>1, <1>5, <1>6, <1>7, <1>8, <1>9, <1>10, <1>11, InstallStep

(* Before the jump is written every thread was looked at, and whoever was  *)
(* in the way, or was to return there, is in the trampoline.               *)
LEMMA installKeeps ==
  ASSUME Inv, ClientStep, install
  PROVE  Inv' /\ (Orderly /\ NInv => NInv')
<1>1. /\ pc = "install" /\ step <= Len(queue)
      /\ UNCHANGED <<susp, owner, live, queue, failed, tracked, before>>
  BY DEF install
<1>2. /\ pos \in [Threads -> Spots \cup {None}] /\ ret \in [Threads -> Spots \cup {None}]
      /\ redirIp \subseteq Threads \X Spots /\ redirStack \subseteq Threads \X Spots
      /\ code \in [Funcs -> Bytes] /\ step \in Nat \ {0} /\ installed \subseteq Funcs
      /\ queue \in Seq(Funcs \cup {"table"}) /\ todo \subseteq Procs
  BY DEF Inv, Types, ThreadType, TxType
<1>3. todo \subseteq tracked /\ Client \notin tracked
  BY <1>1 DEF Inv, ListOK
<1>4. ASSUME UNCHANGED <<pos, ret, redirIp, redirStack, code, step, installed>>,
             pc' \in {"install", "rollback"}, todo' \subseteq tracked
      PROVE  Inv' /\ (NInv /\ DoneOK' => NInv')
  <2>1. MoveOK' /\ RemovedStaysRemoved'
    BY <1>1, <1>4 DEF Inv, MoveOK, MovesOf, RemovedStaysRemoved
  <2>2. NInv => TornOK' /\ ReturnOK'
    BY <1>4, ClientStepIs DEF NInv, TornOK, ReturnOK
  <2>3. QED
    BY <1>1, <1>2, <1>4, <2>1, <2>2, InstallStep
<1>5. CASE Fail
  <2>1. DoneOK'
    BY <1>5 DEF Fail, DoneOK
  <2>2. QED
    BY <1>3, <1>4, <1>5, <2>1 DEF Fail
<1>6. CASE queue[step] = "table" /\ ~Fail
  <2>1. step' = step + 1 /\ UNCHANGED <<pos, ret, code, pc, todo, redirIp, redirStack, installed>>
    BY <1>6 DEF install, install_table
  <2>2. step' \in Nat \ {0} /\ todo' \subseteq tracked
    BY <1>2, <1>3, <2>1
  <2>3. MoveOK' /\ RemovedStaysRemoved'
    BY <1>1, <2>1 DEF Inv, MoveOK, MovesOf, RemovedStaysRemoved
  <2>4. NInv => TornOK' /\ ReturnOK'
    BY <2>1, ClientStepIs DEF NInv, TornOK, ReturnOK
  <2>5. NInv => DoneOK'
    <3>1. SUFFICES ASSUME NInv PROVE DoneOK'
      OBVIOUS
    <3>2. step \in DOMAIN queue
      BY <1>1, <1>2
    <3>3. todo = tracked
      BY <1>1, <1>6, <3>1, <3>2, FuncsAssumption DEF NInv, DoneOK
    <3>4. Threads \ todo' = {} /\ todo' = tracked'
      BY <1>1, <2>1, <3>1, <3>3 DEF NInv, TrackOK
    <3>5. QED
      BY <3>4 DEF DoneOK
  <2>6. QED
    BY <1>1, <1>2, <2>1, <2>2, <2>3, <2>4, <2>5, InstallStep
<1>7. CASE queue[step] # "table" /\ ~Fail
  <2>1. PICK f \in Funcs : f = queue[step] /\ step \in DOMAIN queue
    BY <1>1, <1>2, <1>7
  <2>2. install_inline(f)
    BY <1>7, <2>1 DEF install
  <2>3. ASSUME NEW p \in todo, skip(p), Orderly => p \notin Threads
        PROVE  Inv' /\ (Orderly /\ NInv => NInv')
    <3>1. /\ UNCHANGED <<pos, ret, redirIp, redirStack, code, step, installed, pc>>
          /\ todo' = todo \ {p}
      BY <2>3 DEF skip
    <3>2. Orderly /\ NInv => DoneOK'
      BY <1>1, <2>1, <2>3, <3>1 DEF NInv, DoneOK
    <3>3. QED
      BY <1>1, <1>3, <1>4, <3>1, <3>2
  <2>4. ASSUME NEW p \in todo, p # Watcher, redirect(p, f)
        PROVE  Inv' /\ (Orderly /\ NInv => NInv')
    <3>1. p \in Threads
      BY <1>2, <1>3, <2>4 DEF Procs
    <3>2. QED
      BY <1>1, <2>1, <2>4, <3>1, redirectKeeps
  <2>5. ASSUME todo = {}, code' = [code EXCEPT ![f] = "jump"], installed' = installed \cup {f},
               step' = step + 1, todo' = tracked, UNCHANGED <<pos, ret, pc, redirIp, redirStack>>
        PROVE  Inv' /\ (Orderly /\ NInv => NInv')
    <3>1. /\ code' \in [Funcs -> Bytes] /\ step' \in Nat \ {0} /\ installed' \subseteq Funcs
          /\ \A g \in Funcs \ {f} : code'[g] = code[g]
      BY <1>2, <2>5 DEF Bytes
    <3>2. MoveOK'
      BY <1>1, <2>5 DEF Inv, MoveOK, MovesOf
    <3>3. RemovedStaysRemoved'
      BY <1>1, <2>5, <3>1 DEF Inv, RemovedStaysRemoved
    <3>4. ASSUME NInv PROVE TornOK' /\ ReturnOK' /\ DoneOK'
      <4>1. \A t \in Threads : ~Hit(pos[t], f) /\ ~Hit(ret[t], f)
        BY <1>1, <2>1, <2>5, <3>4 DEF NInv, DoneOK
      <4>2. At(f, "code", 1) # None /\ Hit(At(f, "code", 1), f)
        BY NoneElsewhere DEF At, Hit
      <4>3. \A t \in Threads : pos[t] # At(f, "code", 1) /\ ret[t] # At(f, "code", 1)
        BY <4>1, <4>2
      <4>4. TornOK'
        BY <2>5, <3>1, <3>4, <4>3 DEF NInv, TornOK
      <4>5. ReturnOK'
        BY <2>5, <3>4, ClientStepIs DEF NInv, ReturnOK
      <4>6. Threads \ todo' = {} /\ todo' = tracked'
        BY <1>1, <2>5, <3>4 DEF NInv, TrackOK
      <4>7. QED
        BY <4>4, <4>5, <4>6 DEF DoneOK
    <3>5. QED
      BY <1>1, <1>2, <2>5, <3>1, <3>2, <3>3, <3>4, InstallStep
  <2>6. Orderly => "context" \notin Faults
    BY DEF Orderly
  <2>7. QED
    BY <1>7, <2>2, <2>3, <2>4, <2>5, <2>6, Names DEF install_inline
<1>8. QED
  BY <1>5, <1>6, <1>7

-----------------------------------------------------------------------------
(***************************************************************************)
(* Every step                                                              *)
(***************************************************************************)

LEMMA NextKeeps ==
  ASSUME Inv, [Next]_vars
  PROVE  Inv' /\ (Orderly /\ NInv => NInv')
<1>1. CASE Transaction
  <2>1. ClientStep
    BY <1>1 DEF Transaction
  <2>2. QED
    BY <1>1, <2>1, update_all_threadsKeeps, abortKeeps, commitKeeps, freezeKeeps, attachKeeps,
       unhookKeeps DEF Transaction
<1>2. CASE Commit
  <2>1. ClientStep
    BY <1>2 DEF Commit
  <2>2. CASE \E p \in Procs : suspend_threads(p) \/ resume_threads(p)
    BY <2>1, <2>2, suspend_threadsKeeps, resume_threadsKeeps
  <2>3. QED
    BY <1>2, <2>1, <2>2, hold_code_lockKeeps, hold_freeze_lockKeeps, suspendedKeeps, installKeeps,
       install_doneKeeps, rollbackKeeps, finishKeeps DEF Commit
<1>3. CASE Control \/ Join
  BY <1>3, ControlKeeps
<1>4. CASE Watch
  BY <1>4, WatchKeeps
<1>5. CASE \E t \in Threads : Thread(t) \/ Program(t) \/ \E f \in Funcs : tamper(t, f)
  BY <1>5, ThreadKeeps, tamperKeeps
<1>6. CASE UNCHANGED vars
  <2>1. UNCHANGED <<pos, ret, susp, owner, code, live, pc, queue, step, failed, tracked, todo,
                    redirIp, redirStack, installed, before, wpc, wtodo, frozen, bad, guard>>
    BY <1>6 DEF vars, threadVars, txVars, dogVars, apiVars
  <2>2. Types' /\ ListOK' /\ GuardOK' /\ QueueOK' /\ WindowOK'
    BY <2>1 DEF Inv, Types, ThreadType, TxType, DogType, ListOK, GuardOK, QueueOK, WindowOK
  <2>3. \A p \in Procs : Held(p)' <=> Held(p)
    BY <2>1 DEF Held
  <2>4. CountOK'
    BY <2>1, <2>3 DEF Inv, CountOK, One
  <2>5. MoveOK' /\ RollbackMovesBack' /\ RemovedStaysRemoved'
    BY <2>1 DEF Inv, MoveOK, MovesOf, RollbackMovesBack, RemovedStaysRemoved
  <2>6. NInv => NInv'
    BY <2>1 DEF NInv, TornOK, ReturnOK, TrackOK, DoneOK, FrozenOK
  <2>7. QED
    BY <2>2, <2>4, <2>5, <2>6 DEF Inv
<1>7. QED
  BY <1>1, <1>2, <1>3, <1>4, <1>5, <1>6 DEF Next

(***************************************************************************)
(* A hook that was removed stays removed (watchdog.rs): what a sweep       *)
(* writes back was found under the lock of the regions, which it keeps, so *)
(* the region is still guarded, and a guarded hook is not removed.  A      *)
(* commit that fails takes back what it wrote.  Whatever is refused.       *)
(***************************************************************************)
THEOREM RemovedHooksStayRemoved == Spec => []RemovedStaysRemoved
<1>1. Init => Inv
  BY InitInv
<1>2. Inv /\ [Next]_vars => Inv'
  BY NextKeeps
<1>3. Inv => RemovedStaysRemoved
  BY DEF Inv
<1>4. QED
  BY <1>1, <1>2, <1>3, PTL DEF Spec

(***************************************************************************)
(* A failed commit gives every thread its own position and return address  *)
(* back before it resumes it (transaction.rs): a thread is moved at most   *)
(* once, is recorded where it was, and cannot run until it was put back.   *)
(***************************************************************************)
THEOREM RollbackMovesThreadsBack == Spec => []RollbackMovesBack
<1>1. Init => Inv
  BY InitInv
<1>2. Inv /\ [Next]_vars => Inv'
  BY NextKeeps
<1>3. Inv => RollbackMovesBack
  BY DEF Inv
<1>4. QED
  BY <1>1, <1>2, <1>3, PTL DEF Spec

(***************************************************************************)
(* Where the threads are tracked, can be suspended and tell their          *)
(* positions, and no guarded region holds a call, nobody runs on inside    *)
(* bytes that a commit or the watchdog turned into a jump.                 *)
(***************************************************************************)
THEOREM NobodyRunsTornCode ==
  ASSUME Orderly PROVE Spec => []NoTornExecution
<1>1. Init => Inv /\ NInv
  BY InitInv
<1>2. Inv /\ NInv /\ [Next]_vars => (Inv /\ NInv)'
  BY NextKeeps
<1>3. Inv /\ NInv => NoTornExecution
  BY DEF NInv, TornOK, NoTornExecution
<1>4. QED
  BY <1>1, <1>2, <1>3, PTL DEF Spec
=============================================================================
