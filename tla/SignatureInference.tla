-------------------------- MODULE SignatureInference --------------------------
(***************************************************************************)
(* Signature inference (signature.rs): an abstract interpretation of a     *)
(* function's code that follows every path, register copies, spills and    *)
(* direct calls, and reports the arguments it sees used and what the       *)
(* function returns.  A program P has an architecture and the code of a    *)
(* function "main" and of a callee "f"; instructions are records           *)
(* [op, d, s, k] over a few registers, and stack offsets count words from  *)
(* the stack pointer at entry.  The reference at the end executes the same *)
(* code on values that know which argument they came from.                 *)
(***************************************************************************)
EXTENDS Integers, Sequences, FiniteSets, FiniteSetsExt, SequencesExt

CONSTANTS
    MAX_DEPTH,          \* how deep calls are followed
    MAX_STEPS,          \* instructions followed in one function
    MAX_SPILLS,         \* argument copies tracked on the stack
    Fuel                \* instructions the reference executes on one path

Gp   == {"rax", "rcx", "rdx", "rbx", "rsp"}
Xmm  == {"xmm0", "xmm1"}
Regs == Gp \cup Xmm

(* The argument registers, cut from four to two, and what a call clobbers. *)
GP_ARG_REGS == <<"rcx", "rdx">>
VOLATILE == {"rax", "rcx", "rdx"} \cup Xmm

(* Past the return address and, on x64, a home word per register argument. *)
FIRST_STACK_ARG(P) == IF P.arch = "x64" THEN 1 + Len(GP_ARG_REGS) ELSE 1

WORD(P) == IF P.arch = "x64" THEN "8" ELSE "4"

None == <<"none", 0>>
NoSlot == 99        \* not a known stack address

(* The argument a register carries at entry. *)
arg_slot(P, r) ==
    CASE r = "rcx" -> <<"reg", 1>>
      [] r = "rdx" -> <<"reg", 2>>
      [] r = "xmm0" /\ P.arch = "x64" -> <<"xmm", 1>>
      [] r = "xmm1" /\ P.arch = "x64" -> <<"xmm", 2>>
      [] OTHER -> None

(* What iced-x86 reports of an instruction: registers read (a pushed       *)
(* register is only stored) and written, and the memory operand.           *)
Reads(i) ==
    CASE i.op \in {"test", "mov", "lea", "load", "comis"} -> {i.s}
      [] i.op = "store" -> {i.d, i.s}
      [] OTHER -> {}

Writes(i) == IF i.op \in {"zero", "mov", "lea", "load", "pop", "fload"}
             THEN {i.d} \ {"rsp"} ELSE {}

Base(i) == CASE i.op = "load" -> i.s
             [] i.op = "store" -> i.d
             [] i.op = "pop" -> "rsp"
             [] OTHER -> "none"

-----------------------------------------------------------------------------
(* The state of one path.  "spills" are <<slot, origin>> pairs.            *)
PathEntry ==
    [written |-> {}, holds |-> [r \in Regs |-> None],
     stack |-> [r \in Gp |-> IF r = "rsp" THEN 0 ELSE NoSlot],
     spills |-> {}, ret_width |-> "0", ret_xmm |-> "none", x87 |-> FALSE]

(* What was seen so far: <<argument, how>> facts and the returns.          *)
AnalysisNew == [facts |-> {}, returns_int |-> {}, returns_xmm |-> "none",
                returns_x87 |-> FALSE, rets |-> 0, stack_cleanup |-> 0,
                complete |-> TRUE]

(* The argument in a register on this path. *)
Origin(P, s, r) == IF r \in s.written THEN s.holds[r] ELSE arg_slot(P, r)

Shift(slot, by) == IF slot = NoSlot THEN NoSlot ELSE slot + by

(* The stack slot a memory operand addresses. *)
stack_slot(s, i) == IF Base(i) \in Gp THEN Shift(s.stack[Base(i)], i.k) ELSE NoSlot

Spilled(s, slot) == {p[2] : p \in {q \in s.spills : q[1] = slot}}

xmm_kind(i) == CASE i.op \in {"comis", "fload"} /\ i.k = 4 -> "float"
                 [] i.op \in {"comis", "fload"} /\ i.k = 8 -> "double"
                 [] OTHER -> "xmm"

(* How a read of a register shows in the facts. *)
HowRead(P, i, r) == IF r \in Xmm THEN {"xmm", xmm_kind(i)}
                    ELSE IF i.op = "test" THEN {ToString(i.k)} ELSE {WORD(P)}

(* Everything one instruction reveals: reads of arguments, arguments used  *)
(* as addresses, and reads of stack slots above the home space.            *)
Revealed(P, s, i) ==
    LET slot == stack_slot(s, i)
    IN  UNION {{<<Origin(P, s, r), how>> : how \in HowRead(P, i, r)} : r \in Reads(i)}
        \cup (IF i.op \in {"load", "store"} THEN {<<Origin(P, s, Base(i)), "pointer">>} ELSE {})
        \cup (IF /\ i.op \in {"load", "pop"} /\ slot # NoSlot
                 /\ slot >= FIRST_STACK_ARG(P) /\ Spilled(s, slot) = {}
              THEN {<<<<"stack", slot>>, WORD(P)>>} ELSE {})

evidence(facts) == {f \in facts : f[1] # None}

Copied_NoReload(P, s, i) ==
    IF i.op \in {"mov", "lea"} THEN Origin(P, s, i.s) ELSE None

(* The argument an instruction moves into its destination: copy_source,    *)
(* the base of a lea, or what was pushed where a pop reads.                *)
Copied(P, s, i) ==
    LET slot == stack_slot(s, i)
    IN  CASE i.op \in {"mov", "lea", "store"} -> Origin(P, s, i.s)
          [] i.op \in {"load", "pop"} /\ Spilled(s, slot) # {} ->
                CHOOSE o \in Spilled(s, slot) : TRUE
          [] i.op = "load" /\ slot # NoSlot /\ slot >= FIRST_STACK_ARG(P)
                /\ Spilled(s, slot) = {} -> <<"stack", slot>>
          [] OTHER -> None

(* Stack addresses in registers after the instruction. *)
Stacked(s, i) == [r \in Gp |->
    CASE r = "rsp" /\ i.op = "push" -> Shift(s.stack[r], -1)
      [] r = "rsp" /\ i.op = "pop"  -> Shift(s.stack[r], 1)
      [] r = "rsp" /\ i.op = "add"  -> Shift(s.stack[r], i.k)
      [] r = i.d /\ i.op = "mov"    -> s.stack[i.s]
      [] r = i.d /\ i.op = "lea"    -> Shift(s.stack[i.s], i.k)
      [] r \in Writes(i)            -> NoSlot
      [] OTHER -> s.stack[r]]

(* A push or a store replaces what its slot was known to hold. *)
Spill(s, slot, origin) ==
    LET kept == {p \in s.spills : p[1] # slot}
    IN  IF slot = NoSlot THEN s.spills
        ELSE IF origin # None /\ Cardinality(kept) < MAX_SPILLS
             THEN kept \cup {<<slot, origin>>} ELSE kept

track(P, s, i) ==
    LET moved == Copied(P, s, i)
    IN  [written |-> s.written \cup Writes(i),
         holds   |-> [r \in Regs |-> IF r \in Writes(i) THEN moved ELSE s.holds[r]],
         stack   |-> Stacked(s, i),
         spills  |-> CASE i.op = "push"  -> Spill(s, Shift(s.stack["rsp"], -1), Origin(P, s, i.s))
                       [] i.op = "store" -> Spill(s, stack_slot(s, i), moved)
                       [] OTHER -> s.spills,
         ret_width |-> IF "rax" \in Writes(i)
                       THEN IF i.op = "zero" THEN "4" ELSE WORD(P) ELSE s.ret_width,
         ret_xmm |-> IF "xmm0" \in Writes(i) THEN xmm_kind(i) ELSE s.ret_xmm,
         x87     |-> IF i.op = "fld" THEN TRUE ELSE IF i.op = "fstp" THEN FALSE ELSE s.x87]

-----------------------------------------------------------------------------
on_return(a, s, i) ==
    LET b == [a EXCEPT !.rets = @ + 1,
                       !.stack_cleanup = IF i.k > @ THEN i.k ELSE @]
    IN  CASE s.ret_width = "0" /\ s.ret_xmm # "none" ->
                [b EXCEPT !.returns_xmm = IF s.ret_xmm # "xmm" THEN s.ret_xmm
                                          ELSE IF @ # "none" THEN @ ELSE "xmm"]
          [] s.ret_width # "0" -> [b EXCEPT !.returns_int = @ \cup {s.ret_width}]
          [] s.ret_width = "0" /\ s.ret_xmm = "none" /\ s.x87 -> [b EXCEPT !.returns_x87 = TRUE]
          [] OTHER -> b

return_kind(a) == CASE a.returns_xmm # "none" -> a.returns_xmm
                    [] a.returns_xmm = "none" /\ a.returns_int # {} ->
                          IF "8" \in a.returns_int THEN "8" ELSE "4"
                    [] a.returns_xmm = "none" /\ a.returns_int = {} /\ a.returns_x87 -> "double"
                    [] OTHER -> "none"

(* What a callee reads of the arguments still in place is the caller's.    *)
forward(P, a, callee, s, tail) ==
    LET at(o) == CASE o[1] = "reg" -> Origin(P, s, GP_ARG_REGS[o[2]])
                   [] o[1] = "xmm" ->
                         IF <<"xmm0", "xmm1">>[o[2]] \in s.written THEN None ELSE o
                   [] OTHER -> IF tail /\ s.stack["rsp"] = 0 THEN o ELSE None
    IN  [a EXCEPT !.facts = @ \cup evidence({<<at(f[1]), f[2]>> : f \in callee.facts}),
                  !.stack_cleanup = IF tail /\ s.stack["rsp"] = 0 /\ callee.stack_cleanup > @
                                    THEN callee.stack_cleanup ELSE @]

(* A call clobbers the volatile registers; on x86 the callee may pop its   *)
(* arguments, which only its analysis tells.                               *)
AfterCall(P, s, followed, callee) ==
    [s EXCEPT !.written = @ \cup VOLATILE,
              !.holds = [r \in Regs |-> IF r \in VOLATILE THEN None ELSE @[r]],
              !.stack = [r \in Gp |->
                  IF r \in VOLATILE THEN NoSlot
                  ELSE IF r = "rsp" /\ P.arch = "x86"
                       THEN IF followed /\ callee.rets > 0
                            THEN Shift(@[r], callee.stack_cleanup) ELSE NoSlot
                  ELSE @[r]],
              !.ret_width = WORD(P), !.ret_xmm = "xmm"]

(* A jump out of the function: its target returns for this function.       *)
tail_call(P, a, s, followed, callee) ==
    LET b == [forward(P, a, callee, s, TRUE) EXCEPT !.complete = @ /\ callee.complete]
        c == [b EXCEPT !.rets = @ + 1]
        kind == return_kind(callee)
    IN  CASE ~followed -> [a EXCEPT !.complete = FALSE]
          [] followed /\ callee.rets = 0 -> b
          [] followed /\ callee.rets > 0 /\ kind \in {"float", "double"} ->
                [c EXCEPT !.returns_xmm = kind]
          [] followed /\ callee.rets > 0 /\ kind \in {"4", "8"} ->
                [c EXCEPT !.returns_int = @ \cup {kind}]
          [] OTHER -> c

is_internal(code, target) == target \in DOMAIN code

(* run: follows a path until it ends or meets a state seen before, then    *)
(* takes the next one from the work list.                                  *)
RECURSIVE follow(_, _, _, _, _, _, _, _), Analyse(_, _, _)
follow(P, fn, depth, ip, s, work, seen, a) ==
    LET code == P.code[fn]
        nextPath(b, w, sn) ==
            IF w = <<>> THEN b
            ELSE follow(P, fn, depth, Last(w)[1], Last(w)[2], Front(w), sn, b)
        sn == seen \cup {<<ip, s>>}
    IN  IF <<ip, s>> \in seen THEN nextPath(a, work, seen)
        ELSE IF Cardinality(sn) > MAX_STEPS THEN [a EXCEPT !.complete = FALSE]
        ELSE IF ~is_internal(code, ip) THEN nextPath([a EXCEPT !.complete = FALSE], work, sn)
        ELSE
        LET i == code[ip]
            b == [a EXCEPT !.facts = @ \cup evidence(Revealed(P, s, i))]
            t == track(P, s, i)
            followed == i.d = "f" /\ depth < MAX_DEPTH
            callee == IF followed THEN Analyse(P, "f", depth + 1) ELSE AnalysisNew
        IN  CASE i.op = "ret" -> nextPath(on_return(b, s, i), work, sn)
              [] i.op = "jcc" ->
                    IF is_internal(code, i.k)
                    THEN follow(P, fn, depth, ip + 1, t, Append(work, <<i.k, t>>), sn, b)
                    ELSE follow(P, fn, depth, ip + 1, t, work, sn, [b EXCEPT !.complete = FALSE])
              [] i.op = "jmp" /\ is_internal(code, i.k) ->
                    follow(P, fn, depth, i.k, t, work, sn, b)
              [] i.op = "tail" -> nextPath(tail_call(P, b, s, followed, callee), work, sn)
              [] i.op = "trap" -> nextPath(b, work, sn)
              [] i.op = "call" ->
                    follow(P, fn, depth, ip + 1, AfterCall(P, t, followed, callee), work, sn,
                           IF followed THEN forward(P, b, callee, s, FALSE) ELSE b)
              [] OTHER -> follow(P, fn, depth, ip + 1, t, work, sn, b)

Analyse(P, fn, depth) == follow(P, fn, depth, 1, PathEntry, <<>>, {}, AnalysisNew)

-----------------------------------------------------------------------------
(* finish: the arguments in declaration order, gaps filled.                *)
Found(a, kind) == {f[1][2] : f \in {g \in a.facts : g[1][1] = kind}}

KindOf(a, o) ==
    LET hows == {f[2] : f \in {g \in a.facts : g[1] = o}}
    IN  CASE "pointer" \in hows -> "pointer"
          [] "pointer" \notin hows /\ "double" \in hows -> "double"
          [] hows \cap {"pointer", "double"} = {} /\ "float" \in hows -> "float"
          [] hows \cap {"pointer", "double", "float"} = {} /\ hows \cap {"8", "4"} # {} ->
                IF "8" \in hows THEN "8" ELSE "4"
          [] OTHER -> "unknown"

Highest(S) == IF S = {} THEN 0 ELSE Max(S)

(* The stack arguments up to the highest one read, or what "ret N" pops.   *)
StackArgs(P, a) ==
    LET first == FIRST_STACK_ARG(P)
        last  == IF P.arch = "x86" /\ a.stack_cleanup > 0 THEN first + a.stack_cleanup - 1
                 ELSE Highest(Found(a, "stack"))
    IN  [j \in 1 .. (IF last < first THEN 0 ELSE last - first + 1) |-> <<"stack", first + j - 1>>]

Win64Args(P, a) ==
    LET regs == Found(a, "reg")
        count == IF Found(a, "stack") # {} THEN Len(GP_ARG_REGS)
                 ELSE Highest(regs \cup Found(a, "xmm"))
    IN  [j \in 1 .. count |->
            IF j \in Found(a, "xmm") \ regs THEN <<"xmm", j>> ELSE <<"reg", j>>]
        \o StackArgs(P, a)

Convention(P, a) ==
    LET ecx == 1 \in Found(a, "reg")
        edx == 2 \in Found(a, "reg")
    IN  CASE P.arch = "x64" -> "win64"
          [] P.arch = "x86" /\ ~edx /\ ecx /\ a.stack_cleanup > 0
                /\ KindOf(a, <<"reg", 1>>) = "pointer" -> "thiscall"
          [] P.arch = "x86" /\ ~edx /\ ~ecx ->
                IF a.stack_cleanup > 0 THEN "stdcall" ELSE "cdecl"
          [] OTHER -> "fastcall"

X86Args(P, a) ==
    LET regs == CASE Convention(P, a) = "thiscall" -> <<<<"reg", 1>>>>
                  [] Convention(P, a) = "fastcall" -> <<<<"reg", 1>>, <<"reg", 2>>>>
                  [] OTHER -> <<>>
    IN  IF 2 \notin Found(a, "reg") /\ StackArgs(P, a) = <<>> /\ Len(regs) = 2
        THEN <<<<"reg", 1>>>> ELSE regs \o StackArgs(P, a)

infer_signature(P) ==
    LET a == Analyse(P, "main", 0)
        args == IF P.arch = "x64" THEN Win64Args(P, a) ELSE X86Args(P, a)
    IN  [convention |-> Convention(P, a),
         args |-> [j \in DOMAIN args |-> [location |-> args[j], kind |-> KindOf(a, args[j])]],
         returns |-> return_kind(a), stack_cleanup |-> a.stack_cleanup,
         complete |-> a.complete /\ a.rets > 0]

-----------------------------------------------------------------------------
(* The reference: execution.  A value is the argument it came from, a      *)
(* stack address, a return address or None.                                *)
Slots == -(Fuel + 2) .. (Fuel + 8)

Start(P) ==
    [fn |-> "main", ip |-> 1, frame |-> 0, res |-> {},
     reg |-> [r \in Regs |-> IF r = "rsp" THEN <<"sp", 0>> ELSE arg_slot(P, r)],
     mem |-> [k \in Slots |-> IF k = 0 THEN <<"ra", 0>>
                              ELSE IF k >= FIRST_STACK_ARG(P) THEN <<"stack", k>> ELSE None]]

At(P, c) == P.code[c.fn][c.ip]

Sp(c) == c.reg["rsp"][2]

(* The stack word a memory operand addresses, NoSlot for other memory. *)
Addr(c, i) == IF Base(i) \in Gp /\ c.reg[Base(i)][1] = "sp"
              THEN c.reg[Base(i)][2] + i.k ELSE NoSlot

Value(c, i) ==
    CASE i.op \in {"mov", "store", "push"} -> c.reg[i.s]
      [] i.op = "lea" -> IF c.reg[i.s][1] = "sp" THEN <<"sp", c.reg[i.s][2] + i.k>> ELSE c.reg[i.s]
      [] i.op \in {"load", "pop"} /\ Addr(c, i) \in Slots -> c.mem[Addr(c, i)]
      [] OTHER -> None

Results(i) == CASE i.op = "fld" -> {"x87"}
                [] "rax" \in Writes(i) \/ "xmm0" \in Writes(i) -> Writes(i)
                [] OTHER -> {}

Execute(c, i) ==
    LET sp == CASE i.op = "push" -> Sp(c) - 1
                [] i.op = "pop" -> Sp(c) + 1
                [] i.op = "add" -> Sp(c) + i.k
                [] OTHER -> Sp(c)
        to == CASE i.op = "push" -> Sp(c) - 1
                [] i.op = "store" -> Addr(c, i)
                [] OTHER -> NoSlot
    IN  [c EXCEPT !.ip = @ + 1,
                  !.res = (@ \cup Results(i)) \ (IF i.op = "fstp" THEN {"x87"} ELSE {}),
                  !.reg = [r \in Regs |->
                      CASE r = "rsp" /\ i.d # "rsp" -> <<"sp", sp>>
                        [] r = i.d /\ (r \in Writes(i) \/ i.op = "mov") -> Value(c, i)
                        [] OTHER -> @[r]],
                  !.mem = [k \in Slots |-> IF k = to THEN Value(c, i) ELSE @[k]]]

(* Where execution goes from c; calls and tail jumps to code other than f  *)
(* end the path.                                                           *)
Successors(P, c) ==
    LET i == At(P, c)
    IN  CASE i.op = "jcc" -> {[c EXCEPT !.ip = to] : to \in {c.ip + 1, i.k} \cap DOMAIN P.code[c.fn]}
          [] i.op = "jmp" -> {[c EXCEPT !.ip = i.k]}
          [] i.op = "call" /\ i.d = "f" ->
                {[c EXCEPT !.fn = "f", !.ip = 1, !.frame = c.ip + 1,
                           !.reg["rsp"] = <<"sp", Sp(c) - 1>>,
                           !.mem[Sp(c) - 1] = <<"ra", c.ip + 1>>]}
          [] i.op = "tail" /\ i.d = "f" -> {[c EXCEPT !.fn = "f", !.ip = 1, !.res = {}]}
          [] i.op = "ret" /\ c.frame # 0 ->
                {[c EXCEPT !.fn = "main", !.ip = c.frame, !.frame = 0,
                           !.reg = [r \in Regs |-> IF r = "rsp" THEN <<"sp", Sp(c) + 1 + i.k>>
                                                   ELSE IF r \in VOLATILE THEN None ELSE @[r]]]}
          [] i.op \in {"tail", "trap", "call"} /\ i.d # "f" -> {}
          [] i.op = "ret" /\ c.frame = 0 -> {}
          [] OTHER -> {Execute(c, i)}

(* Code a compiler emits: the stack pointer is known and in range, the     *)
(* return address is neither overwritten nor missed, every return pops the *)
(* same arguments, a callee keeps rbx, and one that is called (not jumped  *)
(* to) takes its arguments in registers.                                   *)
WellBehaved(P, c) ==
    /\ c.ip \in DOMAIN P.code[c.fn]
    /\ c.reg["rsp"][1] = "sp"
    /\ Sp(c) - 1 \in Slots /\ Sp(c) + 1 \in Slots
    /\ LET i == At(P, c)
       IN  /\ i.op = "ret" => /\ c.mem[Sp(c)] = <<"ra", c.frame>>
                              /\ c.frame = 0 => Sp(c) = 0
           /\ i.op \in {"store", "push"} =>
                 LET to == IF i.op = "push" THEN Sp(c) - 1 ELSE Addr(c, i)
                 IN  to \in Slots => c.mem[to][1] # "ra"
           /\ i.op \in {"store", "load"} => Addr(c, i) \in Slots \cup {NoSlot}
           /\ c.fn = "f" => "rbx" \notin Writes(i)
           /\ c.frame # 0 /\ i.op = "load" => Addr(c, i) = NoSlot

RECURSIVE Reached(_, _, _)
Reached(P, S, n) ==
    LET T == S \cup UNION {Successors(P, c) : c \in {d \in S : WellBehaved(P, d)}}
    IN  IF n = 0 \/ T = S THEN S ELSE Reached(P, T, n - 1)

Executions(P) == Reached(P, {Start(P)}, Fuel)

Returns(P, cs) == {c \in cs : c.frame = 0 /\ At(P, c).op = "ret"}

(* The arguments the code really uses, and whether as an address. *)
Consumed(P, cs) ==
    UNION {LET i == At(P, c)
           IN  CASE i.op \in {"test", "comis"} -> {<<c.reg[i.s], "value">>}
                 [] i.op \in {"load", "store"} -> {<<c.reg[Base(i)], "pointer">>}
                 [] OTHER -> {} : c \in cs}

WellFormed(P, cs) ==
    /\ \A c \in cs : WellBehaved(P, c)
    /\ \A c, d \in Returns(P, cs) : At(P, c).k = At(P, d).k
    /\ \A c \in Returns(P, cs), u \in Consumed(P, cs) :
          u[1][1] = "stack" /\ At(P, c).k > 0 => u[1][2] <= At(P, c).k

(* An xmm argument takes the place of the register argument of its number. *)
Covers(arg, origin) == \/ arg.location = origin
                       \/ origin[1] = "xmm" /\ arg.location = <<"reg", origin[2]>>

(* Complete means complete: every argument the code uses on some path,     *)
(* directly, through copies, spills, a callee or a tail jump, is reported, *)
(* as a pointer when it is used as one; and a function reported to return  *)
(* nothing leaves no result on any path.                                   *)
Sound(P) ==
    LET cs == Executions(P)
        g  == infer_signature(P)
    IN  WellFormed(P, cs) /\ g.complete =>
          /\ \A u \in Consumed(P, cs) : u[1][1] \in {"reg", "xmm", "stack"} =>
                \E j \in DOMAIN g.args :
                   /\ Covers(g.args[j], u[1])
                   /\ u[2] = "pointer" => g.args[j].kind = "pointer"
          /\ g.returns = "none" => \A c \in Returns(P, cs) : c.res = {}
=============================================================================
