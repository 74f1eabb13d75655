----------------------------- MODULE MCAlgorithms -----------------------------
(***************************************************************************)
(* The library's pure algorithms on every small input.  An input grows one *)
(* symbol at a time (an instruction, a page, a byte) until it is complete; *)
(* each invariant compares what the code computes for a complete input     *)
(* with a reference definition.                                            *)
(***************************************************************************)
EXTENDS SignatureInference, TrampolineSearch

CONSTANTS Trampoline, MAX_INSTRUCTION, WINDOW,
          PageSize, STUB_CAPACITY, UNWIND_AREA

Relocating == INSTANCE Relocation
Scanning   == INSTANCE PatternScan
Bridging   == INSTANCE MidHook

VARIABLES alg, input

vars == <<alg, input, searchVars>>

(* Instructions for the signature inference. *)
I(op, d, s, k) == [op |-> op, d |-> d, s |-> s, k |-> k]

Plain == {I("test", "", "rcx", 4), I("test", "", "rax", 8), I("test", "", "rbx", 8),
          I("mov", "rbx", "rcx", 0), I("mov", "rcx", "rdx", 0), I("mov", "rbx", "rsp", 0),
          I("load", "rax", "rcx", 0), I("push", "", "rcx", 0), I("pop", "rbx", "", 0),
          I("jcc", "", "", 3), I("jcc", "", "", 5), I("call", "f", "", 0), I("tail", "f", "", 0)}

Only64 == {I("zero", "rcx", "", 0), I("store", "rsp", "rdx", 3), I("load", "rbx", "rsp", 0),
           I("load", "rax", "rsp", 3), I("load", "rax", "rbx", 4), I("comis", "", "xmm0", 4)}

Only86 == {I("ret", "", "", 1), I("load", "rax", "rsp", 1), I("load", "rax", "rbx", 2),
           I("fld", "", "", 0)}

Ret == I("ret", "", "", 0)

Callees == {<<I("test", "", "rcx", 8), Ret>>,
            <<I("load", "rax", "rdx", 0), Ret>>,
            <<I("jcc", "", "", 3), I("tail", "", "", 0), I("test", "", "rcx", 8), Ret>>}

Callees64 == Callees \cup {<<I("comis", "", "xmm0", 4), I("fload", "xmm0", "", 8), Ret>>,
                           <<I("load", "rax", "rsp", 3), I("test", "", "rax", 8), Ret>>}

Callees86 == Callees \cup {<<I("load", "rax", "rsp", 1), I("test", "", "rax", 4), I("ret", "", "", 1)>>,
                           <<I("fld", "", "", 0), Ret>>}

(* Instructions to steal; targets are instruction numbers, 9 is far away.  *)
S(op, len, to) == [op |-> op, len |-> len, to |-> to]

Stealable == {S("plain", 1, 0), S("plain", 2, 0), S("ret", 1, 0),
              S("jcc", 1, 2), S("jcc", 1, 3), S("jcc", 1, 4), S("loop", 1, 1), S("loop", 1, 4),
              S("jmp", 1, 1), S("jmp", 1, 4), S("jmp", 1, 9),
              S("call", 2, 1), S("call", 2, 2), S("call", 2, 3), S("call", 2, 9)}

(* The function, padding, the next function; addresses instead of numbers. *)
Laid(fn, padding) ==
    LET all == fn \o [j \in 1 .. padding |-> S("pad", 1, 0)] \o <<S("plain", 2, 0)>>
        at(k) == FoldSeq(LAMBDA i, n : n + i.len, 0, SubSeq(all, 1, k - 1))
    IN  [k \in DOMAIN all |->
            [op |-> all[k].op, len |-> all[k].len, at |-> at(k),
             to |-> IF all[k].to \in DOMAIN all THEN at(all[k].to) ELSE Trampoline \div 2]]

(* A visit of a mid-function hook: on a CPU with AVX or not, with some     *)
(* stack alignment, and a handler that edits nothing, one field, all but   *)
(* the redirect, or everything.                                            *)
Visits(arch, stacks) ==
    LET F == Bridging!Fields(arch)
    IN  [avx : BOOLEAN, sp : stacks,
         edits : {{}, F, F \ {"redirect"}} \cup {{f} : f \in F}]

(* Symbols an input of each algorithm is made of, and how many. *)
Symbols == [infer64 |-> Plain \cup Only64, infer86 |-> Plain \cup Only86,
            steal |-> Stealable,
            scan |-> {"free", "guard", "read", "exec"},
            bridge64 |-> Visits("x64", {800, 808}), bridge86 |-> Visits("x86", {560, 564, 568, 572})]

Length == [infer64 |-> 4, infer86 |-> 4, steal |-> 4, scan |-> 3,
           bridge64 |-> 1, bridge86 |-> 1]

Complete == alg \in DOMAIN Symbols /\ Len(input) = Length[alg]

Init == alg = "none" /\ input = <<>> /\ SearchInit

Choose == /\ alg = "none"
          /\ alg' \in DOMAIN Symbols \cup {"place"}
          /\ UNCHANGED <<input, searchVars>>

Extend == /\ alg \in DOMAIN Symbols /\ ~Complete
          /\ \E x \in Symbols[alg] : input' = Append(input, x)
          /\ UNCHANGED <<alg, searchVars>>

Again == /\ Complete
         /\ alg' = "none" /\ input' = <<>>
         /\ UNCHANGED searchVars

(* The search for memory has states of its own (TrampolineSearch). *)
Place == /\ alg = "place" /\ SearchNext
         /\ UNCHANGED <<alg, input>>

Next == Choose \/ Extend \/ Again \/ Place

Spec == Init /\ [][Next]_vars

-----------------------------------------------------------------------------
(* The inference of signature.rs is sound for every small function, on     *)
(* both architectures and with every callee (Sound).                       *)
InferenceIsSound ==
    alg \in {"infer64", "infer86"} /\ Complete =>
      \A f \in IF \A j \in DOMAIN input : input[j].d # "f" THEN {<<Ret>>}
               ELSE IF alg = "infer64" THEN Callees64 ELSE Callees86 :
         Sound([arch |-> IF alg = "infer64" THEN "x64" ELSE "x86",
                code |-> [main |-> Append(input, Ret), f |-> f]])

(* What attach steals from a function runs the same in the trampoline, and *)
(* nothing else is overwritten or jumped into (Relocation!SafelyStolen),   *)
(* for a one-byte breakpoint and for a jump.                               *)
StealingIsSafe ==
    alg = "steal" /\ input # <<>> =>
      \A padding \in 0 .. 2, min_size \in {1, 3} :
         Relocating!SafelyStolen(Laid(input, padding), Len(input), min_size)

Tokens == {[marks |-> TRUE, hex |-> FALSE, digits |-> 1, value |-> 0],
           [marks |-> FALSE, hex |-> TRUE, digits |-> 2, value |-> 0],
           [marks |-> FALSE, hex |-> TRUE, digits |-> 1, value |-> 1]}

(* A scan finds exactly the matches, on any map of readable and unreadable *)
(* pages and any bytes (PatternScan!FindsExactly).                         *)
ScanIsExact ==
    alg = "scan" /\ Complete =>
      \A bytes \in [0 .. 5 -> {0, 1}], tokens \in [1 .. 1 -> Tokens] \cup [1 .. 3 -> Tokens],
         start \in {0, 1} :
         Scanning!FindsExactly([bytes |-> bytes, pages |-> [p \in 0 .. 2 |-> input[p + 1]]],
                               tokens, start, 5)

(* A visit of a mid-function hook is transparent: the handler sees the     *)
(* registers of the site, and the function goes on with exactly its edits  *)
(* and its own stack (MidHook!Transparent); on x64 an exception anywhere   *)
(* in the bridge or its handler unwinds into the hooked function at the    *)
(* hooked site (MidHook!UnwindsToTheSite).                                 *)
BridgeIsTransparent ==
    alg \in {"bridge64", "bridge86"} /\ Complete =>
      LET v == input[1] IN
      /\ Bridging!Transparent(IF alg = "bridge64" THEN "x64" ELSE "x86", v.avx, v.sp, v.edits)
      /\ alg = "bridge64" /\ v.edits \in {{}, Bridging!Fields("x64")} =>
            Bridging!UnwindsToTheSite(v.avx, v.sp, v.edits)
=============================================================================
