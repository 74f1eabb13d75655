------------------------------- MODULE MidHook -------------------------------
(***************************************************************************)
(* The context bridge of a mid-function hook (midhook.rs): the stub that   *)
(* build_stub emits for each architecture, executed instruction by         *)
(* instruction on a machine of symbolic values.  A value is a pair: the    *)
(* entry value or the handler's edit of a register, a stack address, an    *)
(* immediate.  Memory maps word addresses to a value and the offset of the *)
(* word in it, so that a torn or shifted save reads as junk.               *)
(***************************************************************************)
LOCAL INSTANCE Integers
LOCAL INSTANCE Sequences
LOCAL INSTANCE SequencesExt
LOCAL INSTANCE FiniteSets

CONSTANTS STUB_CAPACITY,   \* bytes reserved for the code of a stub
          UNWIND_AREA      \* bytes reserved behind it for its unwind data

Word(arch) == IF arch = "x64" THEN 8 ELSE 4

XmmCount(arch) == IF arch = "x64" THEN 16 ELSE 8

LOCAL XmmName == <<"xmm0", "xmm1", "xmm2", "xmm3", "xmm4", "xmm5", "xmm6", "xmm7", "xmm8",
                   "xmm9", "xmm10", "xmm11", "xmm12", "xmm13", "xmm14", "xmm15">>

LOCAL YmmName == <<"ymm0", "ymm1", "ymm2", "ymm3", "ymm4", "ymm5", "ymm6", "ymm7", "ymm8",
                   "ymm9", "ymm10", "ymm11", "ymm12", "ymm13", "ymm14", "ymm15">>

Xmm(arch) == SubSeq(XmmName, 1, XmmCount(arch))

(* The upper halves of the ymm registers. *)
Ymm(arch) == SubSeq(YmmName, 1, XmmCount(arch))

LOCAL Wide == ToSet(XmmName) \cup ToSet(YmmName)

SizeOf(arch, r) == IF r \in Wide THEN 16 ELSE Word(arch)

(* The general registers in the order HookContext holds them. *)
Gpr(arch) ==
    IF arch = "x64" THEN <<"rax", "rcx", "rdx", "rbx", "rbp", "rsi", "rdi", "r8", "r9", "r10",
                           "r11", "r12", "r13", "r14", "r15">>
    ELSE <<"edi", "esi", "ebp", "esp", "ebx", "edx", "ecx", "eax">>

HookContext(arch) ==
    <<"flags">> \o Gpr(arch) \o <<"mxcsr">> \o Xmm(arch) \o <<"redirect">>

Fields(arch) == ToSet(HookContext(arch))

LOCAL Offsets ==
    [arch \in {"x64", "x86"} |-> [f \in Fields(arch) |->
        LET before == SelectInSeq(HookContext(arch), LAMBDA g : g = f) - 1
        IN  FoldSeq(LAMBDA g, n : n + SizeOf(arch, g), 0, SubSeq(HookContext(arch), 1, before))]]

Offset(arch, f) == Offsets[arch][f]

-----------------------------------------------------------------------------
(* Instructions: an operation, a register, a second register or immediate, *)
(* a number, the length of the encoding and the unwind code recorded for   *)
(* it.                                                                     *)
I(op, r, s, n, len) == [op |-> op, r |-> r, s |-> s, n |-> n, len |-> len, uw |-> "none"]

Coded(i, uw) == [i EXCEPT !.uw = uw]

LOCAL ForEach(seq, Emit(_)) == FlattenSeq([k \in DOMAIN seq |-> Emit(seq[k])])

Adjust_Arithmetic(arch, n) == I("add", "", "", n, IF arch = "x64" THEN 5 ELSE 4)

(* Outside the pushf .. popf window the stack moves with lea, which leaves *)
(* the flags alone.                                                        *)
Adjust(arch, n) == I("lea", "sp", "", n, IF arch = "x64" THEN 5 ELSE 4)

Push(r) == Coded(I("push", r, "", 0, IF r \in {"r8", "r9", "r10", "r11", "r12", "r13", "r14", "r15"}
                                     THEN 2 ELSE 1), "push")
Pop(r) == [Push(r) EXCEPT !.op = "pop", !.uw = "none"]

(* Registers of the second half need a prefix. *)
LOCAL Move(op, r) == I(op, r, "sp", 0, IF SelectInSeq(XmmName, LAMBDA x : x = r) > 8 THEN 5 ELSE 4)

save_xmm(arch, r) == <<Coded(Adjust(arch, -16), "alloc"), Move("store", r)>>

restore_xmm(arch, r) == <<Move("load", r), Adjust(arch, 16)>>

(* vextractf128 or vinsertf128 of every upper half. *)
ymm_upper(arch, op, disp) ==
    [k \in 1 .. XmmCount(arch) |-> I(op, YmmName[k], "sp", disp + 16 * (k - 1), 11)]

LOCAL If(c, seq) == IF c THEN seq ELSE <<>>

(* The slot above the context: a redirect of the handler, else the gateway. *)
SelectTarget(base, off, acc, tmp, wide) ==
    << I("load", acc, base, off, 7), I("imm", tmp, "gateway", 0, IF wide THEN 10 ELSE 5),
       I("test", acc, "", 0, IF wide THEN 3 ELSE 2),
       I("cmovz", acc, tmp, 0, IF wide THEN 4 ELSE 3), I("store", acc, base, off, 7) >>

build_stub64(avx) ==
    LET a == "x64" IN
    \* the hooked site, where a called function has its return address
    << I("push", "r11", "", 0, 2), I("imm", "r11", "site", 0, 10), I("xchg", "r11", "", 0, 4),
       Coded(Adjust(a, -8), "alloc"), I("zero", "", "", 0, 8) >>
      \o ForEach(Reverse(Xmm(a)), LAMBDA r : save_xmm(a, r))
      \o << Coded(Adjust(a, -8), "alloc"), Move("store", "mxcsr") >>
      \o ForEach(Reverse(Gpr(a)), LAMBDA r : <<Push(r)>>)
      \o << Coded(I("pushf", "", "", -8, 1), "alloc"), I("cld", "", "", 0, 1),
            I("lea", "rcx", "", 0, 3), Coded(I("lea", "rbp", "", 0, 3), "frame"),
            I("align", "sp", "", 16, 4) >>
      \o If(avx, << I("add", "", "", -256, 7) >> \o ymm_upper(a, "store", 0))
      \o << I("add", "", "", -32, 4), I("imm", "rax", "handler", 0, 10), I("call", "", "", 0, 2) >>
      \o If(avx, ymm_upper(a, "load", 32))
      \o << I("setsp", "rbp", "", 0, 3) >>
      \o SelectTarget("rbp", 392, "rax", "rcx", TRUE)
      \o << I("popf", "", "", 0, 1) >>
      \o ForEach(Gpr(a), LAMBDA r : <<Pop(r)>>)
      \o << Move("load", "mxcsr"), Adjust(a, 8) >>
      \o ForEach(Xmm(a), LAMBDA r : restore_xmm(a, r))
      \o << Adjust(a, 16), I("jmp", "", "", -16, 4) >>

(* pushad keeps the stack pointer it starts from; popad skips it. *)
pushad == << I("lea", "esp", "", 0, 0), Push("eax"), Push("ecx"), Push("edx"), Push("ebx"), Push("esp"),
             Push("ebp"), Push("esi"), Push("edi") >>
popad == << Pop("edi"), Pop("esi"), Pop("ebp"), I("lea", "sp", "", 4, 0), Pop("ebx"), Pop("edx"),
            Pop("ecx"), Pop("eax") >>

CONTEXT_DWORDS == 44

(* The whole context, from one stack address to another. *)
CopyContext == << I("pushi", "", "dwords", 0, 2), Pop("ecx"), I("movs", "", "", CONTEXT_DWORDS, 2) >>

build_stub86(avx) ==
    LET a == "x86" IN
    << Adjust(a, -8), I("zero", "", "", 0, 7) >>
      \o ForEach(Reverse(Xmm(a)), LAMBDA r : save_xmm(a, r))
      \o << Adjust(a, -4), Move("store", "mxcsr") >> \o pushad
      \o << I("pushf", "", "", -4, 1), I("cld", "", "", 0, 1), I("lea", "ebx", "", 0, 2),
            I("lea", "esi", "", 0, 2), I("lea", "edi", "", -184, 7), I("align", "edi", "", 8, 3),
            I("setsp", "edi", "", 0, 2) >>
      \o CopyContext
      \o (IF avx THEN << Adjust(a, -128) >> \o ymm_upper(a, "store", 0)
                         \o << I("lea", "eax", "", 128, 7), Push("eax") >>
          ELSE << I("lea", "eax", "", 0, 0), Push("eax") >>)
      \o << I("imm", "eax", "handler", 0, 5), I("call", "", "", 0, 2), I("add", "", "", 4, 3) >>
      \o If(avx, ymm_upper(a, "load", 0) \o << I("lea", "sp", "", 128, 7) >>)
      \o << I("lea", "esi", "", 0, 2), I("mov", "edi", "ebx", 0, 2) >> \o CopyContext
      \o << I("setsp", "ebx", "", 0, 2) >>
      \o SelectTarget("sp", 168, "eax", "ecx", FALSE)
      \o << I("popf", "", "", 0, 1) >> \o popad
      \o << Move("load", "mxcsr"), Adjust(a, 4) >>
      \o ForEach(Xmm(a), LAMBDA r : restore_xmm(a, r))
      \o << Adjust(a, 8), I("jmp", "", "", -8, 4) >>

build_stub(arch, avx) == IF arch = "x64" THEN build_stub64(avx) ELSE build_stub86(avx)

Bytes(code) == FoldSeq(LAMBDA i, n : n + i.len, 0, code)

(* StubUnwind: one code per noted instruction, with the offset just past   *)
(* it, the last instruction first.                                         *)
UnwindCodes(code) ==
    LET noted == SelectSeq([k \in DOMAIN code |-> <<code[k], Bytes(SubSeq(code, 1, k))>>],
                           LAMBDA c : c[1].uw # "none")
    IN  Reverse([k \in DOMAIN noted |->
                    [op |-> noted[k][1].uw, r |-> noted[k][1].r, n |-> - noted[k][1].n,
                     offset |-> noted[k][2]]])

-----------------------------------------------------------------------------
(* The machine.  seen is what the handler was called with, to where the    *)
(* stub jumped.                                                            *)
LOCAL Junk == <<"junk", "">>
LOCAL At(a) == <<"at", a>>

Entry(arch, sp) ==
    LET names == Fields(arch) \cup ToSet(Ymm(arch)) \cup {"df"}
    IN  [arch |-> arch, sp |-> sp, reg |-> [r \in names |-> <<"entry", r>>],
         mem |-> [x \in {Word(arch) * k : k \in 0 .. (sp \div Word(arch)) + 2} |-> <<<<"stack", x>>, 0>>],
         seen |-> <<>>, to |-> Junk]

LOCAL Load(s, a, size) ==
    LET v == s.mem[a][1]
    IN  IF \A k \in 0 .. (size \div Word(s.arch)) - 1 :
              s.mem[a + k * Word(s.arch)] = <<v, k * Word(s.arch)>>
        THEN v ELSE Junk

LOCAL Stored(mem, a, size, v) ==
    [x \in DOMAIN mem |-> IF x >= a /\ x < a + size THEN <<v, x - a>> ELSE mem[x]]

LOCAL Base(s, i) == i.n + (IF i.s = "sp" THEN s.sp ELSE s.reg[i.s][2])

LOCAL Pushed(s, v) ==
    LET w == Word(s.arch) IN [s EXCEPT !.sp = @ - w, !.mem = Stored(@, s.sp - w, w, v)]

LOCAL Put(s, r, v) == [s EXCEPT !.reg[r] = v]

Volatile(arch) ==
    {"flags", "mxcsr"} \cup ToSet(Ymm(arch))
      \cup (IF arch = "x64" THEN {"rax", "rcx", "rdx", "r8", "r9", "r10", "r11"}
                                   \cup ToSet(SubSeq(XmmName, 1, 6))
            ELSE {"eax", "ecx", "edx"} \cup ToSet(Xmm(arch)))

(* The handler edits the fields in edits and destroys what a C function    *)
(* may: volatile registers, the memory below its return address, the space *)
(* its caller keeps for its arguments.                                     *)
handler(s, edits) ==
    LET arg == IF s.arch = "x64" THEN s.reg["rcx"][2] ELSE Load(s, s.sp, 4)[2]
        home == s.sp + (IF s.arch = "x64" THEN 32 ELSE 4)
        FieldAt(x) == {f \in edits : /\ x >= arg + Offset(s.arch, f)
                                     /\ x < arg + Offset(s.arch, f) + SizeOf(s.arch, f)}
    IN  [s EXCEPT
            !.seen = [context |-> [f \in Fields(s.arch) |->
                                      Load(s, arg + Offset(s.arch, f), SizeOf(s.arch, f))],
                      arg |-> arg, sp |-> s.sp, df |-> s.reg["df"]],
            !.reg = [r \in DOMAIN @ |-> IF r \in Volatile(s.arch) THEN Junk ELSE @[r]],
            !.mem = [x \in DOMAIN @ |->
                        IF x < home THEN <<Junk, 0>>
                        ELSE IF FieldAt(x) = {} THEN @[x]
                        ELSE LET f == CHOOSE g \in FieldAt(x) : TRUE
                             IN  <<<<"edit", f>>, x - arg - Offset(s.arch, f)>>]]

Step(s, i, edits) ==
    LET w == Word(s.arch)
        top == Load(s, s.sp, w)
    IN
    CASE i.op = "lea" -> IF i.r = "sp" THEN [s EXCEPT !.sp = @ + i.n]
                         ELSE Put(s, i.r, At(s.sp + i.n))
      [] i.op = "add" -> Put([s EXCEPT !.sp = @ + i.n], "flags", Junk)
      [] i.op = "align" -> Put(IF i.r = "sp" THEN [s EXCEPT !.sp = @ - (@ % i.n)]
                               ELSE Put(s, i.r, At(s.reg[i.r][2] - (s.reg[i.r][2] % i.n))),
                               "flags", Junk)
      [] i.op = "setsp" -> [s EXCEPT !.sp = s.reg[i.r][2]]
      [] i.op = "mov" -> Put(s, i.r, s.reg[i.s])
      [] i.op = "imm" -> Put(s, i.r, <<"imm", i.s>>)
      [] i.op = "push" -> Pushed(s, s.reg[i.r])
      [] i.op = "pushi" -> Pushed(s, <<"imm", i.s>>)
      [] i.op = "pop" -> Put([s EXCEPT !.sp = @ + w], i.r, top)
      [] i.op = "xchg" -> [s EXCEPT !.reg[i.r] = top, !.mem = Stored(@, s.sp, w, s.reg[i.r])]
      [] i.op = "zero" -> [s EXCEPT !.mem = Stored(@, s.sp, w, <<"imm", "0">>)]
      [] i.op = "store" -> [s EXCEPT !.mem = Stored(@, Base(s, i), SizeOf(s.arch, i.r), s.reg[i.r])]
      [] i.op = "load" -> Put(s, i.r, Load(s, Base(s, i), SizeOf(s.arch, i.r)))
      [] i.op = "pushf" -> Pushed(s, IF s.reg["df"] = <<"entry", "df">> THEN s.reg["flags"] ELSE Junk)
      [] i.op = "popf" -> Put(Put([s EXCEPT !.sp = @ + w], "flags", top), "df", <<top[1], "df">>)
      [] i.op = "cld" -> Put(s, "df", <<"imm", "0">>)
      [] i.op = "test" -> Put(s, "flags", <<"zero", s.reg[i.r] = <<"imm", "0">> >>)
      [] i.op = "cmovz" -> IF s.reg["flags"][2] THEN Put(s, i.r, s.reg[i.s]) ELSE s
      [] i.op = "movs" -> LET from == s.reg["esi"][2]
                              dest == s.reg["edi"][2]
                          IN  [s EXCEPT !.mem = [x \in DOMAIN @ |->
                                  IF x >= dest /\ x < dest + 4 * i.n THEN @[x - dest + from] ELSE @[x]],
                                        !.reg["esi"] = At(from + 4 * i.n),
                                        !.reg["edi"] = At(dest + 4 * i.n)]
      [] i.op = "call" -> handler(s, edits)
      [] i.op = "jmp" -> [s EXCEPT !.to = Load(s, s.sp + i.n, w)]

(* The states of a run through the stub, the entry first. *)
Run(code, s, edits) == FoldLeft(LAMBDA run, i : Append(run, Step(Last(run), i, edits)), <<s>>, code)

-----------------------------------------------------------------------------
(* What the stub promises. *)

(* The handler sees every register of the hooked site, no redirect yet,    *)
(* with the stack aligned and the direction flag clear as the ABI wants.   *)
SeesTheSite(arch, end) ==
    /\ end.seen.df = <<"imm", "0">>
    /\ IF arch = "x64" THEN end.seen.sp % 16 = 0 ELSE end.seen.arg % 8 = 0
    /\ \A f \in Fields(arch) \ {"esp"} :
          end.seen.context[f] = IF f = "redirect" THEN <<"imm", "0">> ELSE <<"entry", f>>

(* The function continues with exactly the edits made, at the address the  *)
(* handler chose or in the gateway, and with its stack untouched.          *)
ResumesAsEdited(arch, avx, start, end, edits) ==
    /\ end.sp = start.sp
    /\ \A x \in DOMAIN start.mem : x >= start.sp => end.mem[x] = start.mem[x]
    /\ end.to = IF "redirect" \in edits THEN <<"edit", "redirect">> ELSE <<"imm", "gateway">>
    /\ \A r \in Fields(arch) \ {"redirect", "esp"} :
          end.reg[r] = <<IF r \in edits THEN "edit" ELSE "entry", r>>
    /\ end.reg["df"] = <<IF "flags" \in edits THEN "edit" ELSE "entry", "df">>
    /\ avx => \A k \in DOMAIN Ymm(arch) : end.reg[YmmName[k]] = <<"entry", YmmName[k]>>

Transparent(arch, avx, sp, edits) ==
    LET code == build_stub(arch, avx)
        start == Entry(arch, sp)
        run == Run(code, start, edits)
    IN  /\ Bytes(code) <= STUB_CAPACITY
        /\ SeesTheSite(arch, Last(run))
        /\ ResumesAsEdited(arch, avx, start, Last(run), edits)

(* The system's unwinder at a code offset: undoes the codes at or before   *)
(* it, last first, and returns to the address it then finds.               *)
Unwound(codes, s, offset) ==
    LET Undo(u, c) == CASE c.op = "push" -> Put([u EXCEPT !.sp = @ + 8], c.r, Load(u, u.sp, 8))
                        [] c.op = "alloc" -> [u EXCEPT !.sp = @ + c.n]
                        [] c.op = "frame" -> [u EXCEPT !.sp = u.reg[c.r][2]]
    IN  FoldLeft(Undo, s, SelectSeq(codes, LAMBDA c : c.offset <= offset))

(* From the moment the site is on the stack until the frame is taken apart *)
(* an unwind reaches the hooked site with its stack pointer and the        *)
(* registers a callee preserves, as the handler left them.                 *)
UnwindsToTheSite(avx, sp, edits) ==
    LET code == build_stub("x64", avx)
        codes == UnwindCodes(code)
        run == Run(code, Entry("x64", sp), edits)
        end == CHOOSE k \in DOMAIN code : code[k].op = "setsp"
    IN  /\ \A k \in DOMAIN codes : codes[k].offset < 256
        /\ 16 + 2 * Len(codes) + 2 * (Len(codes) % 2) <= UNWIND_AREA
        /\ \A k \in 4 .. end :
              LET u == Unwound(codes, run[k], Bytes(SubSeq(code, 1, k - 1)))
              IN  /\ Load(u, u.sp, 8) = <<"imm", "site">>
                  /\ u.sp + 8 = sp
                  /\ \A r \in ToSet(Gpr("x64")) \ Volatile("x64") :
                        u.reg[r] \in {<<"entry", r>>, <<"edit", r>>}
=============================================================================
