------------------------------ MODULE Relocation ------------------------------
(***************************************************************************)
(* Stealing and relocating the first instructions of a function            *)
(* (disasm.rs): how many whole instructions a patch takes, whether later   *)
(* code branches into them, and the copy that runs in their place.  Code   *)
(* is a sequence of decoded instructions [op, at, len, to]: address,       *)
(* length and, for a branch, target address.  The function starts at 0.    *)
(***************************************************************************)
LOCAL INSTANCE Integers
LOCAL INSTANCE Sequences
LOCAL INSTANCE FiniteSetsExt
LOCAL INSTANCE SequencesExt

CONSTANTS
    Trampoline,         \* address of the copy, out of rel8 reach of the code
    MAX_INSTRUCTION,    \* the longest instruction
    WINDOW              \* how far past the patch branches are looked for

LOCAL Largest(S) == IF S = {} THEN 0 ELSE Max(S)

NextIp(i) == i.at + i.len

ends_function(i) == i.op \in {"ret", "jmp"}

is_conditional_jump(i) == i.op \in {"jcc", "loop"}

is_padding(i) == i.op = "pad"

is_near_branch(i) == i.op \in {"jcc", "loop", "jmp", "call"}

(* The readable bytes from the function's start: up to the last one laid   *)
(* out here, where the committed region ends.                              *)
readable_bytes_from(code) == IF code = <<>> THEN 0 ELSE NextIp(Last(code))

(* Furthest target of the conditional jumps among the first k instructions *)
(* that lies below "end".                                                  *)
branch_reach(code, k, end) ==
    Largest({code[j].to : j \in {n \in 1 .. k : is_conditional_jump(code[n]) /\ code[n].to < end}})

(* Instruction k ends the function unless an earlier jump passes over it.  *)
EndsHere(code, k, end) ==
    ends_function(code[k]) /\ branch_reach(code, k, end) < NextIp(code[k])

(* The bytes of whole instructions that cover min_size, 0 for an error.    *)
get_instruction_len(code, min_size) ==
    LET window == Min({min_size + MAX_INSTRUCTION, readable_bytes_from(code)})
        covering == {k \in DOMAIN code : NextIp(code[k]) >= min_size}
        k == Min(covering)
        ended(j) == \E n \in 1 .. (j - 1) : EndsHere(code, n, window)
    IN  IF \/ readable_bytes_from(code) < min_size
           \/ covering = {}
           \/ \E j \in 1 .. k : ended(j) /\ ~is_padding(code[j])
        THEN 0 ELSE NextIp(code[k])

(* Whether the code after the first len bytes, as far as the function      *)
(* visibly reaches, branches into them past the first one.                 *)
branches_into(code, len) ==
    LET ends == {k \in DOMAIN code : code[k].at >= len
                    /\ EndsHere(code, k, NextIp(Last(code)) + Trampoline)}
        last == IF ends = {} THEN Len(code) ELSE Min(ends)
    IN  \E k \in 1 .. last : /\ code[k].at >= len /\ NextIp(code[k]) <= len + WINDOW
                             /\ is_near_branch(code[k])
                             /\ code[k].to > 0 /\ code[k].to < len

-----------------------------------------------------------------------------
Stolen(code, len) == SelectSeq(code, LAMBDA i : i.at < len)

Boundaries(code, len) == {i.at : i \in ToSet(Stolen(code, len))}

IsGetPc(i, len) == i.op = "call" /\ i.to >= 0 /\ i.to <= len

(* A call into the stolen bytes becomes a push of the original return      *)
(* address and a jump; other instructions are kept.                        *)
emulate_get_pc_call(i, len) ==
    IF IsGetPc(i, len)
    THEN <<[op |-> "push", len |-> 2, to |-> NextIp(i)], [op |-> "jmp", len |-> 3, to |-> i.to]>>
    ELSE <<[op |-> i.op, to |-> i.to,
            len |-> IF i.op \in {"jcc", "jmp", "call"} THEN 3 ELSE i.len]>>

Sum(block, k) == FoldSeq(LAMBDA i, n : n + i.len, 0, SubSeq(block, 1, k))

(* The block handed to the encoder, ending in the jump back, and the block *)
(* index of the first instruction emitted for each stolen one.             *)
Block(code, len) ==
    FlattenSeq([k \in DOMAIN Stolen(code, len) |-> emulate_get_pc_call(code[k], len)])
    \o <<[op |-> "jmp", len |-> 3, to |-> len]>>

BlockIndex(code, len, k) ==
    1 + Len(FlattenSeq([j \in 1 .. (k - 1) |-> emulate_get_pc_call(code[j], len)]))

new_instruction_offsets(code, len) ==
    [k \in DOMAIN Stolen(code, len) |->
        Sum(Block(code, len), BlockIndex(code, len, k) - 1)]

Retarget_Kept(code, len, to) == to

(* The encoder points a branch to a block instruction at its new place. *)
Retarget(code, len, to) ==
    IF to \in Boundaries(code, len)
    THEN LET k == CHOOSE j \in DOMAIN code : code[j].at = to
         IN  Trampoline + new_instruction_offsets(code, len)[k]
    ELSE to

(* A branch without a long form cannot be encoded out of the copy. *)
Encoded(code, len, i) ==
    [i EXCEPT !.to = IF is_near_branch(i) THEN Retarget(code, len, @) ELSE @,
              !.op = IF @ = "loop" /\ i.to \notin Boundaries(code, len) THEN "unplaced" ELSE @]

relocate(code, len) ==
    LET block == Block(code, len)
    IN  [k \in DOMAIN block |->
            Encoded(code, len, block[k]) @@ [at |-> Trampoline + Sum(block, k - 1)]]

(* Refused: a call into the middle of a stolen instruction, and an         *)
(* instruction the encoder could not place.                                *)
Relocatable(code, len) ==
    /\ \A i \in ToSet(Stolen(code, len)) :
          IsGetPc(i, len) => i.to \in Boundaries(code, len) \cup {len}
    /\ \A i \in ToSet(relocate(code, len)) : i.op # "unplaced"

(* attach: refuse, or patch the first len bytes. *)
attach(code, min_size) ==
    LET len == get_instruction_len(code, min_size)
    IN  IF len = 0 \/ branches_into(code, len) \/ ~Relocatable(code, len) THEN 0 ELSE len

-----------------------------------------------------------------------------
(* The reference.  What one instruction does: where control may go, with   *)
(* the return address it leaves on the stack.                              *)
Instr(code, a) == CHOOSE i \in ToSet(code) : i.at = a

Effects(code, i) ==
    CASE i.op \in {"plain", "pad"} -> {<<NextIp(i), "none">>}
      [] is_conditional_jump(i) -> {<<NextIp(i), "none">>, <<i.to, "none">>}
      [] i.op = "jmp"  -> {<<i.to, "none">>}
      [] i.op = "call" -> {<<i.to, ToString(NextIp(i))>>}
      [] i.op = "push" -> {<<Instr(code, NextIp(i)).to, ToString(i.to)>>}
      [] OTHER -> {<<-1, "none">>}

(* Where the copy stands in for an original address: the jump back is as   *)
(* good as the code it leads to.                                           *)
Image(code, len, a) == IF a \in Boundaries(code, len) THEN Retarget(code, len, a) ELSE a

Landing(copy, a) == IF a = Last(copy).at THEN Last(copy).to ELSE a

(* The effects an instruction should have in the copy: its own, moved; a   *)
(* call into the stolen bytes leaves the original return address.          *)
Wanted(code, len, i) ==
    IF i.op = "call" /\ ~IsGetPc(i, len)
    THEN {<<i.to, "moved">>}
    ELSE {<<Image(code, len, e[1]), e[2]>> : e \in Effects(code, i)}

Moved(copy, i) ==
    IF i.op = "call" THEN {<<i.to, "moved">>}
    ELSE {<<Landing(copy, e[1]), e[2]>> : e \in Effects(copy, i)}

(* The copy of every stolen instruction does what the original does, a     *)
(* call returns into the copy behind it, and no address inside the patch   *)
(* is ever reached from the copy.                                          *)
CopyIsFaithful(code, len) ==
    LET copy == relocate(code, len)
    IN  \A k \in DOMAIN Stolen(code, len) :
           LET there == Instr(copy, Trampoline + new_instruction_offsets(code, len)[k])
           IN  /\ Moved(copy, there) = Wanted(code, len, code[k])
               /\ \A e \in Moved(copy, there) : e[1] <= 0 \/ e[1] >= len
               /\ there.op = "call" =>
                     Landing(copy, NextIp(there)) = Image(code, len, NextIp(code[k]))

(* The patch covers only the function and the padding behind it, and no    *)
(* code left in place branches into it.                                    *)
PatchIsSafe(code, own, len) ==
    /\ \A k \in DOMAIN code : code[k].at < len => k <= own \/ is_padding(code[k])
    /\ \A k \in 1 .. own : code[k].at >= len /\ is_near_branch(code[k]) =>
          code[k].to <= 0 \/ code[k].to >= len

(* Code a compiler emits: the first "own" instructions are the function,   *)
(* it ends in a ret or jmp, its conditional jumps stay inside it and, like *)
(* its other branches into it, hit instructions; code behind a ret or jmp  *)
(* is reached by an earlier conditional jump; a call into the function     *)
(* itself is the get-PC idiom, a call of the next instruction, or          *)
(* recursion.                                                              *)
Compiled(code, own) ==
    LET end == NextIp(code[own])
        starts == {code[k].at : k \in 1 .. own}
    IN  /\ ends_function(code[own])
        /\ \A k \in 1 .. own :
              LET i == code[k]
              IN  /\ is_conditional_jump(i) => i.to \in starts
                  /\ is_near_branch(i) /\ i.to < end => i.to \in starts
                  /\ i.op = "call" /\ i.to \in starts => i.to \in {0, NextIp(i)}
                  /\ k < own /\ ends_function(i) =>
                        branch_reach(code, k, end) >= NextIp(i)

(* A hook that attach accepts changes nothing but where the function       *)
(* enters: see CopyIsFaithful and PatchIsSafe.                             *)
SafelyStolen(code, own, min_size) ==
    LET len == attach(code, min_size)
    IN  Compiled(code, own) /\ len # 0 =>
          /\ len >= min_size
          /\ CopyIsFaithful(code, len)
          /\ PatchIsSafe(code, own, len)
=============================================================================
