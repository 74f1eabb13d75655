----------------------------- MODULE PatternScan ------------------------------
(***************************************************************************)
(* Signatures and their search in memory (scan.rs).  Memory is [bytes,     *)
(* pages]: bytes at addresses 0 .., and what VirtualQuery says of every    *)
(* page: "free", "guard", "read" or "exec".                                *)
(***************************************************************************)
LOCAL INSTANCE Integers
LOCAL INSTANCE Sequences
LOCAL INSTANCE FiniteSets
LOCAL INSTANCE FiniteSetsExt
LOCAL INSTANCE SequencesExt

CONSTANT PageSize

(* A token of a signature string: question marks only, or "digits" hex     *)
(* digits of some value (hex FALSE: other characters).  A wildcard's byte  *)
(* is stored as 0 and never looked at.                                     *)
IsWildcard(token) == token.marks

IsByte(token) == token.hex /\ token.digits <= 2

parse(tokens) ==
    IF \E t \in ToSet(tokens) : ~IsWildcard(t) /\ ~IsByte(t) THEN [error |-> "InvalidToken"]
    ELSE IF tokens = <<>> THEN [error |-> "Empty"]
    ELSE [error |-> "none",
          bytes |-> [j \in DOMAIN tokens |-> IF IsWildcard(tokens[j]) THEN 0 ELSE tokens[j].value],
          mask  |-> [j \in DOMAIN tokens |-> ~IsWildcard(tokens[j])]]

(* The other dialect: bytes and a mask of the letters x, X and ?. *)
from_code_style(pattern, mask) ==
    IF pattern = <<>> THEN [error |-> "Empty"]
    ELSE IF Len(pattern) # Len(mask) THEN [error |-> "MaskLengthMismatch"]
    ELSE IF ToSet(mask) \subseteq {"x", "X", "?"}
         THEN [error |-> "none", bytes |-> pattern, mask |-> [j \in DOMAIN mask |-> mask[j] # "?"]]
    ELSE [error |-> "InvalidMaskChar"]

matches_at(pat, bytes, offset) ==
    \A j \in DOMAIN pat.bytes : pat.mask[j] => bytes[offset + j - 1] = pat.bytes[j]

(* Every match in the addresses from .. to - 1, in order. *)
scan_all(mem, pat, from, to) ==
    SetToSortSeq({a \in from .. (to - Len(pat.bytes)) : matches_at(pat, mem.bytes, a)},
                 LAMBDA a, b : a < b)

(* The first one, as a sequence of at most one. *)
scan(mem, pat, from, to) == SubSeq(scan_all(mem, pat, from, to), 1,
                                   Min({1, Len(scan_all(mem, pat, from, to))}))

(* VirtualQuery: the end of the run of pages like the one of the address.  *)
RegionEnd(mem, a) ==
    LET page == a \div PageSize
    IN  PageSize * Min({p \in DOMAIN mem.pages : p > page /\ mem.pages[p] # mem.pages[page]}
                       \cup {Max(DOMAIN mem.pages) + 1})

Readable_Guard(mem, a, executable_only) ==
    mem.pages[a \div PageSize] \in (IF executable_only THEN {"exec"} ELSE {"read", "exec", "guard"})

(* Committed, neither guarded nor inaccessible, executable if asked for. *)
Readable(mem, a, executable_only) ==
    mem.pages[a \div PageSize] \in (IF executable_only THEN {"exec"} ELSE {"read", "exec"})

(* The loop of scan_committed from a cursor on; [a, b) addresses. *)
RECURSIVE Scanned(_, _, _, _, _, _)
Scanned(mem, pat, cursor, range_end, executable_only, first_only) ==
    IF cursor >= range_end \/ cursor \div PageSize \notin DOMAIN mem.pages THEN <<>>
    ELSE LET scan_end == Min({RegionEnd(mem, cursor), range_end})
             here == IF ~Readable(mem, cursor, executable_only) THEN <<>>
                     ELSE IF first_only THEN scan(mem, pat, cursor, scan_end)
                     ELSE scan_all(mem, pat, cursor, scan_end)
         IN  IF first_only /\ here # <<>> THEN here
             ELSE here \o Scanned(mem, pat, RegionEnd(mem, cursor), range_end,
                                  executable_only, first_only)

scan_committed(mem, start, len, pat, executable_only, first_only) ==
    IF len < Len(pat.bytes) THEN <<>>
    ELSE Scanned(mem, pat, start, start + len, executable_only, first_only)

scan_range(mem, start, len, pat) == scan_committed(mem, start, len, pat, FALSE, TRUE)

scan_range_all(mem, start, len, pat) == scan_committed(mem, start, len, pat, FALSE, FALSE)

(* In a module: the whole image, executable regions only. *)
ImageSize(mem) == PageSize * (Max(DOMAIN mem.pages) + 1)

scan_module(mem, pat) == scan_committed(mem, 0, ImageSize(mem), pat, TRUE, TRUE)

scan_module_all(mem, pat) == scan_committed(mem, 0, ImageSize(mem), pat, TRUE, FALSE)

-----------------------------------------------------------------------------
(* The reference: all addresses where the signature stands, every byte of  *)
(* it in the range, readable and in pages of one kind.                     *)
Matches(mem, pat, start, len, executable_only) ==
    {a \in start .. (start + len - Len(pat.bytes)) :
        LET at == a .. (a + Len(pat.bytes) - 1)
        IN  /\ \A b \in at : b \div PageSize \in DOMAIN mem.pages
            /\ \A b \in at : \/ mem.pages[b \div PageSize] = "exec"
                             \/ mem.pages[b \div PageSize] = "read" /\ ~executable_only
            /\ \A b, c \in at : mem.pages[b \div PageSize] = mem.pages[c \div PageSize]
            /\ \A j \in DOMAIN pat.bytes :
                  ~pat.mask[j] \/ mem.bytes[a + j - 1] = pat.bytes[j]}

Exactly(found, want) == ToSet(found) = want /\ Len(found) = Cardinality(want)

FirstOf(found, want) == IF want = {} THEN found = <<>> ELSE found = <<Min(want)>>

(* A scan reports every match once and nothing else, the first one is the  *)
(* lowest, no byte of a guard page or a hole is read on the way, and both  *)
(* dialects of a signature mean the same.                                  *)
FindsExactly(mem, tokens, start, len) ==
    LET pat == parse(tokens)
        mask == [j \in DOMAIN tokens |-> IF IsWildcard(tokens[j]) THEN "?" ELSE "x"]
        alike == from_code_style(pat.bytes, mask)
        range == Matches(mem, pat, start, len, FALSE)
        image == Matches(mem, pat, 0, ImageSize(mem), TRUE)
    IN  pat.error = "none" =>
          /\ alike = pat
          /\ Exactly(scan_range_all(mem, start, len, pat), range)
          /\ FirstOf(scan_range(mem, start, len, pat), range)
          /\ Exactly(scan_module_all(mem, pat), image)
          /\ FirstOf(scan_module(mem, pat), image)
=============================================================================
