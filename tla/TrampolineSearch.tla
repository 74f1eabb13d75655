--------------------------- MODULE TrampolineSearch ---------------------------
(***************************************************************************)
(* Where a trampoline or an export stub is placed (alloc.rs): the search   *)
(* walks the free regions around the target and may lose any candidate to  *)
(* another allocator between the query and the allocation.  Memory is a    *)
(* function from page addresses to "free" or "used".                       *)
(***************************************************************************)
EXTENDS Integers, FiniteSets, FiniteSetsExt

CONSTANTS
    Granularity,        \* alignment of allocations
    MinAddress,         \* the usable address range
    MaxAddress,
    Reach,              \* how far a relative jump reaches
    Margin,             \* safety margin of the search window
    RvaReach,           \* how far above a module's base an RVA reaches
    LastPage,           \* the last page
    Targets, Sizes,     \* what trampolines and export stubs are asked for
    Contested           \* places another allocator may take first

ASSUME SearchAssumption ==
    /\ Granularity \in Nat \ {0}
    /\ {MinAddress, MaxAddress, Reach, Margin, RvaReach, LastPage} \subseteq Nat
    /\ Targets \subseteq Nat \ {0} /\ Sizes \subseteq Nat \ {0}

Nowhere == -1

Clamp(x, lo, hi) == IF x < lo THEN lo ELSE IF x > hi THEN hi ELSE x

Distance(a, b) == IF a < b THEN b - a ELSE a - b

Nearest(S, target) ==
    IF S = {} THEN Nowhere
    ELSE CHOOSE a \in S : \A b \in S : \/ Distance(a, target) < Distance(b, target)
                                       \/ Distance(a, target) = Distance(b, target) /\ a <= b

align_down(a) == a - (a % Granularity)

align_up(a) == align_down(a + Granularity - 1)

(* VirtualQuery: the pages from a on that share its state. *)
RegionEnd(mem, a) ==
    Min({b \in DOMAIN mem : b > a /\ mem[b] # mem[a]} \cup {Cardinality(DOMAIN mem)})

(* The addresses the walk from lo queries: lo itself, then the start of    *)
(* every further region below hi.                                          *)
Queried(mem, lo, hi) ==
    {a \in DOMAIN mem : a >= lo /\ a < hi /\ (a = lo \/ mem[a] # mem[a - 1])}

range(size) == IF Reach < Margin + size THEN 0 ELSE Reach - (Margin + size)

min_addr(target, size) == Max({target - range(size), MinAddress, Granularity})

max_addr(target, size) == Min({target + range(size), MaxAddress})

nearest_aligned_candidate_Lowest(region, end, target, size) ==
    IF align_up(region) + size <= end THEN align_up(region) ELSE Nowhere

(* The aligned start in a free region nearest to the target, Nowhere if the   *)
(* region or the window has no room.                                       *)
nearest_aligned_candidate(region, end, target, size) ==
    LET lo == Max({region, min_addr(target, size), Granularity})
        hi == Min({end - size, max_addr(target, size) - size})
        ideal == Clamp(target, lo, hi)
        best == {a \in {align_down(ideal), align_up(ideal)} : a >= lo /\ a <= hi}
    IN  IF lo > hi THEN Nowhere
        ELSE IF best # {} THEN Nearest(best, target)
        ELSE IF align_up(lo) <= hi THEN align_up(lo) ELSE Nowhere

Candidates(mem, target, size) ==
    {nearest_aligned_candidate(a, RegionEnd(mem, a), target, size) :
        a \in {b \in Queried(mem, min_addr(target, size), max_addr(target, size)) :
                  mem[b] = "free" /\ RegionEnd(mem, b) - b >= size}} \ {Nowhere}

(* alloc_nearby: the nearest candidate that is not lost, also checked to   *)
(* lie in the window.                                                      *)
alloc_nearby(mem, target, size, lost) ==
    IF size = 0 THEN Nowhere
    ELSE Nearest({a \in Candidates(mem, target, size) \ lost :
                     a >= min_addr(target, size) /\ a + size <= max_addr(target, size)}, target)

alloc_nearby_trampoline(mem, target, size, lost) ==
    IF target = 0 THEN Nowhere ELSE alloc_nearby(mem, target, size, lost)

(* alloc_export_stub: the first aligned place above the module's base that *)
(* an RVA can express, one try per free region.                            *)
alloc_export_stub(mem, base, size, lost) ==
    LET tries == {align_up(a) :
                    a \in {b \in Queried(mem, base, base + RvaReach - size + 1) :
                              /\ mem[b] = "free"
                              /\ align_up(b) + size <= RegionEnd(mem, b)
                              /\ align_up(b) + size - base <= RvaReach}}
        won == tries \ lost
    IN  IF size = 0 \/ won = {} THEN Nowhere ELSE Min(won)

-----------------------------------------------------------------------------
(* The reference: every place a trampoline could go. *)
Places(mem, lo, hi, size) ==
    {a \in DOMAIN mem : /\ a >= lo /\ a + size <= hi /\ a % Granularity = 0 /\ a # 0
                        /\ \A b \in a .. (a + size - 1) : b \in DOMAIN mem /\ mem[b] = "free"}

(* Jumps between the trampoline and any byte within the safety margin of   *)
(* the target reach, in both directions.                                   *)
InReach(a, target, size) ==
    \A x \in target .. (target + Margin), y \in a .. (a + size) : Distance(x, y) <= Reach

SameRegion(mem, a, b) ==
    \A c \in (IF a < b THEN a .. b ELSE b .. a) : mem[c] = "free"

(* A trampoline lies on free memory in reach of its target, as near as can *)
(* be: whatever place is nearer shares its region with a place lost to     *)
(* another allocator; and the search gives up only when every region's     *)
(* best place was lost.  An export stub is the same with the lowest place. *)
PlacedWell(mem, target, size, lost) ==
    LET a == alloc_nearby_trampoline(mem, target, size, lost)
        s == alloc_export_stub(mem, target, size, lost)
        places == Places(mem, min_addr(target, size), max_addr(target, size), size)
        stubs == Places(mem, target, target + RvaReach, size)
        Missed(b) == \E c \in lost : SameRegion(mem, b, c)
    IN  /\ a # Nowhere => a \in places \ lost /\ InReach(a, target, size)
        /\ target # 0 => \A b \in places :
              a = Nowhere \/ Distance(b, target) < Distance(a, target) => Missed(b)
        /\ s # Nowhere => s \in stubs \ lost
        /\ \A b \in stubs : s = Nowhere \/ b < s => Missed(b)

-----------------------------------------------------------------------------
VARIABLES
    memory,     \* [page -> "free" or "used"]
    request     \* the search under way: its target and size, and the places it loses

searchVars == <<memory, request>>

Requests == [target : Targets, size : Sizes, lost : SUBSET Contested]
NoRequest == [target |-> 0, size |-> 0, lost |-> {}]

SearchInit ==
    /\ memory = [a \in 0 .. LastPage |-> "free"]
    /\ request = NoRequest

(* External: the program and other allocators; what they take during a     *)
(* search is lost to it.                                                   *)
others(a) ==
    /\ request = NoRequest
    /\ memory' = [memory EXCEPT ![a] = IF @ = "free" THEN "used" ELSE "free"]
    /\ UNCHANGED request

search == request = NoRequest /\ request' \in Requests /\ UNCHANGED memory

found == request # NoRequest /\ request' = NoRequest /\ UNCHANGED memory

SearchNext == search \/ found \/ \E a \in 0 .. LastPage : others(a)

SearchSpec == SearchInit /\ [][SearchNext]_searchVars

(***************************************************************************)
(* Trampolines and export stubs are in reach and as near as the memory map *)
(* and the races lost to other allocators allow.                           *)
(***************************************************************************)
PlacementIsNearest ==
    request # NoRequest => PlacedWell(memory, request.target, request.size, request.lost)
=============================================================================
