-------------------------------- MODULE Pmm --------------------------------
(***************************************************************************)
(* Physical memory: the free-range list of kernel/memory.c.                *)
(*                                                                         *)
(* Free memory is a bounded, sorted array of ranges of pages; allocation   *)
(* is best fit and takes the front of a range, freeing inserts a range and *)
(* merges it with its neighbours.  Addresses are counted in pages.  Every  *)
(* operation runs under g_pmm_lock with interrupts masked, so it is one    *)
(* step.                                                                   *)
(*                                                                         *)
(* The environment is the rest of the kernel: it frees pages it holds, in  *)
(* blocks of any size, and may free by mistake what is already free.       *)
(***************************************************************************)
EXTENDS Integers, FiniteSets, SequencesExt

CONSTANTS Regions,     \* g_regions: the usable memory the boot loader reports
          MaxRanges,   \* PMM_MAX_FREE_RANGES
          MaxBlock     \* the largest allocation explored

Pages(r) == r.base .. r.end - 1
PagesOf(rs) == UNION {Pages(rs[i]) : i \in DOMAIN rs}
Managed == PagesOf(Regions)

(* The boot loader reports no page twice; page 0 is never usable, so that  *)
(* 0 can mean failure.                                                     *)
ASSUME PmmAssumption ==
    /\ MaxRanges \in Nat /\ MaxBlock \in Nat
    /\ Regions \in Seq([base : Nat \ {0}, end : Nat])
    /\ Len(Regions) \in 1 .. MaxRanges
    /\ \A i \in DOMAIN Regions : Regions[i].base < Regions[i].end
    /\ \A i, j \in DOMAIN Regions :
          i # j => Pages(Regions[i]) \intersect Pages(Regions[j]) = {}

VARIABLES ranges,      \* g_free_ranges[0 .. g_free_range_count - 1]
          allocated,   \* g_allocated_bytes, in pages
          held,        \* the pages the rest of the kernel holds
          booted       \* how many regions pmm_init has put into the list

vars == <<ranges, allocated, held, booted>>

Ready == booted = Len(Regions)    \* pmm_init has returned
Added == UNION {Pages(Regions[i]) : i \in 1 .. booted}

Sizes == 0 .. Cardinality(Managed)

TypeOK ==
    /\ Len(ranges) <= MaxRanges
    /\ \A i \in DOMAIN ranges : Pages(ranges[i]) \subseteq Managed
    /\ allocated \in Sizes
    /\ held \subseteq Managed
    /\ booted \in 0 .. Len(Regions)

-----------------------------------------------------------------------------
(* pmm_insert_free_range *)

(* How many ranges the search passes: those before the first that does not  *)
(* begin below b.                                                           *)
Before(rs, b) == Cardinality({i \in DOMAIN rs : \A j \in 1 .. i : rs[j].base < b})

(* The range is refused when the table is full or when it overlaps a        *)
(* neighbour.                                                               *)
CanInsert(rs, b, e) ==
    LET pos == Before(rs, b)
    IN  /\ b < e
        /\ Len(rs) < MaxRanges
        /\ pos > 0 => rs[pos].end <= b
        /\ pos < Len(rs) => e <= rs[pos + 1].base

Touching(rs, i) == i \in 1 .. Len(rs) - 1 /\ rs[i].end = rs[i + 1].base

(* Ranges i and i + 1 become one. *)
Join(rs, i) ==
    RemoveAt([rs EXCEPT ![i].end = rs[i + 1].end], i + 1)

Insert(rs, b, e) ==
    LET pos  == Before(rs, b)
        new  == InsertAt(rs, pos + 1, [base |-> b, end |-> e])
        left == IF Touching(new, pos) THEN Join(new, pos) ELSE new
        at   == IF Touching(new, pos) THEN pos ELSE pos + 1
    IN  IF Touching(left, at) THEN Join(left, at) ELSE left

(* pmm_init, which runs before anything else: it clears the list and then   *)
(* inserts the regions one by one, whatever the insertion answers.          *)
Init ==
    /\ ranges = <<>>
    /\ allocated = 0
    /\ held = {}
    /\ booted = 0

AddRegion ==
    LET r == Regions[booted + 1]
    IN  /\ ~Ready
        /\ ranges' = IF CanInsert(ranges, r.base, r.end)
                     THEN Insert(ranges, r.base, r.end) ELSE ranges
        /\ booted' = booted + 1
        /\ UNCHANGED <<allocated, held>>

-----------------------------------------------------------------------------
Size(i) == ranges[i].end - ranges[i].base

(* Mutant of BestFit: the first range that is large enough. *)
FirstFit(i, n) ==
    /\ i \in DOMAIN ranges
    /\ Size(i) >= n
    /\ \A j \in DOMAIN ranges : Size(j) >= n => i <= j

(* The first of the smallest ranges that are large enough. *)
BestFit(i, n) ==
    /\ i \in DOMAIN ranges
    /\ Size(i) >= n
    /\ \A j \in DOMAIN ranges : Size(j) >= n =>
          \/ Size(i) < Size(j)
          \/ Size(i) = Size(j) /\ i <= j

(* Mutant of Take: the range is not shortened by the whole block. *)
TakeOnePage(i, n) ==
    IF Size(i) = 1 THEN RemoveAt(ranges, i)
    ELSE [ranges EXCEPT ![i].base = @ + 1]

(* The list without the first n pages of range i. *)
Take(i, n) ==
    IF Size(i) = n THEN RemoveAt(ranges, i)
    ELSE [ranges EXCEPT ![i].base = @ + n]

(* pmm_alloc_pages, when some range is large enough; otherwise the call     *)
(* only counts a failed allocation.                                         *)
Alloc(n) ==
    /\ Ready
    /\ UNCHANGED booted
    /\ \E i \in DOMAIN ranges :
          /\ BestFit(i, n)
          /\ ranges' = Take(i, n)
          /\ allocated' = allocated + n
          /\ held' = held \union (ranges[i].base .. ranges[i].base + n - 1)

(* The checks of pmm_free_pages. *)
Accepts(b, n) ==
    /\ \E i \in DOMAIN Regions : Regions[i].base <= b /\ b + n <= Regions[i].end
    /\ \A i \in DOMAIN ranges : ~(b < ranges[i].end /\ ranges[i].base < b + n)
    /\ CanInsert(ranges, b, b + n)

(* pmm_free_pages, of n pages each of which the caller holds or has freed   *)
(* already.  A free that is refused changes nothing: the pages stay taken.  *)
Free(b, n) ==
    /\ Ready
    /\ b .. b + n - 1 \subseteq held \union PagesOf(ranges)
    /\ Accepts(b, n)
    /\ ranges' = Insert(ranges, b, b + n)
    /\ allocated' = IF allocated >= n THEN allocated - n ELSE 0
    /\ held' = held \ (b .. b + n - 1)
    /\ UNCHANGED booted

Next ==
    \/ AddRegion
    \/ \E n \in 1 .. MaxBlock : Alloc(n)
    \/ \E b \in Managed, n \in 1 .. MaxBlock : Free(b, n)

Spec == Init /\ [][Next]_vars

-----------------------------------------------------------------------------
(* Properties *)

(* The list is sorted, without empty, overlapping or adjacent ranges: every *)
(* entry is a maximal run of free pages.                                    *)
Coalesced ==
    \A i \in DOMAIN ranges :
        /\ ranges[i].base < ranges[i].end
        /\ \A j \in 1 .. i - 1 : ranges[j].end < ranges[i].base

(* No page is handed out twice or lost: those in the list, which fits its   *)
(* table and is coalesced, and those held by the rest of the kernel make up *)
(* the memory added so far, in the end all of it, and the statistics count  *)
(* the held ones.                                                           *)
EveryPageOnce ==
    /\ TypeOK
    /\ Coalesced
    /\ PagesOf(ranges) \intersect held = {}
    /\ PagesOf(ranges) \union held = Added
    /\ allocated = Cardinality(held)

(* The pool is there, all its pages free, when pmm_init returns. *)
FreePages == IF Ready THEN PagesOf(ranges) ELSE Managed

Pool == INSTANCE PagePool WITH free <- FreePages

(* The list behaves as a pool of free pages with best-fit allocation over   *)
(* its runs: splitting and merging never shows.                             *)
ImplementsPool == Pool!PoolSpec
=============================================================================
