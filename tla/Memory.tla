------------------------------- MODULE Memory -------------------------------
(***************************************************************************)
(* The address spaces of the processes and the shared memory objects       *)
(* (memfd): kernel/process.c process_vm_*, the page tables of              *)
(* kernel/memory.c, section 1 of kernel/unix_ipc.c and mremap of           *)
(* kernel/linux_syscall.c.                                                 *)
(*                                                                         *)
(* A page is a number.  pmm_alloc_page returns some free page; pages are   *)
(* told apart by nothing but who holds them, so the model takes some free  *)
(* ones (the allocator itself is module Pmm).  Addresses are counted in    *)
(* pages: the heap is 1..HeapSize, the stack of a further thread follows   *)
(* it, and then the area where the kernel places the mapped regions        *)
(* (PROCESS_VM_BASE).  A fixed mapping may lie anywhere in them, across    *)
(* their borders too.  The page tables of an address space are one table,  *)
(* which takes one page while some page is present.                        *)
(* The program image, the main thread's stack and the window buffers,      *)
(* protection bits and the contents of the pages are left out.             *)
(***************************************************************************)
EXTENDS Integers, FiniteSets, FiniteSetsExt, Sequences, SequencesExt

CONSTANTS NProcs,       \* MAX_PROCESSES
          NPages,       \* pages of physical memory
          NMemfds,      \* MAX_MEMFDS
          MaxPages,     \* MEMFD_MAX_PAGES
          MaxRegions,   \* MAX_VM_REGIONS_PER_PROCESS
          HeapSize,     \* PROCESS_VM_MAX_SIZE of the heap, in pages
          StackSize,    \* stack_pages of a further thread
          VmSize,       \* from PROCESS_VM_BASE to USER_VA_LIMIT, in pages
          Allocators    \* bound: the processes that also use anonymous memory

ASSUME MemoryAssumption ==
    /\ {NProcs, NPages, NMemfds, MaxPages, MaxRegions, HeapSize, StackSize,
        VmSize} \subseteq Nat \ {0}
    /\ Allocators \subseteq 0 .. NProcs - 1

VARIABLES free,      \* the pages pmm_alloc_page can return
          space,     \* [process -> its page table, regions, next base, heap end, stack]
          memfds,    \* g_memfds: [object -> references, pages]
          holders,   \* [object -> the processes with a descriptor of its file]
          shrunk     \* objects that lost a page some region still maps

vars == <<free, space, memfds, holders, shrunk>>

Procs    == 0 .. NProcs - 1
Pages    == 1 .. NPages
Memfds   == 1 .. NMemfds
Low      == HeapSize + StackSize    \* the last address below PROCESS_VM_BASE
Virt     == 1 .. Low + VmSize
Slots    == 1 .. MaxRegions
Absent   == 0

\* memfd 0 stands for a region of anonymous memory, which owns its pages.
Regions  == [active : BOOLEAN, base : Virt \cup {0}, size : Virt \cup {0},
             memfd : Memfds \cup {0}, start : 0 .. MaxPages]
NoRegion == [active |-> FALSE, base |-> 0, size |-> 0, memfd |-> 0, start |-> 0]

Blank == [pt      |-> [va \in Virt |-> Absent],
          table   |-> Absent,
          regions |-> [r \in Slots |-> NoRegion],
          next    |-> Low + 1,
          heap    |-> 0,
          stack   |-> FALSE]

Init == /\ free = Pages
        /\ space = [p \in Procs |-> Blank]
        /\ memfds = [m \in Memfds |-> [refs |-> 0, pages |-> <<>>]]
        /\ holders = [m \in Memfds |-> {}]
        /\ shrunk = {}

-----------------------------------------------------------------------------
(* A call computes with the pages, the objects and one address space.      *)

State(p) == [free |-> free, memfds |-> memfds, as |-> space[p]]
Become(p, s) == /\ free' = s.free
                /\ memfds' = s.memfds
                /\ space' = [space EXCEPT ![p] = s.as]

Span(base, n)   == base .. base + n - 1
SomeOf(S, n)    == CHOOSE pages \in Injection(1 .. n, S) : TRUE
Present(as, vas) == {va \in vas : as.pt[va] # Absent}
TableCost(as) == IF as.table = Absent THEN 1 ELSE 0

\* vmm_map_page of the given pages at base, with a table if there is none.
Mapped(s, base, pages) ==
    LET table == IF s.as.table # Absent THEN s.as.table ELSE Min(s.free)
    IN  [s EXCEPT !.free = @ \ {table},
                  !.as.table = table,
                  !.as.pt = [va \in Virt |-> IF va \in Span(base, Len(pages))
                                               THEN pages[va - base + 1] ELSE @[va]]]

\* vmm_unmap_page of every present page of vas; a table left empty is freed.
Unmapped(s, vas, frees) ==
    LET pt    == [va \in Virt |-> IF va \in vas THEN Absent ELSE s.as.pt[va]]
        empty == s.as.table # Absent /\ \A va \in Virt : pt[va] = Absent
    IN  [s EXCEPT !.free = @ \cup (IF empty THEN {s.as.table} ELSE {})
                             \cup (IF frees THEN {s.as.pt[va] : va \in Present(s.as, vas)} ELSE {}),
                  !.as.pt = pt,
                  !.as.table = IF empty THEN Absent ELSE @]

\* Fresh pages for n addresses from base on: possible, and done.
CanFill(s, n) == Cardinality(s.free) >= n + TableCost(s.as)
Filled(s, base, n) ==
    LET pages == SomeOf(s.free, n)
    IN  Mapped([s EXCEPT !.free = @ \ Range(pages)], base, pages)

FreeSlots(as) == {r \in Slots : ~as.regions[r].active}
\* The search for an address: from the next base in strides of the size.
Bases(as, n) == {b \in as.next .. Low + VmSize - n + 1 :
                    (b - as.next) % n = 0 /\ Present(as, Span(b, n)) = {}}
Recorded(s, r, base, n, m, start) ==
    [s EXCEPT !.as.regions[r] = [active |-> TRUE, base |-> base, size |-> n,
                                 memfd |-> m, start |-> start]]

\* unix_memfd_release
MemfdReleased(s, m) ==
    IF s.memfds[m].refs > 1
      THEN [s EXCEPT !.memfds[m].refs = @ - 1]
      ELSE [s EXCEPT !.free = @ \cup Range(s.memfds[m].pages),
                     !.memfds[m] = [refs |-> 0, pages |-> <<>>]]

RegionSpan(region) == Span(region.base, region.size)
Whole(as, r) == Present(as, RegionSpan(as.regions[r])) = RegionSpan(as.regions[r])

\* process_vm_unmap of a region: it stops at the first page that is missing.
RegionUnmapped(s, r) ==
    LET region == s.as.regions[r]
        gone   == Unmapped(s, RegionSpan(region), region.memfd = 0)
        back   == IF region.memfd = 0 THEN gone ELSE MemfdReleased(gone, region.memfd)
        hole   == Min(RegionSpan(region) \ Present(s.as, RegionSpan(region)))
    IN  IF Whole(s.as, r)
          THEN [back EXCEPT !.as.regions[r] = NoRegion]
          ELSE Unmapped(s, region.base .. hole - 1, region.memfd = 0)

-----------------------------------------------------------------------------
(* Anonymous memory.                                                       *)

CanVmMap(s, n) == FreeSlots(s.as) # {} /\ Bases(s.as, n) # {} /\ CanFill(s, n)
VmMapped(s, n) ==
    LET base == Min(Bases(s.as, n))
    IN  [Recorded(Filled(s, base, n), Min(FreeSlots(s.as)), base, n, 0, 0)
            EXCEPT !.as.next = base + n]

\* process_vm_map; a failure gives back what it took.
VmMap(p, n) ==
    /\ CanVmMap(State(p), n)
    /\ Become(p, VmMapped(State(p), n))
    /\ UNCHANGED <<holders, shrunk>>

\* Mutant: only the first address is looked up among the regions.
OverlapsFirstPage(as, base, n) ==
    {r \in Slots : as.regions[r].active /\ base \in RegionSpan(as.regions[r])}
Overlapping(as, base, n) ==
    {r \in Slots : as.regions[r].active /\ RegionSpan(as.regions[r]) \cap Span(base, n) # {}}
Exact(as, r, base, n) == as.regions[r].base = base /\ as.regions[r].size = n

\* Mutant: a failure keeps the pages already mapped.
ReplacedWithoutRollback(s, base, n, r) ==
    LET short(k) == Cardinality(Span(base, k) \ Present(s.as, Span(base, k)))
                      + TableCost(s.as) > Cardinality(s.free)
        failing  == {k \in 1 .. n : short(k)}
        got      == Min(failing) - 1
    IN  IF failing # {}
          THEN IF got = 0 THEN s ELSE Filled(Unmapped(s, Span(base, got), TRUE), base, got)
          ELSE Recorded(Filled(Unmapped(s, Span(base, n), TRUE), base, n), r, base, n, 0, 0)

\* The loop of process_vm_map_fixed, page by page: what is present goes, a fresh
\* page comes.  It fails at the first address for which no page is left, with
\* every page up to there unmapped.
Replaced(s, base, n, r) ==
    LET short(k) == Cardinality(Span(base, k) \ Present(s.as, Span(base, k)))
                      + TableCost(s.as) > Cardinality(s.free)
        failing  == {k \in 1 .. n : short(k)}
        cleared  == Unmapped(s, Span(base, n), TRUE)
    IN  IF failing # {}
          THEN Unmapped(s, Span(base, Min(failing)), TRUE)
          ELSE Recorded(Filled(cleared, base, n), r, base, n, 0, 0)

\* process_vm_map_fixed: a region of exactly this range is unmapped first, any
\* other overlap is refused.
VmMapFixed(p, base, n) ==
    LET s    == State(p)
        over == Overlapping(s.as, base, n)
        r    == Min(over)
    IN  /\ \/ /\ over = {}
              /\ FreeSlots(s.as) # {}
              /\ Become(p, Replaced(s, base, n, Min(FreeSlots(s.as))))
           \/ /\ over # {}
              /\ Exact(s.as, r, base, n)
              /\ Become(p, IF Whole(s.as, r) THEN Replaced(RegionUnmapped(s, r), base, n, r)
                                             ELSE RegionUnmapped(s, r))
        /\ UNCHANGED <<holders, shrunk>>

\* process_vm_unmap
VmUnmap(p, r) ==
    /\ space[p].regions[r].active
    /\ Become(p, RegionUnmapped(State(p), r))
    /\ UNCHANGED <<holders, shrunk>>

\* process_vm_brk, to n pages: growth stops at a page that is present or that
\* cannot be had, and is then taken back.
Brk(p, n) ==
    LET s    == State(p)
        more == Span(s.as.heap + 1, n - s.as.heap)
    IN  /\ \/ /\ n > s.as.heap
              /\ Present(s.as, more) = {}
              /\ CanFill(s, n - s.as.heap)
              /\ Become(p, [Filled(s, s.as.heap + 1, n - s.as.heap) EXCEPT !.as.heap = n])
           \/ /\ n < s.as.heap
              /\ Become(p, [Unmapped(s, n + 1 .. s.as.heap, TRUE) EXCEPT !.as.heap = n])
        /\ UNCHANGED <<holders, shrunk>>

\* mremap of base and its old size to n pages: a new mapping, the contents
\* copied, and the old one unmapped unless it is kept (MREMAP_DONTUNMAP).  A page
\* missing under the copy, or an old range to unmap that is no region, is an
\* error, which takes the new mapping back but not the next base.
Mremap(p, base, old, n, keep) ==
    LET s      == State(p)
        moved  == VmMapped(s, n)
        copied == Span(base, Min({old, n}))
        region == {r \in Slots : s.as.regions[r].active /\ Exact(s.as, r, base, old)}
    IN  /\ keep \/ n > old
        /\ CanVmMap(s, n)
        /\ Become(p, IF Present(s.as, copied) # copied \/ (~keep /\ region = {})
                       THEN [s EXCEPT !.as.next = moved.as.next]
                     ELSE IF keep THEN moved
                     ELSE RegionUnmapped(moved, Min(region)))
        /\ UNCHANGED <<holders, shrunk>>

StackSpan == HeapSize + 1 .. Low

\* The stack of a further thread, at its fixed address: process_create_thread maps
\* it, or nothing when a page is in the way or cannot be had, and
\* process_exit_current_thread unmaps whatever is there by then.
ThreadStart(p) ==
    LET s == State(p)
    IN  /\ ~s.as.stack
        /\ Present(s.as, StackSpan) = {}
        /\ CanFill(s, StackSize)
        /\ Become(p, [Filled(s, HeapSize + 1, StackSize) EXCEPT !.as.stack = TRUE])
        /\ UNCHANGED <<holders, shrunk>>

ThreadStop(p) ==
    /\ space[p].stack
    /\ Become(p, [Unmapped(State(p), StackSpan, TRUE) EXCEPT !.as.stack = FALSE])
    /\ UNCHANGED <<holders, shrunk>>

-----------------------------------------------------------------------------
(* Shared memory objects.                                                  *)

\* unix_memfd_create, in the first free slot.
MemfdCreate(p) ==
    LET idle == {m \in Memfds : memfds[m].refs = 0}
    IN  /\ idle # {}
        /\ memfds' = [memfds EXCEPT ![Min(idle)] = [refs |-> 1, pages |-> <<>>]]
        /\ holders' = [holders EXCEPT ![Min(idle)] = {p}]
        /\ shrunk' = shrunk \ {Min(idle)}
        /\ UNCHANGED <<free, space>>

\* The growing loop: it keeps what it got when memory runs out.
Grown(s, m, n) ==
    LET want  == n - Len(s.memfds[m].pages)
        pages == SomeOf(s.free, Min({want, Cardinality(s.free)}))
    IN  IF want <= 0 THEN s
        ELSE [s EXCEPT !.free = @ \ Range(pages), !.memfds[m].pages = @ \o pages]

\* Pages of the object some region maps.
Viewed(m) ==
    {i \in 1 .. MaxPages : \E p \in Procs, r \in Slots :
        LET region == space[p].regions[r]
        IN  region.active /\ region.memfd = m /\ i \in Span(region.start + 1, region.size)}

\* unix_memfd_ftruncate
MemfdTruncate(p, m, n) ==
    LET s == State(p)
        len == Len(memfds[m].pages)
    IN  /\ p \in holders[m]
        /\ IF n >= len
             THEN Become(p, Grown(s, m, n)) /\ UNCHANGED shrunk
             ELSE /\ Become(p, [s EXCEPT !.free = @ \cup Range(SubSeq(memfds[m].pages, n + 1, len)),
                                         !.memfds[m].pages = SubSeq(@, 1, n)])
                  /\ shrunk' = IF Viewed(m) \cap (n + 1 .. len) = {} THEN shrunk ELSE shrunk \cup {m}
        /\ UNCHANGED holders

\* unix_memfd_write that ends in page n
MemfdWrite(p, m, n) ==
    /\ p \in holders[m]
    /\ Become(p, Grown(State(p), m, n))
    /\ UNCHANGED <<holders, shrunk>>

\* process_vm_map_phys and process_vm_attach_backing of the object's pages
CanView(s, m, start, n) ==
    /\ Len(s.memfds[m].pages) >= start + n
    /\ FreeSlots(s.as) # {}
    /\ Bases(s.as, n) # {}
    /\ Cardinality(s.free) >= TableCost(s.as)
\* Mutant: the mapping takes no reference.
WithViewUncounted(s, m, start, n) ==
    LET base == Min(Bases(s.as, n))
        t    == Mapped(s, base, SubSeq(s.memfds[m].pages, start + 1, start + n))
    IN  [Recorded(t, Min(FreeSlots(s.as)), base, n, m, start) EXCEPT !.as.next = base + n]
\* Mutant: the offset is recorded but the first pages are mapped.
WithViewFromStart(s, m, start, n) ==
    LET base == Min(Bases(s.as, n))
        t    == Mapped(s, base, SubSeq(s.memfds[m].pages, 1, n))
    IN  [Recorded(t, Min(FreeSlots(s.as)), base, n, m, start)
            EXCEPT !.as.next = base + n, !.memfds[m].refs = @ + 1]
WithView(s, m, start, n) ==
    LET base == Min(Bases(s.as, n))
        t    == Mapped(s, base, SubSeq(s.memfds[m].pages, start + 1, start + n))
    IN  [Recorded(t, Min(FreeSlots(s.as)), base, n, m, start)
            EXCEPT !.as.next = base + n, !.memfds[m].refs = @ + 1]

\* unix_memfd_mmap: the object grows to the range first, and stays grown when
\* the mapping then fails.  An offset so near 2^64 that the end of the range wraps
\* around, which the code does not refuse, is left out: start + n is the true end.
MemfdMap(p, m, start, n) ==
    LET s == Grown(State(p), m, start + n)
    IN  /\ p \in holders[m]
        /\ start + n <= MaxPages
        /\ Become(p, IF CanView(s, m, start, n) THEN WithView(s, m, start, n) ELSE s)
        /\ UNCHANGED <<holders, shrunk>>

\* Another process gets a descriptor of the object's file: over a Unix socket or
\* as the child it starts (modules UnixSocket and FdTable).
Share(p, q, m) ==
    /\ p \in holders[m]
    /\ q \notin holders[m]
    /\ holders' = [holders EXCEPT ![m] = @ \cup {q}]
    /\ UNCHANGED <<free, space, memfds, shrunk>>

\* The last descriptor closes the file, which releases the object.
DroppedUpTo(s, p, ms) ==
    LET T[k \in 0 .. NMemfds] ==
            IF k = 0 THEN s
            ELSE IF k \in ms /\ holders[k] = {p} THEN MemfdReleased(T[k - 1], k)
            ELSE T[k - 1]
    IN  T
Dropped(s, p, ms) == DroppedUpTo(s, p, ms)[NMemfds]

MemfdClose(p, m) ==
    /\ p \in holders[m]
    /\ Become(p, Dropped(State(p), p, {m}))
    /\ holders' = [holders EXCEPT ![m] = @ \ {p}]
    /\ UNCHANGED shrunk

-----------------------------------------------------------------------------
(* The end of a process: fd_close_owner, then process_release_resources,   *)
(* which unmaps the regions, and vmm_destroy_user_pml4, which frees every  *)
(* page still mapped.  The blank space is the next program's in the slot.  *)

\* Mutant: the end of a process frees the pages of every region.
RegionReleasedWithPages(s, r) ==
    LET region == s.as.regions[r]
        gone   == Unmapped(s, RegionSpan(region), TRUE)
    IN  IF ~region.active THEN s
        ELSE IF region.memfd = 0 THEN gone ELSE MemfdReleased(gone, region.memfd)

RegionReleased(s, r) ==
    LET region == s.as.regions[r]
        gone   == Unmapped(s, RegionSpan(region), region.memfd = 0)
    IN  IF ~region.active THEN s
        ELSE IF region.memfd = 0 THEN gone ELSE MemfdReleased(gone, region.memfd)

\* The address space after the loop over the first k regions.
ReleasedUpTo(s) ==
    LET T[k \in 0 .. MaxRegions] == IF k = 0 THEN s ELSE RegionReleased(T[k - 1], k)
    IN  T

ResourcesReleased(s) ==
    [Unmapped(ReleasedUpTo(s)[MaxRegions], Virt, TRUE) EXCEPT !.as = Blank]

Exit(p) ==
    /\ space[p] # Blank \/ \E m \in Memfds : p \in holders[m]
    /\ Become(p, ResourcesReleased(Dropped(State(p), p, {m \in Memfds : p \in holders[m]})))
    /\ holders' = [m \in Memfds |-> holders[m] \ {p}]
    /\ UNCHANGED shrunk

Anonymous(p) ==
    \/ \E n \in 1 .. VmSize : VmMap(p, n)
    \/ \E base, n \in Virt : base + n - 1 \in Virt /\ VmMapFixed(p, base, n)
    \/ \E n \in 0 .. HeapSize : Brk(p, n)
    \/ \E base, old \in Virt : \E n \in 1 .. VmSize : \E keep \in BOOLEAN :
          base + old - 1 \in Virt /\ Mremap(p, base, old, n, keep)
    \/ ThreadStart(p)
    \/ ThreadStop(p)

Shared(p, m) ==
    \/ \E n \in 0 .. MaxPages : MemfdTruncate(p, m, n)
    \/ \E n \in 1 .. MaxPages : MemfdWrite(p, m, n)
    \/ \E start \in 0 .. MaxPages - 1 : \E n \in 1 .. VmSize : MemfdMap(p, m, start, n)
    \/ \E q \in Procs : Share(p, q, m)
    \/ MemfdClose(p, m)

Next == \/ \E p \in Allocators : Anonymous(p)
        \/ \E p \in Procs : \/ \E r \in Slots : VmUnmap(p, r)
                            \/ MemfdCreate(p)
                            \/ \E m \in Memfds : Shared(p, m)
                            \/ Exit(p)

Spec == Init /\ [][Next]_vars

-----------------------------------------------------------------------------
(* Properties.                                                             *)

\* The state of module Memory is well formed: objects stay within
\* MEMFD_MAX_PAGES, the heap within its area.
TypeOK ==
    /\ free \subseteq Pages
    /\ \A p \in Procs :
          /\ space[p].pt \in [Virt -> Pages \cup {Absent}]
          /\ space[p].table \in Pages \cup {Absent}
          /\ space[p].regions \in [Slots -> Regions]
          /\ space[p].next \in Low + 1 .. Low + VmSize + 1
          /\ space[p].heap \in 0 .. HeapSize
          /\ space[p].stack \in BOOLEAN
    /\ \A m \in Memfds : /\ memfds[m].refs \in 0 .. 1 + NProcs * MaxRegions
                         /\ memfds[m].pages \in BoundedSeq(Pages, MaxPages)
    /\ holders \in [Memfds -> SUBSET Procs]
    /\ shrunk \subseteq Memfds

Views(p)     == {r \in Slots : space[p].regions[r].active /\ space[p].regions[r].memfd # 0}
SharedSpan(p) == UNION {RegionSpan(space[p].regions[r]) : r \in Views(p)}

\* Every page of memory has exactly one owner: the allocator, one address of one
\* process outside its shared regions, one place in one shared object, or one
\* page table.  No sequence of mapping, replacing, moving, growing, sharing and
\* dying leaks a page or frees it twice, and objects and heaps stay within
\* their bounds.
OneOwner ==
    /\ TypeOK
    /\ \A x \in Pages :
        Cardinality({0} \cap {IF x \in free THEN 0 ELSE 1})
          + Cardinality({pv \in Procs \X Virt : /\ space[pv[1]].pt[pv[2]] = x
                                               /\ pv[2] \notin SharedSpan(pv[1])})
          + Cardinality({mi \in Memfds \X (1 .. MaxPages) :
                            mi[2] <= Len(memfds[mi[1]].pages) /\ memfds[mi[1]].pages[mi[2]] = x})
          + Cardinality({p \in Procs : space[p].table = x})
        = 1

\* The references of an object are its open file and the regions that map it
\* (unix_memfd_retain, unix_memfd_release), whichever process goes first.
MemfdRefs ==
    \A m \in Memfds :
        memfds[m].refs =
          (IF holders[m] = {} THEN 0 ELSE 1)
            + Cardinality({pr \in Procs \X Slots :
                  pr[2] \in Views(pr[1]) /\ space[pr[1]].regions[pr[2]].memfd = m})

\* A process that maps a shared object sees the object's own pages, after every
\* descriptor of it is closed and its creator is gone: only a truncation below
\* the mapped range can part them.
SeesObject ==
    \A p \in Procs : \A r \in Views(p) :
        LET region == space[p].regions[r]
        IN  region.memfd \notin shrunk =>
              \A i \in 1 .. region.size :
                 /\ region.start + i <= Len(memfds[region.memfd].pages)
                 /\ space[p].pt[region.base + i - 1] = memfds[region.memfd].pages[region.start + i]

\* The regions of a process do not overlap, and of a region every address in the
\* area of mapped regions has its page, so that process_vm_unmap never stops
\* there halfway.  It may below: a fixed mapping over the heap or over a thread's
\* stack loses its pages to brk or to the thread's exit.
RegionsWhole ==
    \A p \in Procs : \A r \in Slots :
        LET span(q) == RegionSpan(space[p].regions[q])
        IN  space[p].regions[r].active =>
              /\ \A q \in Slots \ {r} :
                    space[p].regions[q].active => span(r) \cap span(q) = {}
              /\ \A va \in span(r) : va > Low => space[p].pt[va] # Absent

\* Every page a process has in its heap, thread stack and mapping areas is one
\* that some call gives back: it is below the break, in one of the regions, or
\* under a thread's stack, whatever failed on the way.
NothingStray ==
    \A p \in Procs : \A va \in Virt :
        space[p].pt[va] # Absent =>
            \/ va <= space[p].heap
            \/ va \in StackSpan /\ space[p].stack
            \/ \E r \in Slots : /\ space[p].regions[r].active
                               /\ va \in RegionSpan(space[p].regions[r])
=============================================================================
