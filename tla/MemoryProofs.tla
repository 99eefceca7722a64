---------------------------- MODULE MemoryProofs ----------------------------
(***************************************************************************)
(* Proofs about address spaces and shared memory objects, for every number *)
(* of processes, pages, objects and regions and every size of the areas.   *)
(*                                                                         *)
(* A call works on the free pages, the objects and one address space (a    *)
(* Call).  What the other processes hold is a set of pages that the call   *)
(* cannot touch, so each operation is shown to keep the invariant of one   *)
(* address space beside an arbitrary such set, and OneSpaceMoves carries   *)
(* that over to all processes.                                             *)
(***************************************************************************)
EXTENDS Memory, FiniteSetTheorems, SequenceTheorems, WellFoundedInduction, TLAPS

-----------------------------------------------------------------------------
(* Induction, by the least counterexample *)

(* Every nonempty set of natural numbers has a least element. *)
LEMMA LeastElement ==
    ASSUME NEW T, T \subseteq Nat, T # {}
    PROVE  \E n \in T : \A m \in T : n <= m
<1>1. PICK n \in T : \A m \in T : ~(<<m, n>> \in OpToRel(<, Nat))
      BY NatLessThanWellFounded, WFMin, Zenon
<1>2. \A m \in T : ~(m < n)
      BY <1>1 DEF OpToRel
<1> QED BY <1>2

(* What holds of a number when it holds of the smaller ones holds of all. *)
LEMMA Ranked ==
    ASSUME NEW N \in Nat, NEW I,
           \A j \in 0 .. N : (\A i \in 0 .. N : i < j => i \in I) => j \in I
    PROVE  \A j \in 0 .. N : j \in I
<1> DEFINE T == {j \in 0 .. N : j \notin I}
<1>1. SUFFICES ASSUME T # {} PROVE FALSE
      OBVIOUS
<1>2. T \subseteq Nat
      OBVIOUS
<1>3. PICK n \in T : \A m \in T : n <= m
   <2> HIDE DEF T
   <2> QED BY <1>1, <1>2, LeastElement
<1>4. ASSUME NEW i \in 0 .. N, i < n PROVE i \in I
   <2>1. SUFFICES ASSUME i \in T PROVE FALSE
         OBVIOUS
   <2>2. n <= i BY <2>1, <1>3
   <2>3. n \in Int /\ i \in Int OBVIOUS
   <2> HIDE DEF T
   <2> QED BY <2>2, <2>3, <1>4
<1>5. n \in 0 .. N /\ n \notin I
      OBVIOUS
<1> HIDE DEF T
<1> QED BY <1>4, <1>5

(* g obeys a recursion over 0 .. N, each step from the one before. *)
Loop(N, St, F, s, g) ==
    /\ g \in [0 .. N -> St]
    /\ g[0] = s
    /\ \A j \in 1 .. N : g[j] = F[<<j, g[j - 1]>>]

(* Every such recursion has a solution. *)
LEMMA LoopExists ==
    ASSUME NEW N \in Nat, NEW St, NEW s \in St, NEW F \in [(1 .. N) \X St -> St]
    PROVE  \E g : Loop(N, St, F, s, g)
<1> DEFINE T == {n \in 0 .. N : \E g : Loop(n, St, F, s, g)}
<1>1. ASSUME NEW n \in 0 .. N, \A i \in 0 .. N : i < n => i \in T
      PROVE  n \in T
   <2>1. CASE n = 0
      <3> DEFINE g == [k \in 0 .. 0 |-> s]
      <3>1. Loop(0, St, F, s, g) BY DEF Loop
      <3> HIDE DEF g
      <3> QED BY <3>1, <2>1
   <2>2. CASE n # 0
      <3> DEFINE p == n - 1
      <3>1. n \in 1 .. N /\ p \in 0 .. N /\ p < n /\ p \in Nat /\ p \in Int
            BY <2>2
      <3>2. p \in T BY <3>1, <1>1
      <3>3. PICK h : Loop(p, St, F, s, h) BY <3>2
      <3>4. p \in 0 .. p /\ \A j \in 1 .. p : j - 1 \in 0 .. p BY <3>1
      <3>5. /\ h \in [0 .. p -> St]
            /\ h[0] = s
            /\ \A j \in 1 .. p : h[j] = F[<<j, h[j - 1]>>]
            BY <3>3 DEF Loop
      <3> DEFINE g == [k \in 0 .. n |-> IF k = n THEN F[<<n, h[p]>>] ELSE h[k]]
      <3>6. \A k \in 0 .. n : k = n \/ k \in 0 .. p BY <3>1
      <3>7. F[<<n, h[p]>>] \in St BY <3>1, <3>4, <3>5
      <3>8. g \in [0 .. n -> St] BY <3>5, <3>6, <3>7
      <3>9. g[0] = s BY <3>5, <3>1
      <3>10. \A k \in 0 .. p : g[k] = h[k] BY <3>1
      <3>11. g[n] = F[<<n, h[p]>>] BY <3>1
      <3> HIDE DEF g
      <3>12. ASSUME NEW j \in 1 .. n PROVE g[j] = F[<<j, g[j - 1]>>]
         <4>1. CASE j = n
            <5>1. g[j - 1] = h[p] BY <4>1, <3>4, <3>10
            <5> QED BY <5>1, <4>1, <3>11
         <4>2. CASE j # n
            <5>1. j \in 1 .. p /\ j \in 0 .. p BY <4>2, <3>1
            <5> QED BY <5>1, <3>10, <3>4, <3>5
         <4> QED BY <4>1, <4>2
      <3>13. Loop(n, St, F, s, g)
             BY <3>8, <3>9, <3>12 DEF Loop
      <3> QED BY <3>13
   <2> QED BY <2>1, <2>2
<1>2. N \in T
   <2> HIDE DEF T
   <2>1. \A j \in 0 .. N : j \in T BY <1>1, Ranked
   <2> QED BY <2>1
<1> QED BY <1>2

LEMMA MinIsLeast ==
    ASSUME NEW T, T \subseteq Nat, T # {}
    PROVE  Min(T) \in T /\ \A y \in T : Min(T) <= y
<1>1. \E n \in T : \A m \in T : n <= m BY LeastElement
<1> QED BY <1>1 DEF Min

-----------------------------------------------------------------------------
(* Types *)

LEMMA Sizes ==
    /\ NProcs \in Nat \ {0} /\ NPages \in Nat \ {0} /\ NMemfds \in Nat \ {0}
    /\ MaxPages \in Nat \ {0} /\ MaxRegions \in Nat \ {0}
    /\ HeapSize \in Nat \ {0} /\ StackSize \in Nat \ {0} /\ VmSize \in Nat \ {0}
    /\ Low \in Nat \ {0} /\ HeapSize < Low
    /\ Allocators \subseteq Procs
<1>1. /\ NProcs \in Nat \ {0} /\ NPages \in Nat \ {0} /\ NMemfds \in Nat \ {0}
      /\ MaxPages \in Nat \ {0} /\ MaxRegions \in Nat \ {0}
      /\ HeapSize \in Nat \ {0} /\ StackSize \in Nat \ {0} /\ VmSize \in Nat \ {0}
      /\ Allocators \subseteq Procs
      BY MemoryAssumption DEF Procs
<1>2. Low \in Nat \ {0} /\ HeapSize < Low BY <1>1 DEF Low
<1> QED BY <1>1, <1>2

LEMMA PagesPositive == Absent \notin Pages /\ Pages \subseteq Nat /\ IsFiniteSet(Pages)
<1>1. Absent \notin Pages /\ Pages \subseteq Nat BY Sizes DEF Pages, Absent
<1>2. NPages \in Int /\ 1 \in Int BY Sizes
<1>3. IsFiniteSet(1 .. NPages) BY <1>2, FS_Interval
<1> QED BY <1>1, <1>3 DEF Pages

Space == [pt      : [Virt -> Pages \cup {Absent}],
          table   : Pages \cup {Absent},
          regions : [Slots -> Regions],
          next    : Low + 1 .. Low + VmSize + 1,
          heap    : 0 .. HeapSize,
          stack   : BOOLEAN]

Object == [refs : Nat, pages : Seq(Pages)]

(* What a call works on. *)
Call == [free : SUBSET Pages, memfds : [Memfds -> Object], as : Space]

LEMMA SpaceFields ==
    ASSUME NEW as \in Space
    PROVE  /\ as.pt \in [Virt -> Pages \cup {Absent}]
           /\ as.table \in Pages \cup {Absent}
           /\ as.regions \in [Slots -> Regions]
           /\ as.next \in Low + 1 .. Low + VmSize + 1
           /\ as.heap \in 0 .. HeapSize /\ as.stack \in BOOLEAN
BY DEF Space

LEMMA CallFields ==
    ASSUME NEW s \in Call
    PROVE  /\ s.free \subseteq Pages /\ s.free \subseteq Nat
           /\ IsFiniteSet(s.free) /\ Cardinality(s.free) \in Nat
           /\ s.memfds \in [Memfds -> Object]
           /\ s.as \in Space
<1>1. s.free \in SUBSET Pages /\ s.memfds \in [Memfds -> Object] /\ s.as \in Space
      BY DEF Call
<1>2. IsFiniteSet(s.free) BY <1>1, PagesPositive, FS_Subset
<1>3. Cardinality(s.free) \in Nat BY <1>2, FS_CardinalityType
<1> QED BY <1>1, <1>2, <1>3, PagesPositive

LEMMA ObjectFields ==
    ASSUME NEW mf \in [Memfds -> Object], NEW m \in Memfds
    PROVE  /\ mf[m] \in Object /\ mf[m].refs \in Nat /\ mf[m].pages \in Seq(Pages)
           /\ Len(mf[m].pages) \in Nat
           /\ \A i \in 1 .. Len(mf[m].pages) : mf[m].pages[i] \in Pages
<1>1. mf[m] \in Object OBVIOUS
<1>2. mf[m].refs \in Nat /\ mf[m].pages \in Seq(Pages) BY <1>1 DEF Object
<1> QED BY <1>1, <1>2

LEMMA RegionFields ==
    ASSUME NEW g \in Regions
    PROVE  /\ g.active \in BOOLEAN
           /\ g.base \in Virt \cup {0} /\ g.base \in Nat
           /\ g.size \in Virt \cup {0} /\ g.size \in Nat
           /\ g.memfd \in Memfds \cup {0}
           /\ g.start \in 0 .. MaxPages /\ g.start \in Nat
<1>1. /\ g.active \in BOOLEAN /\ g.base \in Virt \cup {0}
      /\ g.size \in Virt \cup {0}
      /\ g.memfd \in Memfds \cup {0} /\ g.start \in 0 .. MaxPages
      BY DEF Regions
<1>2. g.base \in Nat BY <1>1, Sizes DEF Virt
<1>3. g.size \in Nat /\ g.start \in Nat BY <1>1, Sizes DEF Virt
<1> QED BY <1>1, <1>2, <1>3

-----------------------------------------------------------------------------
(* Who holds the pages *)

(* The pages of an address space, the addresses of V left out: these show   *)
(* pages of shared objects.                                                 *)
Held(as, V) ==
    {x \in Pages : \/ \E va \in Virt \ V : as.pt[va] = x
                   \/ as.table = x}

(* It holds no page twice. *)
Separate(as, V) ==
    /\ \A va, vb \in Virt \ V : as.pt[va] # Absent /\ as.pt[va] = as.pt[vb] => va = vb
    /\ \A va \in Virt \ V : as.pt[va] # Absent => as.pt[va] # as.table

InObject(o, x) == \E i \in 1 .. Len(o.pages) : o.pages[i] = x

ObjectPages(mf) == {x \in Pages : \E m \in Memfds : InObject(mf[m], x)}

(* No page is in two objects, or twice in one. *)
Distinct(mf) ==
    /\ \A m, n \in Memfds, x \in Pages : InObject(mf[m], x) /\ InObject(mf[n], x) => m = n
    /\ \A m \in Memfds : \A i, j \in 1 .. Len(mf[m].pages) :
          mf[m].pages[i] = mf[m].pages[j] => i = j

(* Every page is in exactly one of four sets. *)
Parts(F, H, M, O) ==
    /\ F \cup H \cup M \cup O = Pages
    /\ F \cap H = {} /\ F \cap M = {} /\ F \cap O = {}
    /\ H \cap M = {} /\ H \cap O = {} /\ M \cap O = {}

(* Every page is free, held by this address space, in an object, or one of  *)
(* the pages O of others.                                                   *)
Accounted(s, V, O) ==
    /\ Separate(s.as, V)
    /\ Distinct(s.memfds)
    /\ Parts(s.free, Held(s.as, V), ObjectPages(s.memfds), O)

LEMMA HeldMembers ==
    ASSUME NEW as \in Space, NEW V
    PROVE  /\ \A va \in Virt \ V : as.pt[va] # Absent => as.pt[va] \in Held(as, V)
           /\ as.table # Absent => as.table \in Held(as, V)
BY SpaceFields DEF Held

(* Addresses without a page may count as shared or not. *)
LEMMA HeldElsewhere ==
    ASSUME NEW as \in Space, NEW V, NEW W,
           \A va \in Virt : va \in V /\ va \notin W => as.pt[va] = Absent,
           \A va \in Virt : va \in W /\ va \notin V => as.pt[va] = Absent
    PROVE  /\ Held(as, V) = Held(as, W)
           /\ Separate(as, V) => Separate(as, W)
BY PagesPositive DEF Held, Separate

LEMMA AccountedElsewhere ==
    ASSUME NEW s \in Call, NEW V, NEW W, NEW O, Accounted(s, V, O),
           \A va \in Virt : va \in V /\ va \notin W => s.as.pt[va] = Absent,
           \A va \in Virt : va \in W /\ va \notin V => s.as.pt[va] = Absent
    PROVE  Accounted(s, W, O)
<1>1. s.as \in Space BY CallFields
<1>2. Held(s.as, V) = Held(s.as, W) /\ Separate(s.as, W)
      BY <1>1, HeldElsewhere DEF Accounted
<1> QED BY <1>2 DEF Accounted

-----------------------------------------------------------------------------
(* Unmapping *)

(* The page table becomes empty, and what Unmapped gives back. *)
Empties(as, vas) ==
    as.table # Absent /\ \A va \in Virt : va \notin vas => as.pt[va] = Absent

GivenBack(as, vas, frees) ==
    {x \in Pages : \/ Empties(as, vas) /\ as.table = x
                   \/ frees /\ \E va \in vas : as.pt[va] = x}

(* What Unmapped does, D being the pages it gives back. *)
Unmaps(s, U, vas, D) ==
    /\ U \in Call
    /\ U.memfds = s.memfds
    /\ U.free = s.free \cup D
    /\ \A va \in Virt : U.as.pt[va] = IF va \in vas THEN Absent ELSE s.as.pt[va]
    /\ U.as.table = IF Empties(s.as, vas) THEN Absent ELSE s.as.table
    /\ U.as.regions = s.as.regions
    /\ U.as.next = s.as.next /\ U.as.heap = s.as.heap /\ U.as.stack = s.as.stack

LEMMA UnmappedEffect ==
    ASSUME NEW s \in Call, NEW vas, vas \subseteq Virt, NEW frees \in BOOLEAN
    PROVE  Unmaps(s, Unmapped(s, vas, frees), vas, GivenBack(s.as, vas, frees))
<1> DEFINE U == Unmapped(s, vas, frees)
           as == s.as
           pt == [va \in Virt |-> IF va \in vas THEN Absent ELSE as.pt[va]]
           empty == as.table # Absent /\ \A va \in Virt : pt[va] = Absent
           table == IF empty THEN Absent ELSE as.table
           fr == s.free \cup (IF empty THEN {as.table} ELSE {})
                   \cup (IF frees THEN {as.pt[va] : va \in Present(as, vas)} ELSE {})
<1>1. as \in Space /\ s.free \subseteq Pages /\ s.memfds \in [Memfds -> Object]
      BY CallFields
<1>2. U = [s EXCEPT !.free = fr, !.as.pt = pt, !.as.table = table]
      BY Zenon DEF Unmapped
<1>3. empty <=> Empties(as, vas) BY DEF Empties
<1>4. /\ pt \in [Virt -> Pages \cup {Absent}]
      /\ table \in Pages \cup {Absent}
      BY <1>1, SpaceFields
<1>5. (IF empty THEN {as.table} ELSE {}) = {x \in Pages : Empties(as, vas) /\ as.table = x}
      BY <1>1, <1>3, SpaceFields DEF Empties
<1>6. {as.pt[va] : va \in Present(as, vas)} = {x \in Pages : \E va \in vas : as.pt[va] = x}
      BY <1>1, SpaceFields, PagesPositive DEF Present
<1>7. fr = s.free \cup GivenBack(as, vas, frees) BY <1>5, <1>6 DEF GivenBack
<1>8. GivenBack(as, vas, frees) \subseteq Pages BY DEF GivenBack
<1>9. \A va \in Virt : pt[va] = IF va \in vas THEN Absent ELSE as.pt[va] OBVIOUS
<1>10. table = IF Empties(as, vas) THEN Absent ELSE as.table
       BY <1>3
<1> HIDE DEF pt, table, fr, empty
<1>11. U.as = [as EXCEPT !.pt = pt, !.table = table]
       BY <1>1, <1>2 DEF Call, Space
<1>12. U.free = fr /\ U.memfds = s.memfds BY <1>2 DEF Call
<1>13. /\ U.as.pt = pt /\ U.as.table = table /\ U.as.stack = as.stack
       /\ U.as.regions = as.regions /\ U.as.next = as.next /\ U.as.heap = as.heap
       BY <1>1, <1>11 DEF Space
<1>14. U.as \in Space BY <1>1, <1>4, <1>11 DEF Space
<1>15. U = [s EXCEPT !.free = fr, !.as = U.as]
       BY <1>2, <1>11 DEF Call
<1>16. U \in Call BY <1>1, <1>7, <1>8, <1>14, <1>15 DEF Call
<1>17. Unmaps(s, U, vas, GivenBack(as, vas, frees))
       BY <1>7, <1>9, <1>10, <1>13, <1>16, <1>12 DEF Unmaps
<1> QED BY <1>17, Zenon

(* Unmapping keeps every page accounted for: pages of the space itself are  *)
(* given back, pages of shared objects are only taken out of sight.         *)
LEMMA UnmappedAccounted ==
    ASSUME NEW s \in Call, NEW vas, vas \subseteq Virt, NEW frees \in BOOLEAN,
           NEW V, NEW O, Accounted(s, V, O),
           frees => vas \cap V = {}, ~frees => vas \subseteq V
    PROVE  Accounted(Unmapped(s, vas, frees), V, O)
<1> DEFINE U == Unmapped(s, vas, frees)
           D == GivenBack(s.as, vas, frees)
<1>1. /\ U \in Call /\ U.memfds = s.memfds /\ U.free = s.free \cup D
      /\ \A va \in Virt : U.as.pt[va] = IF va \in vas THEN Absent ELSE s.as.pt[va]
      /\ U.as.table = IF Empties(s.as, vas) THEN Absent ELSE s.as.table
   <2>1. Unmaps(s, U, vas, GivenBack(s.as, vas, frees)) BY UnmappedEffect, Zenon
   <2> HIDE DEF U
   <2> QED BY <2>1 DEF Unmaps
<1> HIDE DEF U
<1>2. Empties(s.as, vas) => s.as.table # Absent BY DEF Empties
<1>3. Separate(s.as, V) BY DEF Accounted
<1>4. Separate(U.as, V) BY <1>1, <1>3 DEF Separate
<1>5. s.as \in Space BY CallFields
<1>6. D \subseteq Held(s.as, V) BY <1>2 DEF GivenBack, Held
<1>7. Held(U.as, V) = Held(s.as, V) \ D
   <2>1. ASSUME NEW x \in Held(U.as, V) PROVE x \in Held(s.as, V) /\ x \notin D
      <3>1. x \in Pages /\ x # Absent BY PagesPositive DEF Held
      <3>2. CASE \E va \in Virt \ V : U.as.pt[va] = x
         <4>1. PICK va \in Virt \ V : U.as.pt[va] = x BY <3>2
         <4>2. va \notin vas /\ s.as.pt[va] = x BY <4>1, <3>1, <1>1
         <4>3. x \notin D BY <4>2, <3>1, <1>2, <1>3 DEF GivenBack, Separate
         <4> QED BY <4>2, <4>3, <3>1 DEF Held
      <3>3. CASE U.as.table = x
         <4>2. ~Empties(s.as, vas) /\ s.as.table = x BY <3>3, <3>1, <1>1
         <4>3. x \notin D BY <4>2, <3>1, <1>2, <1>3 DEF GivenBack, Separate
         <4> QED BY <4>2, <4>3, <3>1 DEF Held
      <3> QED BY <3>2, <3>3 DEF Held
   <2>2. ASSUME NEW x \in Held(s.as, V), x \notin D PROVE x \in Held(U.as, V)
      <3>1. x \in Pages BY DEF Held
      <3>2. CASE \E va \in Virt \ V : s.as.pt[va] = x
         <4>1. PICK va \in Virt \ V : s.as.pt[va] = x BY <3>2
         <4>2. va \notin vas BY <4>1, <3>1, <2>2 DEF GivenBack
         <4> QED BY <4>1, <4>2, <3>1, <1>1 DEF Held
      <3>3. CASE s.as.table = x
         <4>1. ~Empties(s.as, vas) BY <3>3, <3>1, <2>2 DEF GivenBack
         <4> QED BY <3>3, <4>1, <3>1, <1>1 DEF Held
      <3> QED BY <3>2, <3>3 DEF Held
   <2> QED BY <2>1, <2>2
<1>8. Parts(U.free, Held(U.as, V), ObjectPages(U.memfds), O)
   <2>1. Parts(s.free, Held(s.as, V), ObjectPages(s.memfds), O) BY DEF Accounted
   <2> HIDE DEF D
   <2> QED BY <2>1, <1>1, <1>6, <1>7 DEF Parts
<1>9. Accounted(U, V, O) BY <1>1, <1>4, <1>8 DEF Accounted
<1> QED BY <1>9 DEF U

-----------------------------------------------------------------------------
(* Mapping *)

LEMMA SpanMembers ==
    ASSUME NEW b \in Nat, NEW n \in Nat
    PROVE  \A va : va \in Span(b, n) <=> va \in Int /\ b <= va /\ va < b + n
BY DEF Span

(* A range of user addresses. *)
Within(base, n) ==
    /\ base \in Virt /\ n \in Nat \ {0}
    /\ Span(base, n) \subseteq Virt

(* What Mapped does, table being the page table it uses. *)
Maps(s, M, base, pages, table) ==
    /\ M \in Call
    /\ M.memfds = s.memfds
    /\ M.free = s.free \ {table}
    /\ \A va \in Virt : M.as.pt[va] = IF va \in Span(base, Len(pages))
                                       THEN pages[va - base + 1] ELSE s.as.pt[va]
    /\ M.as.table = table
    /\ \/ s.as.table = table
       \/ s.as.table = Absent /\ table \in s.free
    /\ M.as.regions = s.as.regions
    /\ M.as.next = s.as.next /\ M.as.heap = s.as.heap /\ M.as.stack = s.as.stack

LEMMA MappedEffect ==
    ASSUME NEW s \in Call, NEW base \in Virt, NEW pages \in Seq(Pages),
           s.as.table = Absent => s.free # {}
    PROVE  \E table \in Pages : Maps(s, Mapped(s, base, pages), base, pages, table)
<1> DEFINE M == Mapped(s, base, pages)
           n == Len(pages)
           as == s.as
           table == IF as.table # Absent THEN as.table ELSE Min(s.free)
           pt == [va \in Virt |-> IF va \in Span(base, n) THEN pages[va - base + 1] ELSE as.pt[va]]
<1>1. as \in Space /\ s.free \subseteq Pages /\ s.free \subseteq Nat BY CallFields
<1>3. /\ table \in Pages
      /\ as.table = table \/ (as.table = Absent /\ table \in s.free)
   <2>1. CASE as.table # Absent BY <2>1, <1>1, SpaceFields
   <2>2. CASE as.table = Absent
      <3>1. Min(s.free) \in s.free BY <1>1, <2>2, MinIsLeast
      <3> QED BY <3>1, <2>2, <1>1
   <2> QED BY <2>1, <2>2
<1>4. pt \in [Virt -> Pages \cup {Absent}]
   <2>1. ASSUME NEW va \in Virt, va \in Span(base, n) PROVE pages[va - base + 1] \in Pages
      <3>1. va \in Int /\ base \in Int /\ n \in Nat BY Sizes DEF Virt
      <3>2. va - base + 1 \in 1 .. n BY <2>1, <3>1 DEF Span
      <3> QED BY <3>2
   <2> QED BY <2>1, <1>1, SpaceFields
<1>7. \A va \in Virt : pt[va] = IF va \in Span(base, n) THEN pages[va - base + 1] ELSE as.pt[va]
      OBVIOUS
<1>8. M = [s EXCEPT !.free = s.free \ {table}, !.as.table = table, !.as.pt = pt]
      BY Zenon DEF Mapped
<1> HIDE DEF M, pt, table
<1>9. M.as = [as EXCEPT !.table = table, !.pt = pt]
      BY <1>1, <1>8 DEF Call, Space
<1>10. M.free = s.free \ {table} /\ M.memfds = s.memfds BY <1>8 DEF Call
<1>11. M.as \in Space BY <1>1, <1>3, <1>4, <1>9 DEF Space
<1>12. /\ M.as.pt = pt /\ M.as.table = table /\ M.as.stack = as.stack
       /\ M.as.regions = as.regions /\ M.as.next = as.next /\ M.as.heap = as.heap
       BY <1>1, <1>9 DEF Space
<1>13. M = [s EXCEPT !.free = s.free \ {table}, !.as = M.as]
       BY <1>1, <1>8, <1>9 DEF Call
<1>14. M \in Call
   <2>1. s.free \ {table} \in SUBSET Pages BY <1>1
   <2> QED BY <2>1, <1>11, <1>13 DEF Call
<1>15. Maps(s, M, base, pages, table)
       BY <1>3, <1>7, <1>10, <1>12, <1>14 DEF Maps
<1> QED BY <1>3, <1>15 DEF M

PagesOf(pages) == {x \in Pages : \E i \in 1 .. Len(pages) : pages[i] = x}
Unique(pages) == \A i, j \in 1 .. Len(pages) : pages[i] = pages[j] => i = j
Vacant(as, vas) == \A va \in vas : as.pt[va] = Absent

(* Pages that belonged to nobody else become pages of the space. *)
LEMMA MapsAccounted ==
    ASSUME NEW s \in Call, NEW M, NEW base, NEW pages \in Seq(Pages), NEW table \in Pages,
           Within(base, Len(pages)), Maps(s, M, base, pages, table),
           NEW V, NEW O,
           PagesOf(pages) \cap O = {}, Accounted(s, V, O \cup PagesOf(pages)),
           Unique(pages), Vacant(s.as, Span(base, Len(pages))),
           Span(base, Len(pages)) \cap V = {}
    PROVE  Accounted(M, V, O)
<1> DEFINE n == Len(pages)
           span == Span(base, n)
           P == PagesOf(pages)
<1> USE DEF PagesOf, Unique, Vacant
<1>1. base \in Int /\ n \in Nat /\ base \in Nat BY Sizes DEF Within, Virt
<1>2. \A va \in span : va \in Virt /\ va \in Int /\ va - base + 1 \in 1 .. n
      BY <1>1 DEF Within, Span
<1>3. \A i \in 1 .. n : base + i - 1 \in span /\ (base + i - 1) - base + 1 = i
      BY <1>1 DEF Span
<1>4. /\ M.memfds = s.memfds /\ M.free = s.free \ {table}
      /\ \A va \in span : M.as.pt[va] = pages[va - base + 1]
      /\ \A va \in Virt : va \notin span => M.as.pt[va] = s.as.pt[va]
      /\ M.as.table = table
      /\ \/ s.as.table = table
         \/ s.as.table = Absent /\ table \in s.free
      BY <1>2 DEF Maps
<1>5. \A i \in 1 .. n : pages[i] \in P OBVIOUS
<1>6. \A va \in span : M.as.pt[va] \in P BY <1>2, <1>4, <1>5
<1>7. \A va, vb \in span : M.as.pt[va] = M.as.pt[vb] => va = vb
   <2> TAKE va, vb \in span
   <2> HAVE M.as.pt[va] = M.as.pt[vb]
   <2> DEFINE i == va - base + 1
              j == vb - base + 1
   <2>1. i \in 1 .. n /\ j \in 1 .. n BY <1>2
   <2>2. pages[i] = pages[j] BY <1>4
   <2>3. i = j
      <3> HIDE DEF i, j
      <3> QED BY <2>1, <2>2
   <2> QED BY <2>3, <1>1, <1>2
<1>8. \A x \in P : \E va \in span : M.as.pt[va] = x
   <2> TAKE x \in P
   <2>1. PICK i \in 1 .. n : pages[i] = x OBVIOUS
   <2> DEFINE va == base + i - 1
   <2>2. va \in span /\ va - base + 1 = i BY <1>3
   <2>3. M.as.pt[va] = x BY <2>1, <2>2, <1>4
   <2> QED BY <2>2, <2>3
<1> HIDE DEF span
<1>9. /\ Separate(s.as, V) /\ Distinct(s.memfds)
      /\ Parts(s.free, Held(s.as, V), ObjectPages(s.memfds), O \cup P)
      BY DEF Accounted
<1>10. s.as \in Space /\ s.free \subseteq Pages BY CallFields
<1>11. \A va \in Virt \ V : s.as.pt[va] # Absent => s.as.pt[va] \in Held(s.as, V)
       BY <1>10, HeldMembers
<1>12. s.as.table # Absent => s.as.table \in Held(s.as, V)
       BY <1>10, HeldMembers
<1>13. table \in s.free \/ table \in Held(s.as, V)
       BY <1>4, <1>12, PagesPositive
<1>14. table \notin P BY <1>9, <1>13 DEF Parts
<1>15. P \cap Held(s.as, V) = {} BY <1>9 DEF Parts
<1>16. Absent \notin P BY PagesPositive
<1>17. span \subseteq Virt BY <1>2
<1>18. span \cap V = {} BY DEF span
<1>19. \A va \in span : s.as.pt[va] = Absent BY DEF span
<1>20. \A va \in Virt \ V : M.as.pt[va] # Absent /\ va \notin span =>
          M.as.pt[va] \in Held(s.as, V) /\ M.as.pt[va] = s.as.pt[va]
       BY <1>4, <1>11
<1>21. \A va \in Virt \ V : s.as.pt[va] = table => s.as.table # Absent
   <2> TAKE va \in Virt \ V
   <2>1. table # Absent BY PagesPositive
   <2> SUFFICES ASSUME s.as.pt[va] = table, s.as.table = Absent PROVE FALSE
       OBVIOUS
   <2>2. table \in s.free BY <1>4, <2>1
   <2>3. table \in Held(s.as, V) BY <2>1, <1>11
   <2> QED BY <2>2, <2>3, <1>9 DEF Parts
<1>22. \A va \in Virt \ V : s.as.pt[va] # table
       BY <1>4, <1>9, <1>21, PagesPositive DEF Separate
<1>24. Separate(M.as, V)
   <2>1. ASSUME NEW va \in Virt \ V, NEW vb \in Virt \ V,
                M.as.pt[va] # Absent, M.as.pt[va] = M.as.pt[vb]
         PROVE  va = vb
      <3>1. CASE va \in span /\ vb \in span BY <3>1, <2>1, <1>7
      <3>2. CASE va \in span /\ vb \notin span BY <3>2, <2>1, <1>6, <1>15, <1>20
      <3>3. CASE va \notin span /\ vb \in span BY <3>3, <2>1, <1>6, <1>15, <1>20
      <3>4. CASE va \notin span /\ vb \notin span
            BY <3>4, <2>1, <1>4, <1>9 DEF Separate
      <3> QED BY <3>1, <3>2, <3>3, <3>4
   <2>2. ASSUME NEW va \in Virt \ V, M.as.pt[va] # Absent
         PROVE  M.as.pt[va] # M.as.table
      <3>1. CASE va \in span BY <3>1, <1>4, <1>6, <1>14
      <3>2. CASE va \notin span BY <3>2, <1>4, <1>22
      <3> QED BY <3>1, <3>2
   <2> QED BY <2>1, <2>2 DEF Separate
<1>25. Held(M.as, V) = Held(s.as, V) \cup P \cup {table}
   <2>1. ASSUME NEW x \in Held(M.as, V) PROVE x \in Held(s.as, V) \cup P \cup {table}
      <3>1. x \in Pages /\ x # Absent BY PagesPositive DEF Held
      <3>2. CASE \E va \in Virt \ V : M.as.pt[va] = x BY <3>1, <3>2, <1>6, <1>20
      <3>3. CASE M.as.table = x BY <3>3, <1>4
      <3> QED BY <3>2, <3>3 DEF Held
   <2>2. ASSUME NEW x \in Held(s.as, V) PROVE x \in Held(M.as, V)
      <3>1. x \in Pages /\ x # Absent BY PagesPositive DEF Held
      <3>2. CASE \E va \in Virt \ V : s.as.pt[va] = x
            BY <3>1, <3>2, <1>4, <1>19 DEF Held
      <3>3. CASE s.as.table = x BY <3>1, <3>3, <1>4 DEF Held
      <3> QED BY <3>2, <3>3 DEF Held
   <2>3. P \subseteq Held(M.as, V) BY <1>8, <1>17, <1>18 DEF Held
   <2>4. table \in Held(M.as, V) BY <1>4 DEF Held
   <2> QED BY <2>1, <2>2, <2>3, <2>4
<1>26. Parts(M.free, Held(M.as, V), ObjectPages(M.memfds), O)
       BY <1>4, <1>9, <1>13, <1>25 DEF Parts
<1> QED BY <1>4, <1>9, <1>24, <1>26 DEF Accounted

-----------------------------------------------------------------------------
(* The invariant of one address space *)

Live(as, r) == as.regions[r].active

(* The regions of an address space that show object m, and the addresses of *)
(* all regions that show an object.                                         *)
ViewsOf(as, m) == {r \in Slots : Live(as, r) /\ as.regions[r].memfd = m}
Seen(as) == {va \in Virt : \E r \in Slots : /\ Live(as, r)
                                            /\ as.regions[r].memfd # 0
                                            /\ va \in RegionSpan(as.regions[r])}

(* A region lies in the user addresses, shows an object only in the area of *)
(* mapped regions, and has all the pages it has addresses there.            *)
GoodRegion(as, r) ==
    /\ Within(as.regions[r].base, as.regions[r].size)
    /\ as.regions[r].memfd # 0 => \A va \in RegionSpan(as.regions[r]) : va > Low
    /\ \A va \in RegionSpan(as.regions[r]) : va > Low => as.pt[va] # Absent

Apart(as) ==
    \A r, q \in Slots : Live(as, r) /\ Live(as, q) /\ r # q =>
        RegionSpan(as.regions[r]) \cap RegionSpan(as.regions[q]) = {}

(* An address below the break or of a running thread's stack. *)
Reserved(as, va) == va <= as.heap \/ (va \in StackSpan /\ as.stack)

Covered(as) ==
    \A va \in Virt : as.pt[va] # Absent =>
        \/ Reserved(as, va)
        \/ \E r \in Slots : Live(as, r) /\ va \in RegionSpan(as.regions[r])

Shaped(as) ==
    /\ \A r \in Slots : Live(as, r) => GoodRegion(as, r)
    /\ Apart(as)
    /\ Covered(as)

(* The views of an address space show the pages of their objects, but of    *)
(* the objects in sh.                                                       *)
Sees(as, mf, sh) ==
    \A r \in Slots : LET g == as.regions[r] IN
        g.active /\ g.memfd # 0 /\ g.memfd \notin sh =>
            \A i \in 1 .. g.size : /\ g.start + i <= Len(mf[g.memfd].pages)
                                   /\ as.pt[g.base + i - 1] = mf[g.memfd].pages[g.start + i]

(* An object without references is empty; none is longer than it may be. *)
Objects(mf) ==
    \A m \in Memfds : /\ mf[m].refs = 0 => mf[m].pages = <<>>
                      /\ Len(mf[m].pages) <= MaxPages

(* The references of an object: K[m] of others, and the views of this space. *)
Counted(s, K) == \A m \in Memfds : s.memfds[m].refs = K[m] + Cardinality(ViewsOf(s.as, m))

(* The invariant of a call, beside the pages O and the references K of      *)
(* others and the objects sh that were cut short.                           *)
Consistent(s, O, K, sh) ==
    /\ s \in Call
    /\ Accounted(s, Seen(s.as), O)
    /\ Shaped(s.as)
    /\ Objects(s.memfds)
    /\ Counted(s, K)
    /\ Sees(s.as, s.memfds, sh)

-----------------------------------------------------------------------------
(* The inductive invariant *)

(* What the processes other than p hold in the spaces S: pages, and          *)
(* references to m beside those of the descriptors H.                       *)
PagesElsewhere(S, p) == UNION {Held(S[q], Seen(S[q])) : q \in Procs \ {p}}
ViewsElsewhere(S, p, m) == {pr \in (Procs \ {p}) \X Slots : pr[2] \in ViewsOf(S[pr[1]], m)}
RefsElsewhere(S, H, p) ==
    [m \in Memfds |-> (IF H[m] = {} THEN 0 ELSE 1) + Cardinality(ViewsElsewhere(S, p, m))]

(* The free pages F, the objects mf and the spaces S fit together. *)
System(F, mf, S, H, sh) ==
    /\ H \in [Memfds -> SUBSET Procs]
    /\ sh \subseteq Memfds
    /\ S \in [Procs -> Space]
    /\ \A p \in Procs : Consistent([free |-> F, memfds |-> mf, as |-> S[p]],
                                  PagesElsewhere(S, p), RefsElsewhere(S, H, p), sh)

IInv == System(free, memfds, space, holders, shrunk)

-----------------------------------------------------------------------------
(* Fresh pages *)

LEMMA SomeOfChosen ==
    ASSUME NEW S, IsFiniteSet(S), NEW n \in Nat, n <= Cardinality(S)
    PROVE  SomeOf(S, n) \in Injection(1 .. n, S)
<1>1. Cardinality(S) \in Nat /\ ExistsBijection(1 .. Cardinality(S), S)
      BY FS_CardinalityType
<1>2. PICK f : f \in Bijection(1 .. Cardinality(S), S)
      BY <1>1 DEF ExistsBijection
<1>3. f \in [1 .. Cardinality(S) -> S] /\ IsInjective(f)
      BY <1>2 DEF Bijection, Injection
<1> DEFINE g == [i \in 1 .. n |-> f[i]]
<1>4. \A i \in 1 .. n : i \in 1 .. Cardinality(S) BY <1>1
<1>5. g \in [1 .. n -> S] BY <1>3, <1>4
<1>6. \A i, j \in 1 .. n : g[i] = g[j] => i = j BY <1>3, <1>4 DEF IsInjective
<1> HIDE DEF g
<1>7. g \in Injection(1 .. n, S) BY <1>5, <1>6 DEF Injection, IsInjective
<1> QED BY <1>7 DEF SomeOf

(* The pages taken are distinct free ones, as many as wanted. *)
Fresh(pages, S, n, P) ==
    /\ pages \in Seq(S) /\ Len(pages) = n
    /\ \A i, j \in 1 .. n : pages[i] = pages[j] => i = j
    /\ P = {x \in S : \E i \in 1 .. n : pages[i] = x}
    /\ IsFiniteSet(P) /\ Cardinality(P) = n
    /\ Range(pages) = P

LEMMA SomeOfFresh ==
    ASSUME NEW S, IsFiniteSet(S), NEW n \in Nat, n <= Cardinality(S)
    PROVE  \E P \in SUBSET S : Fresh(SomeOf(S, n), S, n, P)
<1> DEFINE pages == SomeOf(S, n)
           P == {x \in S : \E i \in 1 .. n : pages[i] = x}
<1>1. pages \in Injection(1 .. n, S) BY SomeOfChosen
<1> HIDE DEF pages
<1>2. pages \in [1 .. n -> S] /\ \A i, j \in 1 .. n : pages[i] = pages[j] => i = j
      BY <1>1 DEF Injection, IsInjective
<1>3. pages \in Seq(S) /\ Len(pages) = n BY <1>2
<1>4. Range(pages) = P BY <1>2 DEF Range
<1>5. pages \in Surjection(1 .. n, P) BY <1>2 DEF Surjection
<1>6. pages \in Injection(1 .. n, P) BY <1>2 DEF Injection, IsInjective
<1> HIDE DEF P
<1>7. IsFiniteSet(1 .. n) /\ Cardinality(1 .. n) = n BY FS_Interval
<1>8. IsFiniteSet(P) /\ Cardinality(P) = n
   <2>1. pages \in Bijection(1 .. n, P) BY <1>5, <1>6 DEF Bijection
   <2>2. ExistsBijection(1 .. n, P) BY <2>1 DEF ExistsBijection
   <2> QED BY <2>2, <1>7, FS_Bijection
<1>9. P \in SUBSET S BY DEF P
<1>10. Fresh(pages, S, n, P) BY <1>2, <1>3, <1>4, <1>8 DEF Fresh, P
<1> QED BY <1>9, <1>10 DEF pages

(* What Filled does. *)
Fills(s, F, base, n) ==
    /\ F \in Call
    /\ F.memfds = s.memfds
    /\ \A va \in Virt : IF va \in Span(base, n) THEN F.as.pt[va] # Absent
                                                ELSE F.as.pt[va] = s.as.pt[va]
    /\ F.as.regions = s.as.regions
    /\ F.as.next = s.as.next /\ F.as.heap = s.as.heap /\ F.as.stack = s.as.stack

LEMMA FilledAccounted ==
    ASSUME NEW s \in Call, NEW base, NEW n, Within(base, n), CanFill(s, n),
           NEW V, NEW O, Accounted(s, V, O),
           Vacant(s.as, Span(base, n)),
           Span(base, n) \cap V = {}
    PROVE  /\ Fills(s, Filled(s, base, n), base, n)
           /\ Accounted(Filled(s, base, n), V, O)
<1> DEFINE pages == SomeOf(s.free, n)
           t == [s EXCEPT !.free = s.free \ Range(pages)]
           F == Mapped(t, base, pages)
<1>1. base \in Virt /\ n \in Nat /\ base \in Int BY Sizes DEF Within, Virt
<1>2. /\ s.free \subseteq Pages /\ IsFiniteSet(s.free) /\ Cardinality(s.free) \in Nat
      /\ s.as \in Space /\ s.memfds \in [Memfds -> Object]
      BY CallFields
<1>3. TableCost(s.as) = IF s.as.table = Absent THEN 1 ELSE 0
      BY DEF TableCost
<1>4. n + TableCost(s.as) <= Cardinality(s.free) BY <1>1, <1>2, <1>3 DEF CanFill
<1>5. n <= Cardinality(s.free) BY <1>1, <1>2, <1>3, <1>4
<1>6. PICK P \in SUBSET s.free : Fresh(pages, s.free, n, P)
      BY <1>1, <1>2, <1>5, SomeOfFresh
<1> HIDE DEF pages
<1>7. /\ pages \in Seq(Pages) /\ Len(pages) = n /\ Range(pages) = P
      /\ \A i, j \in 1 .. n : pages[i] = pages[j] => i = j
      /\ IsFiniteSet(P) /\ Cardinality(P) = n
   <2>1. pages \in Seq(s.free) /\ Len(pages) = n BY <1>6 DEF Fresh
   <2>2. pages \in [1 .. n -> s.free] BY <2>1
   <2>3. pages \in [1 .. n -> Pages] BY <2>2, <1>2
   <2>4. pages \in Seq(Pages) BY <2>3, <1>1
   <2> QED BY <2>1, <2>4, <1>6 DEF Fresh
<1>8. P = {x \in Pages : \E i \in 1 .. Len(pages) : pages[i] = x}
   <2>1. \A i \in 1 .. n : pages[i] \in P
      <3>1. \A i \in 1 .. n : pages[i] \in s.free BY <1>6 DEF Fresh
      <3> QED BY <3>1, <1>6 DEF Fresh
   <2>2. \A x \in P : \E i \in 1 .. n : pages[i] = x BY <1>6 DEF Fresh
   <2> QED BY <2>1, <2>2, <1>2, <1>7
<1>9. t.free = s.free \ P /\ t.memfds = s.memfds /\ t.as = s.as BY <1>7 DEF Call
<1>10. t \in Call BY <1>2, <1>7 DEF Call
<1> HIDE DEF t
<1>11. P \cap O = {}
   <2>1. Parts(s.free, Held(s.as, V), ObjectPages(s.memfds), O) BY DEF Accounted
   <2> QED BY <2>1 DEF Parts
<1>12. Accounted(t, V, O \cup P)
   <2>1. Parts(s.free, Held(s.as, V), ObjectPages(s.memfds), O) BY DEF Accounted
   <2>2. Parts(s.free \ P, Held(s.as, V), ObjectPages(s.memfds), O \cup P)
         BY <2>1 DEF Parts
   <2> QED BY <2>2, <1>9 DEF Accounted
<1>13. t.as.table = Absent => t.free # {}
   <2> SUFFICES ASSUME s.as.table = Absent PROVE s.free \ P # {}
       BY <1>9
   <2>1. n + 1 <= Cardinality(s.free) BY <1>3, <1>4
   <2>2. s.free # P BY <2>1, <1>1, <1>7
   <2> QED BY <2>2
<1>14. PICK table \in Pages : Maps(t, F, base, pages, table)
       BY <1>1, <1>7, <1>10, <1>13, MappedEffect
<1>15. Accounted(F, V, O)
   <2> HIDE DEF F
   <2>1. Within(base, Len(pages)) BY <1>7
   <2>2. Vacant(t.as, Span(base, Len(pages))) BY <1>7, <1>9
   <2>3. Span(base, Len(pages)) \cap V = {} BY <1>7
   <2>4. Unique(pages) BY <1>7 DEF Unique
   <2>5. pages \in Seq(Pages) BY <1>7
   <2>6. PagesOf(pages) = P BY <1>8 DEF PagesOf
   <2>7. PagesOf(pages) \cap O = {} /\ Accounted(t, V, O \cup PagesOf(pages))
         BY <2>6, <1>11, <1>12
   <2> QED BY <2>1, <2>2, <2>3, <2>4, <2>5, <2>7, <1>10, <1>14, MapsAccounted
<1>16. Fills(s, F, base, n)
   <2> HIDE DEF F
   <2>1. ASSUME NEW va \in Virt, va \in Span(base, n) PROVE F.as.pt[va] # Absent
      <3>1. va \in Int BY Sizes DEF Virt
      <3>2. va - base + 1 \in 1 .. n BY <2>1, <3>1, <1>1 DEF Span
      <3>3. pages[va - base + 1] \in Pages BY <3>2, <1>7
      <3>4. F.as.pt[va] = pages[va - base + 1] BY <2>1, <1>7, <1>14 DEF Maps
      <3> QED BY <3>3, <3>4, PagesPositive
   <2>2. ASSUME NEW va \in Virt, va \notin Span(base, n) PROVE F.as.pt[va] = s.as.pt[va]
         BY <2>2, <1>7, <1>9, <1>14 DEF Maps
   <2>3. /\ F \in Call /\ F.memfds = s.memfds /\ F.as.regions = s.as.regions
         /\ F.as.next = s.as.next /\ F.as.heap = s.as.heap /\ F.as.stack = s.as.stack
         BY <1>9, <1>14 DEF Maps
   <2> QED BY <2>1, <2>2, <2>3 DEF Fills
<1>17. Filled(s, base, n) = F BY DEF Filled, F, t, pages
<1> QED BY <1>15, <1>16, <1>17

(* The pages of an object shown at addresses of V stay the object's. *)
LEMMA MapsShared ==
    ASSUME NEW s \in Call, NEW M, NEW base, NEW pages \in Seq(Pages), NEW table \in Pages,
           Maps(s, M, base, pages, table), base \in Virt,
           NEW V, NEW O, Accounted(s, V, O), Span(base, Len(pages)) \subseteq V
    PROVE  Accounted(M, V, O)
<1>1. /\ M.memfds = s.memfds /\ M.free = s.free \ {table}
      /\ \A va \in Virt \ V : M.as.pt[va] = s.as.pt[va]
      /\ M.as.table = table
      /\ \/ s.as.table = table
         \/ s.as.table = Absent /\ table \in s.free
      BY DEF Maps
<1>2. /\ Separate(s.as, V) /\ Distinct(s.memfds)
      /\ Parts(s.free, Held(s.as, V), ObjectPages(s.memfds), O)
      BY DEF Accounted
<1>3. s.as \in Space /\ s.free \subseteq Pages BY CallFields
<1>4. CASE s.as.table = table
   <2>1. M.as.table = s.as.table BY <1>1, <1>4
   <2>2. Held(M.as, V) = Held(s.as, V) BY <2>1, <1>1 DEF Held
   <2>3. Separate(M.as, V) BY <2>1, <1>1, <1>2 DEF Separate
   <2>4. table \notin s.free
         BY <1>2, <1>3, <1>4, HeldMembers, PagesPositive DEF Parts
   <2>5. M.free = s.free BY <2>4, <1>1
   <2> QED BY <2>2, <2>3, <2>5, <1>1, <1>2 DEF Accounted
<1>5. CASE s.as.table = Absent /\ table \in s.free
   <2>1. table \notin Held(s.as, V) BY <1>2, <1>5 DEF Parts
   <2>2. \A va \in Virt \ V : s.as.pt[va] # table BY <2>1 DEF Held
   <2>3. s.as.table # table BY <2>1 DEF Held
   <2>4. Separate(M.as, V) BY <2>2, <2>3, <1>1, <1>2 DEF Separate
   <2>5. Held(M.as, V) = Held(s.as, V) \cup {table}
      <3>1. table \in Held(M.as, V) BY <1>1 DEF Held
      <3>2. ASSUME NEW x \in Held(M.as, V), x # table PROVE x \in Held(s.as, V)
            BY <3>2, <1>1 DEF Held
      <3>3. ASSUME NEW x \in Held(s.as, V) PROVE x \in Held(M.as, V)
            BY <1>1, <1>5, PagesPositive DEF Held
      <3> QED BY <3>1, <3>2, <3>3
   <2>6. Parts(M.free, Held(M.as, V), ObjectPages(M.memfds), O)
         BY <2>5, <1>1, <1>2, <1>5 DEF Parts
   <2> QED BY <2>4, <2>6, <1>1, <1>2 DEF Accounted
<1> QED BY <1>1, <1>4, <1>5

-----------------------------------------------------------------------------
(* How the regions of an address space change *)

(* Region g is recorded in slot r, with a page at each of its addresses. *)
Adds(as, new, r, g) ==
    /\ new.regions = [as.regions EXCEPT ![r] = g]
    /\ \A va \in Virt : IF va \in RegionSpan(g) THEN new.pt[va] # Absent
                                                ELSE new.pt[va] = as.pt[va]
    /\ new.heap = as.heap /\ new.stack = as.stack

(* Region r goes, and its pages with it. *)
Removes(as, new, r) ==
    /\ new.regions = [as.regions EXCEPT ![r] = NoRegion]
    /\ \A va \in Virt : new.pt[va] = IF va \in RegionSpan(as.regions[r]) THEN Absent
                                                                         ELSE as.pt[va]
    /\ new.heap = as.heap /\ new.stack = as.stack

(* The pages of the addresses vas come or go, the regions stay. *)
Alters(as, new, vas) ==
    /\ new.regions = as.regions
    /\ \A va \in Virt : va \notin vas => new.pt[va] = as.pt[va]

(* None of the addresses vas is one of a region in the mapping area. *)
Clear(as, vas) ==
    \A q \in Slots : Live(as, q) => \A va \in RegionSpan(as.regions[q]) : va \in vas => ~(va > Low)

(* A region that may be recorded beside those of as. *)
FitsIn(as, g) ==
    /\ g \in Regions /\ g.active
    /\ Within(g.base, g.size)
    /\ g.memfd # 0 => \A va \in RegionSpan(g) : va > Low
    /\ \A q \in Slots : Live(as, q) => RegionSpan(as.regions[q]) \cap RegionSpan(g) = {}

LEMMA RegionPlace ==
    ASSUME NEW h \in Regions, NEW i \in 1 .. h.size
    PROVE  h.base + i - 1 \in RegionSpan(h)
<1>1. h.base \in Nat /\ h.size \in Nat BY RegionFields
<1> DEFINE b == h.base
           n == h.size
<1> HIDE DEF b, n
<1>2. \A j \in 1 .. n : b + j - 1 \in b .. b + n - 1 BY <1>1 DEF b, n
<1> QED BY <1>2 DEF RegionSpan, Span, b, n

LEMMA AddsShaped ==
    ASSUME NEW as \in Space, NEW new \in Space, NEW r \in Slots, ~Live(as, r),
           NEW g, FitsIn(as, g), Adds(as, new, r, g), Shaped(as)
    PROVE  /\ Shaped(new)
           /\ Seen(new) = Seen(as) \cup (IF g.memfd = 0 THEN {} ELSE RegionSpan(g))
           /\ \A m \in Memfds : ViewsOf(new, m) =
                 ViewsOf(as, m) \cup (IF g.memfd = m THEN {r} ELSE {})
<1>1. as.regions \in [Slots -> Regions] BY SpaceFields
<1>2. /\ new.regions[r] = g
      /\ \A q \in Slots : q # r => new.regions[q] = as.regions[q]
      BY <1>1 DEF Adds
<1>3. /\ Live(new, r)
      /\ \A q \in Slots : q # r => (Live(new, q) <=> Live(as, q))
      BY <1>2 DEF Live, FitsIn
<1>4. \A va \in RegionSpan(g) : va \in Virt BY DEF FitsIn, Within, RegionSpan
<1>5. \A va \in Virt : IF va \in RegionSpan(g) THEN new.pt[va] # Absent
                                                ELSE new.pt[va] = as.pt[va]
      BY DEF Adds
<1>6. ASSUME NEW q \in Slots, Live(new, q) PROVE GoodRegion(new, q)
   <2>1. CASE q = r BY <2>1, <1>2, <1>4, <1>5 DEF GoodRegion, FitsIn
   <2>2. CASE q # r
      <3>1. Live(as, q) /\ new.regions[q] = as.regions[q] BY <2>2, <1>2, <1>3, <1>6
      <3>2. GoodRegion(as, q) BY <3>1 DEF Shaped
      <3>3. \A va \in RegionSpan(as.regions[q]) : va \in Virt
            BY <3>2 DEF GoodRegion, Within, RegionSpan
      <3>4. \A va \in RegionSpan(as.regions[q]) : new.pt[va] = as.pt[va]
            BY <3>1, <3>3, <1>5 DEF FitsIn
      <3> QED BY <3>1, <3>2, <3>4 DEF GoodRegion
   <2> QED BY <2>1, <2>2
<1>7. Apart(new)
   <2> SUFFICES ASSUME NEW x \in Slots, NEW y \in Slots, Live(new, x), Live(new, y), x # y
                PROVE  RegionSpan(new.regions[x]) \cap RegionSpan(new.regions[y]) = {}
       BY DEF Apart
   <2>1. CASE x = r BY <2>1, <1>2, <1>3 DEF FitsIn
   <2>2. CASE y = r BY <2>2, <1>2, <1>3 DEF FitsIn
   <2>3. CASE x # r /\ y # r BY <2>3, <1>2, <1>3 DEF Shaped, Apart
   <2> QED BY <2>1, <2>2, <2>3
<1>8. Covered(new)
   <2> SUFFICES ASSUME NEW va \in Virt, new.pt[va] # Absent
                PROVE  \/ Reserved(new, va)
                       \/ \E q \in Slots : Live(new, q) /\ va \in RegionSpan(new.regions[q])
       BY DEF Covered
   <2>1. CASE va \in RegionSpan(g) BY <2>1, <1>2, <1>3
   <2>2. CASE va \notin RegionSpan(g)
      <3>1. as.pt[va] # Absent BY <2>2, <1>5
      <3>2. \/ Reserved(as, va)
            \/ \E q \in Slots : Live(as, q) /\ va \in RegionSpan(as.regions[q])
            BY <3>1 DEF Shaped, Covered
      <3>3. Reserved(new, va) <=> Reserved(as, va) BY DEF Adds, Reserved
      <3> QED BY <3>2, <3>3, <1>2, <1>3
   <2> QED BY <2>1, <2>2
<1>9. Seen(new) = Seen(as) \cup (IF g.memfd = 0 THEN {} ELSE RegionSpan(g))
      BY <1>2, <1>3, <1>4 DEF Seen
<1>10. \A m \in Memfds : ViewsOf(new, m) = ViewsOf(as, m) \cup (IF g.memfd = m THEN {r} ELSE {})
      BY <1>2, <1>3 DEF ViewsOf
<1> QED BY <1>6, <1>7, <1>8, <1>9, <1>10 DEF Shaped

(* The other views are not touched. *)
LEMMA AddsSees ==
    ASSUME NEW as \in Space, NEW new \in Space, NEW r \in Slots, ~Live(as, r),
           NEW g, FitsIn(as, g), Adds(as, new, r, g), Shaped(as),
           NEW mf, NEW sh, Sees(as, mf, sh),
           g.memfd # 0 /\ g.memfd \notin sh =>
               \A i \in 1 .. g.size : /\ g.start + i <= Len(mf[g.memfd].pages)
                                      /\ new.pt[g.base + i - 1] = mf[g.memfd].pages[g.start + i]
    PROVE  Sees(new, mf, sh)
<1>1. as.regions \in [Slots -> Regions] BY SpaceFields
<1>2. /\ new.regions[r] = g
      /\ \A q \in Slots : q # r => new.regions[q] = as.regions[q]
      BY <1>1 DEF Adds
<1> SUFFICES ASSUME NEW q \in Slots, new.regions[q].active, new.regions[q].memfd # 0,
                    new.regions[q].memfd \notin sh,
                    NEW i \in 1 .. new.regions[q].size
             PROVE  /\ new.regions[q].start + i <= Len(mf[new.regions[q].memfd].pages)
                    /\ new.pt[new.regions[q].base + i - 1]
                         = mf[new.regions[q].memfd].pages[new.regions[q].start + i]
    BY DEF Sees
<1>3. CASE q = r BY <1>2, <1>3
<1>4. CASE q # r
   <2> DEFINE h == as.regions[q]
   <2>1. new.regions[q] = h BY <1>2, <1>4
   <2>2. Live(as, q) BY <2>1 DEF Live
   <2>3. h \in Regions BY <1>1
   <2>4. i \in 1 .. h.size BY <2>1
   <2>5. h.base + i - 1 \in RegionSpan(h) BY <2>3, <2>4, RegionPlace
   <2>6. RegionSpan(h) \subseteq Virt
         BY <2>2 DEF Shaped, GoodRegion, Within, RegionSpan
   <2>7. h.base + i - 1 \notin RegionSpan(g) BY <2>2, <2>5 DEF FitsIn
   <2>8. new.pt[h.base + i - 1] = as.pt[h.base + i - 1] BY <2>5, <2>6, <2>7 DEF Adds
   <2>9. /\ h.start + i <= Len(mf[h.memfd].pages)
         /\ as.pt[h.base + i - 1] = mf[h.memfd].pages[h.start + i]
         BY <2>1 DEF Sees
   <2> QED BY <2>1, <2>8, <2>9
<1> QED BY <1>3, <1>4

LEMMA RemovesShaped ==
    ASSUME NEW as \in Space, NEW new \in Space, NEW r \in Slots, Live(as, r),
           Removes(as, new, r), Shaped(as)
    PROVE  /\ Shaped(new)
           /\ Seen(new) = Seen(as) \ RegionSpan(as.regions[r])
           /\ \A m \in Memfds : ViewsOf(new, m) = ViewsOf(as, m) \ {r}
<1> DEFINE g == as.regions[r]
<1>1. as.regions \in [Slots -> Regions] BY SpaceFields
<1>2. /\ new.regions[r] = NoRegion
      /\ \A q \in Slots : q # r => new.regions[q] = as.regions[q]
      BY <1>1 DEF Removes
<1>3. /\ ~Live(new, r)
      /\ \A q \in Slots : q # r => (Live(new, q) <=> Live(as, q))
   <2>1. NoRegion.active = FALSE BY DEF NoRegion
   <2> QED BY <2>1, <1>2 DEF Live
<1>4. \A q \in Slots : Live(new, q) =>
          q # r /\ Live(as, q) /\ new.regions[q] = as.regions[q]
      BY <1>2, <1>3
<1>5. \A q \in Slots : Live(new, q) => RegionSpan(as.regions[q]) \cap RegionSpan(g) = {}
      BY <1>4 DEF Shaped, Apart
<1>6. ASSUME NEW q \in Slots, Live(new, q) PROVE GoodRegion(new, q)
   <2>1. Live(as, q) /\ new.regions[q] = as.regions[q] BY <1>4, <1>6
   <2>2. GoodRegion(as, q) BY <2>1 DEF Shaped
   <2>3. \A va \in RegionSpan(as.regions[q]) : va \in Virt
         BY <2>2 DEF GoodRegion, Within, RegionSpan
   <2>4. \A va \in RegionSpan(as.regions[q]) : new.pt[va] = as.pt[va]
         BY <2>3, <1>5, <1>6 DEF Removes
   <2> QED BY <2>1, <2>2, <2>4 DEF GoodRegion
<1>7. Apart(new) BY <1>4 DEF Shaped, Apart
<1>8. Covered(new)
   <2> SUFFICES ASSUME NEW va \in Virt, new.pt[va] # Absent
                PROVE  \/ Reserved(new, va)
                       \/ \E q \in Slots : Live(new, q) /\ va \in RegionSpan(new.regions[q])
       BY DEF Covered
   <2>1. va \notin RegionSpan(g) /\ as.pt[va] # Absent BY DEF Removes
   <2>2. \/ Reserved(as, va)
         \/ \E q \in Slots : Live(as, q) /\ va \in RegionSpan(as.regions[q])
         BY <2>1 DEF Shaped, Covered
   <2>3. Reserved(new, va) <=> Reserved(as, va) BY DEF Removes, Reserved
   <2> QED BY <2>1, <2>2, <2>3, <1>2, <1>3
<1>9. Seen(new) = Seen(as) \ RegionSpan(g)
   <2>1. ASSUME NEW va \in Seen(new) PROVE va \in Seen(as) /\ va \notin RegionSpan(g)
         BY <1>4, <1>5 DEF Seen
   <2>2. ASSUME NEW va \in Seen(as), va \notin RegionSpan(g) PROVE va \in Seen(new)
         BY <2>2, <1>2, <1>3 DEF Seen
   <2> QED BY <2>1, <2>2
<1>10. \A m \in Memfds : ViewsOf(new, m) = ViewsOf(as, m) \ {r}
      BY <1>2, <1>3 DEF ViewsOf
<1> QED BY <1>6, <1>7, <1>8, <1>9, <1>10 DEF Shaped

LEMMA RemovesSees ==
    ASSUME NEW as \in Space, NEW new \in Space, NEW r \in Slots, Live(as, r),
           Removes(as, new, r), Shaped(as), NEW mf, NEW sh, Sees(as, mf, sh)
    PROVE  Sees(new, mf, sh)
<1>1. as.regions \in [Slots -> Regions] BY SpaceFields
<1>2. /\ new.regions[r] = NoRegion
      /\ \A q \in Slots : q # r => new.regions[q] = as.regions[q]
      BY <1>1 DEF Removes
<1> SUFFICES ASSUME NEW q \in Slots, new.regions[q].active, new.regions[q].memfd # 0,
                    new.regions[q].memfd \notin sh,
                    NEW i \in 1 .. new.regions[q].size
             PROVE  /\ new.regions[q].start + i <= Len(mf[new.regions[q].memfd].pages)
                    /\ new.pt[new.regions[q].base + i - 1]
                         = mf[new.regions[q].memfd].pages[new.regions[q].start + i]
    BY DEF Sees
<1> DEFINE h == as.regions[q]
<1>3. q # r BY <1>2 DEF NoRegion
<1>4. new.regions[q] = h BY <1>2, <1>3
<1>5. Live(as, q) BY <1>4 DEF Live
<1>6. h \in Regions BY <1>1
<1>7. i \in 1 .. h.size BY <1>4
<1>8. h.base + i - 1 \in RegionSpan(h) BY <1>6, <1>7, RegionPlace
<1>9. RegionSpan(h) \subseteq Virt
      BY <1>5 DEF Shaped, GoodRegion, Within, RegionSpan
<1>10. h.base + i - 1 \notin RegionSpan(as.regions[r])
       BY <1>3, <1>5, <1>8 DEF Shaped, Apart
<1>11. new.pt[h.base + i - 1] = as.pt[h.base + i - 1] BY <1>8, <1>9, <1>10 DEF Removes
<1>12. /\ h.start + i <= Len(mf[h.memfd].pages)
       /\ as.pt[h.base + i - 1] = mf[h.memfd].pages[h.start + i]
       BY <1>4 DEF Sees
<1> QED BY <1>4, <1>11, <1>12

LEMMA AltersShaped ==
    ASSUME NEW as \in Space, NEW new \in Space, NEW vas, Alters(as, new, vas),
           Clear(as, vas),
           Shaped(as), Covered(new)
    PROVE  /\ Shaped(new)
           /\ Seen(new) = Seen(as)
           /\ \A m \in Memfds : ViewsOf(new, m) = ViewsOf(as, m)
<1>1. \A q \in Slots : new.regions[q] = as.regions[q] BY DEF Alters
<1>2. \A q \in Slots : Live(new, q) <=> Live(as, q) BY <1>1 DEF Live
<1>3. ASSUME NEW q \in Slots, Live(new, q) PROVE GoodRegion(new, q)
   <2>1. Live(as, q) BY <1>2, <1>3
   <2>2. GoodRegion(as, q) BY <2>1 DEF Shaped
   <2>3. \A va \in RegionSpan(as.regions[q]) : va \in Virt
         BY <2>2 DEF GoodRegion, Within, RegionSpan
   <2>4. \A va \in RegionSpan(as.regions[q]) : va > Low => new.pt[va] = as.pt[va]
         BY <2>1, <2>3 DEF Alters, Clear
   <2> QED BY <2>2, <2>4, <1>1 DEF GoodRegion
<1>4. Apart(new) BY <1>1, <1>2 DEF Shaped, Apart
<1>5. Seen(new) = Seen(as) BY <1>1, <1>2 DEF Seen
<1>6. \A m \in Memfds : ViewsOf(new, m) = ViewsOf(as, m) BY <1>1, <1>2 DEF ViewsOf
<1> QED BY <1>3, <1>4, <1>5, <1>6 DEF Shaped

LEMMA AltersSees ==
    ASSUME NEW as \in Space, NEW new \in Space, NEW vas, Alters(as, new, vas),
           Clear(as, vas),
           Shaped(as), NEW mf, NEW sh, Sees(as, mf, sh)
    PROVE  Sees(new, mf, sh)
<1>1. \A q \in Slots : new.regions[q] = as.regions[q] BY DEF Alters
<1> SUFFICES ASSUME NEW q \in Slots, new.regions[q].active, new.regions[q].memfd # 0,
                    new.regions[q].memfd \notin sh,
                    NEW i \in 1 .. new.regions[q].size
             PROVE  /\ new.regions[q].start + i <= Len(mf[new.regions[q].memfd].pages)
                    /\ new.pt[new.regions[q].base + i - 1]
                         = mf[new.regions[q].memfd].pages[new.regions[q].start + i]
    BY DEF Sees
<1> DEFINE h == as.regions[q]
<1>2. new.regions[q] = h BY <1>1
<1>3. Live(as, q) BY <1>2 DEF Live
<1>4. h \in Regions BY SpaceFields
<1>5. i \in 1 .. h.size BY <1>2
<1>6. h.base + i - 1 \in RegionSpan(h) BY <1>4, <1>5, RegionPlace
<1>7. GoodRegion(as, q) BY <1>3 DEF Shaped
<1>8. RegionSpan(h) \subseteq Virt BY <1>7 DEF GoodRegion, Within, RegionSpan
<1>9. h.base + i - 1 > Low BY <1>2, <1>6, <1>7 DEF GoodRegion
<1>10. new.pt[h.base + i - 1] = as.pt[h.base + i - 1]
       BY <1>3, <1>6, <1>8, <1>9 DEF Alters, Clear
<1>11. /\ h.start + i <= Len(mf[h.memfd].pages)
       /\ as.pt[h.base + i - 1] = mf[h.memfd].pages[h.start + i]
       BY <1>2 DEF Sees
<1> QED BY <1>2, <1>10, <1>11

(* A call that leaves the objects and the regions alone, and every page of  *)
(* a region in the mapping area.                                            *)
LEMMA AltersConsistent ==
    ASSUME NEW s, NEW O, NEW K, NEW sh, Consistent(s, O, K, sh),
           NEW t \in Call, NEW vas, Alters(s.as, t.as, vas), t.memfds = s.memfds,
           Clear(s.as, vas),
           Covered(t.as), Accounted(t, Seen(s.as), O)
    PROVE  Consistent(t, O, K, sh)
<1>1. /\ s \in Call /\ Shaped(s.as) /\ Objects(s.memfds) /\ Counted(s, K)
      /\ Sees(s.as, s.memfds, sh)
      BY DEF Consistent
<1>2. s.as \in Space /\ t.as \in Space BY <1>1, CallFields
<1>3. /\ Shaped(t.as) /\ Seen(t.as) = Seen(s.as)
      /\ \A m \in Memfds : ViewsOf(t.as, m) = ViewsOf(s.as, m)
      BY <1>1, <1>2, AltersShaped
<1>4. Sees(t.as, t.memfds, sh) BY <1>1, <1>2, AltersSees
<1>5. Counted(t, K) BY <1>1, <1>3 DEF Counted
<1>6. Objects(t.memfds) BY <1>1
<1>7. Accounted(t, Seen(t.as), O) BY <1>3
<1> QED BY <1>3, <1>4, <1>5, <1>6, <1>7 DEF Consistent

-----------------------------------------------------------------------------
(* Single fields *)

(* Accounted reads the page tables, the free pages and the objects. *)
LEMMA AccountedSame ==
    ASSUME NEW s, NEW t, NEW V, NEW O, Accounted(s, V, O),
           t.free = s.free, t.as.pt = s.as.pt, t.as.table = s.as.table,
           \A m \in Memfds : t.memfds[m].pages = s.memfds[m].pages
    PROVE  Accounted(t, V, O)
<1>1. Held(t.as, V) = Held(s.as, V) BY DEF Held
<1>2. \A m \in Memfds : \A x : InObject(t.memfds[m], x) <=> InObject(s.memfds[m], x)
      BY DEF InObject
<1>3. ObjectPages(t.memfds) = ObjectPages(s.memfds) BY <1>2 DEF ObjectPages
<1>4. Distinct(t.memfds) BY <1>2 DEF Accounted, Distinct
<1>5. Separate(t.as, V) BY DEF Accounted, Separate
<1> QED BY <1>1, <1>3, <1>4, <1>5 DEF Accounted

(* What stays when only the regions, the next base or the break move. *)
SamePages(s, t) ==
    /\ t \in Call /\ t.free = s.free /\ t.memfds = s.memfds
    /\ t.as.pt = s.as.pt /\ t.as.table = s.as.table

LEMMA HeapSet ==
    ASSUME NEW s \in Call, NEW n \in 0 .. HeapSize
    PROVE  LET t == [s EXCEPT !.as.heap = n]
           IN  /\ SamePages(s, t) /\ t.as.heap = n /\ t.as.stack = s.as.stack
               /\ t.as.regions = s.as.regions /\ t.as.next = s.as.next
<1> DEFINE t == [s EXCEPT !.as.heap = n]
<1>1. s.as \in Space BY CallFields
<1>2. t.as = [s.as EXCEPT !.heap = n] BY <1>1 DEF Call, Space
<1>3. t.free = s.free /\ t.memfds = s.memfds BY DEF Call
<1>4. t.as \in Space BY <1>1, <1>2 DEF Space
<1>5. t = [s EXCEPT !.as = t.as] BY <1>2 DEF Call
<1>6. /\ t.as.pt = s.as.pt /\ t.as.table = s.as.table /\ t.as.heap = n /\ t.as.stack = s.as.stack
      /\ t.as.regions = s.as.regions /\ t.as.next = s.as.next
      BY <1>1, <1>2 DEF Space
<1> HIDE DEF t
<1>7. t \in Call BY <1>4, <1>5 DEF Call
<1>8. SamePages(s, t) BY <1>3, <1>6, <1>7 DEF SamePages
<1> QED BY <1>6, <1>8 DEF t

LEMMA StackSet ==
    ASSUME NEW s \in Call, NEW b \in BOOLEAN
    PROVE  LET t == [s EXCEPT !.as.stack = b]
           IN  /\ SamePages(s, t) /\ t.as.stack = b /\ t.as.heap = s.as.heap
               /\ t.as.regions = s.as.regions /\ t.as.next = s.as.next
<1> DEFINE t == [s EXCEPT !.as.stack = b]
<1>1. s.as \in Space BY CallFields
<1>2. t.as = [s.as EXCEPT !.stack = b] BY <1>1 DEF Call, Space
<1>3. t.free = s.free /\ t.memfds = s.memfds BY DEF Call
<1>4. t.as \in Space BY <1>1, <1>2 DEF Space
<1>5. t = [s EXCEPT !.as = t.as] BY <1>2 DEF Call
<1>6. /\ t.as.pt = s.as.pt /\ t.as.table = s.as.table /\ t.as.stack = b /\ t.as.heap = s.as.heap
      /\ t.as.regions = s.as.regions /\ t.as.next = s.as.next
      BY <1>1, <1>2 DEF Space
<1> HIDE DEF t
<1>7. t \in Call BY <1>4, <1>5 DEF Call
<1>8. SamePages(s, t) BY <1>3, <1>6, <1>7 DEF SamePages
<1> QED BY <1>6, <1>8 DEF t

LEMMA NextSet ==
    ASSUME NEW s \in Call, NEW n \in Low + 1 .. Low + VmSize + 1
    PROVE  LET t == [s EXCEPT !.as.next = n]
           IN  /\ SamePages(s, t) /\ t.as.next = n
               /\ t.as.regions = s.as.regions /\ t.as.heap = s.as.heap /\ t.as.stack = s.as.stack
<1> DEFINE t == [s EXCEPT !.as.next = n]
<1>1. s.as \in Space BY CallFields
<1>2. t.as = [s.as EXCEPT !.next = n] BY <1>1 DEF Call, Space
<1>3. t.free = s.free /\ t.memfds = s.memfds BY DEF Call
<1>4. t.as \in Space BY <1>1, <1>2 DEF Space
<1>5. t = [s EXCEPT !.as = t.as] BY <1>2 DEF Call
<1>6. /\ t.as.pt = s.as.pt /\ t.as.table = s.as.table /\ t.as.next = n
      /\ t.as.regions = s.as.regions /\ t.as.heap = s.as.heap /\ t.as.stack = s.as.stack
      BY <1>1, <1>2 DEF Space
<1> HIDE DEF t
<1>7. t \in Call BY <1>4, <1>5 DEF Call
<1>8. SamePages(s, t) BY <1>3, <1>6, <1>7 DEF SamePages
<1> QED BY <1>6, <1>8 DEF t

LEMMA RegionSet ==
    ASSUME NEW s \in Call, NEW r \in Slots, NEW g \in Regions
    PROVE  LET t == [s EXCEPT !.as.regions[r] = g]
           IN  /\ SamePages(s, t) /\ t.as.regions = [s.as.regions EXCEPT ![r] = g]
               /\ t.as.heap = s.as.heap /\ t.as.stack = s.as.stack /\ t.as.next = s.as.next
<1> DEFINE t == [s EXCEPT !.as.regions[r] = g]
           gs == [s.as.regions EXCEPT ![r] = g]
<1>1. s.as \in Space BY CallFields
<1>2. gs \in [Slots -> Regions] BY <1>1, SpaceFields
<1>3. t.as = [s.as EXCEPT !.regions = gs] BY <1>1 DEF Call, Space
<1>4. t.free = s.free /\ t.memfds = s.memfds BY DEF Call
<1>5. t = [s EXCEPT !.as = t.as] BY <1>3 DEF Call
<1> HIDE DEF t, gs
<1>6. t.as \in Space BY <1>1, <1>2, <1>3 DEF Space
<1>7. /\ t.as.pt = s.as.pt /\ t.as.table = s.as.table /\ t.as.next = s.as.next
      /\ t.as.regions = gs /\ t.as.heap = s.as.heap /\ t.as.stack = s.as.stack
      BY <1>1, <1>3 DEF Space
<1>8. t \in Call BY <1>5, <1>6 DEF Call
<1>9. SamePages(s, t) BY <1>4, <1>7, <1>8 DEF SamePages
<1> QED BY <1>7, <1>9 DEF t, gs

-----------------------------------------------------------------------------
(* The heap *)

(* Views lie in the mapping area. *)
LEMMA SeenAbove ==
    ASSUME NEW as \in Space, Shaped(as), NEW vas, Clear(as, vas)
    PROVE  vas \cap Seen(as) = {}
<1> SUFFICES ASSUME NEW va \in vas, NEW r \in Slots, Live(as, r), as.regions[r].memfd # 0,
                    va \in RegionSpan(as.regions[r])
             PROVE  FALSE
    BY DEF Seen
<1>1. va > Low BY DEF Shaped, GoodRegion
<1> QED BY <1>1 DEF Clear

(* Addresses below the mapping area are clear of the regions in it. *)
LEMMA LowClear ==
    ASSUME NEW as, NEW vas, \A va \in vas : ~(va > Low)
    PROVE  Clear(as, vas)
BY DEF Clear

(* Fresh pages below the mapping area, at addresses then reserved. *)
LEMMA GrowConsistent ==
    ASSUME NEW s, NEW O, NEW K, NEW sh, Consistent(s, O, K, sh),
           NEW b, NEW k, Within(b, k),
           \A va \in Span(b, k) : ~(va > Low),
           Present(s.as, Span(b, k)) = {}, CanFill(s, k),
           NEW t, SamePages(Filled(s, b, k), t), t.as.regions = s.as.regions,
           \A va \in Virt : Reserved(s.as, va) \/ va \in Span(b, k) => Reserved(t.as, va)
    PROVE  Consistent(t, O, K, sh) /\ t.memfds = s.memfds
<1> DEFINE vas == Span(b, k)
           F == Filled(s, b, k)
<1>1. /\ s \in Call /\ Accounted(s, Seen(s.as), O) /\ Shaped(s.as)
      BY DEF Consistent
<1>2. s.as \in Space BY <1>1, CallFields
<1>3. Clear(s.as, vas) BY LowClear
<1>4. Vacant(s.as, vas) BY DEF Vacant, Present
<1>5. vas \cap Seen(s.as) = {} BY <1>1, <1>2, <1>3, SeenAbove
<1>6. Fills(s, F, b, k) /\ Accounted(F, Seen(s.as), O)
      BY <1>1, <1>4, <1>5, FilledAccounted
<1>7. SamePages(F, t) OBVIOUS
<1> HIDE DEF F
<1>8. Accounted(t, Seen(s.as), O) BY <1>6, <1>7, AccountedSame DEF SamePages
<1>9. /\ t.memfds = s.memfds /\ t \in Call
      /\ Alters(s.as, t.as, vas)
      BY <1>6, <1>7 DEF SamePages, Fills, Alters
<1>10. Covered(t.as)
   <2> SUFFICES ASSUME NEW va \in Virt, t.as.pt[va] # Absent
                PROVE  \/ Reserved(t.as, va)
                       \/ \E r \in Slots : Live(t.as, r) /\ va \in RegionSpan(t.as.regions[r])
       BY DEF Covered
   <2>1. CASE va \in vas BY <2>1
   <2>2. CASE va \notin vas
      <3>1. s.as.pt[va] # Absent BY <2>2, <1>9 DEF Alters
      <3>2. \/ Reserved(s.as, va)
            \/ \E r \in Slots : Live(s.as, r) /\ va \in RegionSpan(s.as.regions[r])
            BY <3>1, <1>1 DEF Shaped, Covered
      <3> QED BY <3>2 DEF Live
   <2> QED BY <2>1, <2>2
<1> QED BY <1>3, <1>8, <1>9, <1>10, AltersConsistent

LEMMA BrkGrows ==
    ASSUME NEW s, NEW O, NEW K, NEW sh, Consistent(s, O, K, sh),
           NEW n \in 0 .. HeapSize, n > s.as.heap,
           Present(s.as, Span(s.as.heap + 1, n - s.as.heap)) = {},
           CanFill(s, n - s.as.heap)
    PROVE  LET t == [Filled(s, s.as.heap + 1, n - s.as.heap) EXCEPT !.as.heap = n]
           IN  Consistent(t, O, K, sh) /\ t.memfds = s.memfds
<1> DEFINE b == s.as.heap + 1
           k == n - s.as.heap
           vas == Span(b, k)
           F == Filled(s, b, k)
           t == [F EXCEPT !.as.heap = n]
<1>1. /\ s \in Call /\ Accounted(s, Seen(s.as), O) /\ Shaped(s.as)
      BY DEF Consistent
<1>2. s.as \in Space BY <1>1, CallFields
<1>3. s.as.heap \in 0 .. HeapSize BY <1>2, SpaceFields
<1>4. /\ b \in Virt /\ k \in Nat \ {0}
      /\ \A va \in vas : va \in Virt /\ ~(va > Low) /\ va <= n
   <2> DEFINE h == s.as.heap
   <2>1. h \in Nat /\ n \in Nat /\ h < n /\ n <= HeapSize BY <1>3, Sizes
   <2>2. vas = h + 1 .. (h + 1) + (n - h) - 1 BY DEF Span
   <2> HIDE DEF h, vas
   <2>3. vas = h + 1 .. n BY <2>1, <2>2
   <2>4. \A va \in vas : va \in Virt /\ ~(va > Low) /\ va <= n
         BY <2>1, <2>3, Sizes DEF Virt
   <2>5. b = h + 1 /\ k = n - h BY DEF h
   <2>6. b \in Virt /\ k \in Nat \ {0} BY <2>1, <2>5, Sizes DEF Virt
   <2> QED BY <2>4, <2>6
<1>5. Present(s.as, vas) = {} /\ CanFill(s, k) OBVIOUS
<1> HIDE DEF b, k
<1>6. Within(b, k) BY <1>4 DEF Within
<1>7. vas \cap Seen(s.as) = {} BY <1>1, <1>2, <1>4, LowClear, SeenAbove
<1>8. Vacant(s.as, vas) BY <1>5 DEF Vacant, Present
<1>9. Fills(s, F, b, k) BY <1>1, <1>5, <1>6, <1>7, <1>8, FilledAccounted
<1> HIDE DEF F
<1>10. F \in Call BY <1>9 DEF Fills
<1>11. /\ SamePages(F, t) /\ t.as.heap = n /\ t.as.stack = F.as.stack
       /\ t.as.regions = F.as.regions
       BY <1>10, HeapSet
<1> HIDE DEF t
<1>12. t.as.stack = s.as.stack /\ t.as.regions = s.as.regions BY <1>9, <1>11 DEF Fills
<1>13. \A va \in Virt : Reserved(s.as, va) \/ va \in vas => Reserved(t.as, va)
   <2> SUFFICES ASSUME NEW va \in Virt, Reserved(s.as, va) \/ va \in vas
                PROVE  Reserved(t.as, va)
       OBVIOUS
   <2>1. va \in Int BY Sizes DEF Virt
   <2>2. va <= s.as.heap => va <= n BY <2>1, <1>3
   <2> QED BY <2>2, <1>4, <1>11, <1>12 DEF Reserved
<1>14. SamePages(Filled(s, b, k), t) BY <1>11 DEF F
<1> HIDE DEF vas
<1>15. Consistent(t, O, K, sh) /\ t.memfds = s.memfds
       BY <1>4, <1>5, <1>6, <1>12, <1>13, <1>14, GrowConsistent DEF vas
<1> QED BY <1>15 DEF t, F, b, k

(* Process_create_thread: the stack of a further thread. *)
LEMMA StackGrows ==
    ASSUME NEW s, NEW O, NEW K, NEW sh, Consistent(s, O, K, sh),
           Present(s.as, StackSpan) = {}, CanFill(s, StackSize)
    PROVE  LET t == [Filled(s, HeapSize + 1, StackSize) EXCEPT !.as.stack = TRUE]
           IN  Consistent(t, O, K, sh) /\ t.memfds = s.memfds
<1> DEFINE b == HeapSize + 1
           k == StackSize
           F == Filled(s, b, k)
           t == [F EXCEPT !.as.stack = TRUE]
<1>1. /\ s \in Call /\ Accounted(s, Seen(s.as), O) /\ Shaped(s.as)
      BY DEF Consistent
<1>2. s.as \in Space BY <1>1, CallFields
<1>3. /\ Span(b, k) = StackSpan
      /\ \A va \in StackSpan : va \in Virt /\ ~(va > Low)
      BY Sizes DEF Span, StackSpan, Low, Virt
<1>4. b \in Virt /\ k \in Nat \ {0} BY Sizes DEF Virt, Low
<1>5. Present(s.as, Span(b, k)) = {} /\ CanFill(s, k) BY <1>3
<1> HIDE DEF b, k
<1>6. Within(b, k) BY <1>3, <1>4 DEF Within
<1>7. Span(b, k) \cap Seen(s.as) = {} BY <1>1, <1>2, <1>3, LowClear, SeenAbove
<1>8. Vacant(s.as, Span(b, k)) BY <1>5 DEF Vacant, Present
<1>9. Fills(s, F, b, k) BY <1>1, <1>5, <1>6, <1>7, <1>8, FilledAccounted
<1> HIDE DEF F
<1>10. F \in Call BY <1>9 DEF Fills
<1>11. /\ SamePages(F, t) /\ t.as.stack = TRUE /\ t.as.heap = F.as.heap
       /\ t.as.regions = F.as.regions
       BY <1>10, StackSet
<1> HIDE DEF t
<1>12. t.as.heap = s.as.heap /\ t.as.regions = s.as.regions BY <1>9, <1>11 DEF Fills
<1>13. \A va \in Virt : Reserved(s.as, va) \/ va \in Span(b, k) => Reserved(t.as, va)
       BY <1>3, <1>11, <1>12 DEF Reserved
<1>14. SamePages(Filled(s, b, k), t) BY <1>11 DEF F
<1>15. Consistent(t, O, K, sh) /\ t.memfds = s.memfds
       BY <1>3, <1>5, <1>6, <1>12, <1>13, <1>14, GrowConsistent
<1> QED BY <1>15 DEF t, F, b, k

(* Pages outside the regions of the mapping area are given back, those that *)
(* are no longer reserved among them.                                       *)
LEMMA CutConsistent ==
    ASSUME NEW s, NEW O, NEW K, NEW sh, Consistent(s, O, K, sh),
           NEW vas, vas \subseteq Virt, Clear(s.as, vas),
           NEW t, SamePages(Unmapped(s, vas, TRUE), t), t.as.regions = s.as.regions,
           \A va \in Virt : Reserved(s.as, va) => Reserved(t.as, va) \/ va \in vas
    PROVE  Consistent(t, O, K, sh)
<1> DEFINE U == Unmapped(s, vas, TRUE)
<1>1. /\ s \in Call /\ Accounted(s, Seen(s.as), O) /\ Shaped(s.as)
      BY DEF Consistent
<1>2. s.as \in Space BY <1>1, CallFields
<1>3. vas \cap Seen(s.as) = {} BY <1>1, <1>2, SeenAbove
<1>4. Accounted(U, Seen(s.as), O) BY <1>1, <1>3, UnmappedAccounted, Zenon
<1>5. Unmaps(s, U, vas, GivenBack(s.as, vas, TRUE)) BY <1>1, UnmappedEffect, Zenon
<1>6. SamePages(U, t) OBVIOUS
<1> HIDE DEF U
<1>7. /\ t \in Call /\ t.memfds = s.memfds
      /\ \A va \in Virt : t.as.pt[va] = IF va \in vas THEN Absent ELSE s.as.pt[va]
      BY <1>5, <1>6 DEF SamePages, Unmaps
<1>8. Alters(s.as, t.as, vas) BY <1>7 DEF Alters
<1>9. Accounted(t, Seen(s.as), O) BY <1>4, <1>6, AccountedSame DEF SamePages
<1>10. Covered(t.as)
   <2> SUFFICES ASSUME NEW va \in Virt, t.as.pt[va] # Absent
                PROVE  \/ Reserved(t.as, va)
                       \/ \E r \in Slots : Live(t.as, r) /\ va \in RegionSpan(t.as.regions[r])
       BY DEF Covered
   <2>1. va \notin vas /\ s.as.pt[va] # Absent BY <1>7
   <2>2. \/ Reserved(s.as, va)
         \/ \E r \in Slots : Live(s.as, r) /\ va \in RegionSpan(s.as.regions[r])
         BY <2>1, <1>1 DEF Shaped, Covered
   <2> QED BY <2>1, <2>2 DEF Live
<1> QED BY <1>7, <1>8, <1>9, <1>10, AltersConsistent

LEMMA BrkShrinks ==
    ASSUME NEW s, NEW O, NEW K, NEW sh, Consistent(s, O, K, sh),
           NEW n \in 0 .. HeapSize, n < s.as.heap
    PROVE  LET t == [Unmapped(s, n + 1 .. s.as.heap, TRUE) EXCEPT !.as.heap = n]
           IN  Consistent(t, O, K, sh) /\ t.memfds = s.memfds
<1> DEFINE vas == n + 1 .. s.as.heap
           U == Unmapped(s, vas, TRUE)
           t == [U EXCEPT !.as.heap = n]
<1>1. s \in Call BY DEF Consistent
<1>2. s.as \in Space BY <1>1, CallFields
<1>3. s.as.heap \in 0 .. HeapSize BY <1>2, SpaceFields
<1>4. /\ \A va \in vas : va \in Virt /\ ~(va > Low)
      /\ \A va \in Virt : va <= s.as.heap => va <= n \/ va \in vas
   <2> DEFINE h == s.as.heap
   <2>1. h \in Nat /\ h <= HeapSize /\ vas = n + 1 .. h BY <1>3, Sizes
   <2> HIDE DEF h, vas
   <2>2. /\ \A va \in vas : va \in Virt /\ ~(va > Low)
         /\ \A va \in Virt : va <= h => va <= n \/ va \in vas
         BY <2>1, Sizes DEF Virt
   <2> QED BY <2>2 DEF h
<1> HIDE DEF vas
<1>5. vas \subseteq Virt BY <1>4
<1>6. Unmaps(s, U, vas, GivenBack(s.as, vas, TRUE)) BY <1>1, <1>5, UnmappedEffect, Zenon
<1>7. /\ SamePages(U, t) /\ t.as.heap = n /\ t.as.regions = s.as.regions
      /\ t.memfds = s.memfds /\ t.as.stack = s.as.stack
   <2> HIDE DEF U
   <2>1. /\ U \in Call /\ U.as.regions = s.as.regions /\ U.memfds = s.memfds
         /\ U.as.stack = s.as.stack
         BY <1>6 DEF Unmaps
   <2>2. /\ SamePages(U, t) /\ t.as.heap = n /\ t.as.regions = U.as.regions
         /\ t.as.stack = U.as.stack
         BY <2>1, HeapSet
   <2> HIDE DEF t
   <2> QED BY <2>1, <2>2 DEF SamePages
<1>8. Clear(s.as, vas) BY <1>4, LowClear
<1> HIDE DEF t
<1>9. Consistent(t, O, K, sh)
   <2>1. SamePages(Unmapped(s, vas, TRUE), t) BY <1>7 DEF U
   <2>2. \A va \in Virt : Reserved(s.as, va) => Reserved(t.as, va) \/ va \in vas
         BY <1>4, <1>7 DEF Reserved
   <2> QED BY <2>1, <2>2, <1>5, <1>7, <1>8, CutConsistent
<1> QED BY <1>7, <1>9 DEF t, U, vas

(* Process_exit_current_thread: whatever lies where the stack was goes. *)
LEMMA StackShrinks ==
    ASSUME NEW s, NEW O, NEW K, NEW sh, Consistent(s, O, K, sh)
    PROVE  LET t == [Unmapped(s, StackSpan, TRUE) EXCEPT !.as.stack = FALSE]
           IN  Consistent(t, O, K, sh) /\ t.memfds = s.memfds
<1> DEFINE U == Unmapped(s, StackSpan, TRUE)
           t == [U EXCEPT !.as.stack = FALSE]
<1>1. s \in Call BY DEF Consistent
<1>2. \A va \in StackSpan : va \in Virt /\ ~(va > Low)
      BY Sizes DEF StackSpan, Low, Virt
<1>3. StackSpan \subseteq Virt /\ Clear(s.as, StackSpan) BY <1>2, LowClear
<1>4. Unmaps(s, U, StackSpan, GivenBack(s.as, StackSpan, TRUE))
      BY <1>1, <1>3, UnmappedEffect, Zenon
<1>5. /\ SamePages(U, t) /\ t.as.heap = s.as.heap /\ t.as.regions = s.as.regions
      /\ t.memfds = s.memfds
   <2> HIDE DEF U
   <2>1. /\ U \in Call /\ U.as.regions = s.as.regions /\ U.memfds = s.memfds
         /\ U.as.heap = s.as.heap
         BY <1>4 DEF Unmaps
   <2>2. SamePages(U, t) /\ t.as.heap = U.as.heap /\ t.as.regions = U.as.regions
         BY <2>1, StackSet
   <2> HIDE DEF t
   <2> QED BY <2>1, <2>2 DEF SamePages
<1> HIDE DEF t
<1>6. \A va \in Virt : Reserved(s.as, va) => Reserved(t.as, va) \/ va \in StackSpan
      BY <1>5 DEF Reserved
<1>7. SamePages(Unmapped(s, StackSpan, TRUE), t) BY <1>5 DEF U
<1>8. Consistent(t, O, K, sh) BY <1>3, <1>5, <1>6, <1>7, CutConsistent
<1> QED BY <1>5, <1>8 DEF t, U

-----------------------------------------------------------------------------
(* Anonymous regions *)

LEMMA SlotFound ==
    ASSUME NEW as, FreeSlots(as) # {}
    PROVE  Min(FreeSlots(as)) \in Slots /\ ~Live(as, Min(FreeSlots(as)))
<1>1. FreeSlots(as) \subseteq Nat
   <2>1. Slots \subseteq Nat BY Sizes DEF Slots
   <2> QED BY <2>1 DEF FreeSlots
<1>2. Min(FreeSlots(as)) \in FreeSlots(as) BY <1>1, MinIsLeast
<1> QED BY <1>2 DEF FreeSlots, Live

(* The address found is in the mapping area, vacant and clear of every      *)
(* region.                                                                  *)
LEMMA BaseFound ==
    ASSUME NEW as \in Space, NEW n \in Nat \ {0}, Bases(as, n) # {}, Shaped(as)
    PROVE  LET b == Min(Bases(as, n))
           IN  /\ b \in Virt /\ Within(b, n) /\ n \in Virt
               /\ \A va \in Span(b, n) : va > Low
               /\ b + n \in Low + 1 .. Low + VmSize + 1
               /\ Vacant(as, Span(b, n))
               /\ \A q \in Slots : Live(as, q) =>
                     RegionSpan(as.regions[q]) \cap Span(b, n) = {}
<1> DEFINE b == Min(Bases(as, n))
<1> DEFINE x == as.next
<1>1. x \in Nat /\ x >= Low + 1
   <2>1. x \in Low + 1 .. Low + VmSize + 1 BY SpaceFields
   <2> HIDE DEF x
   <2> QED BY <2>1, Sizes
<1>2. Bases(as, n) \subseteq Nat
   <2> HIDE DEF x
   <2>1. \A y \in x .. Low + VmSize - n + 1 : y \in Nat BY <1>1, Sizes
   <2> QED BY <2>1 DEF Bases, x
<1>3. b \in Bases(as, n) BY <1>2, MinIsLeast
<1>4. b \in x .. Low + VmSize - n + 1 /\ Present(as, Span(b, n)) = {}
      BY <1>3 DEF Bases
<1> HIDE DEF b, x
<1>5. b \in Nat /\ b >= Low + 1 /\ b + n <= Low + VmSize + 1
      BY <1>1, <1>4, Sizes
<1>6. \A va \in Span(b, n) : va \in Int /\ b <= va /\ va < b + n BY <1>5, SpanMembers
<1>7. \A va \in Span(b, n) : va \in Virt /\ va > Low
      BY <1>5, <1>6, Sizes DEF Virt
<1>8. b \in Virt /\ n \in Virt BY <1>5, Sizes DEF Virt
<1>9. Within(b, n) BY <1>7, <1>8 DEF Within
<1>10. b + n \in Low + 1 .. Low + VmSize + 1 BY <1>5, Sizes
<1>11. Vacant(as, Span(b, n)) BY <1>4 DEF Present, Vacant
<1>12. ASSUME NEW q \in Slots, Live(as, q), NEW va \in Span(b, n),
              va \in RegionSpan(as.regions[q])
       PROVE  FALSE
   <2>1. GoodRegion(as, q) BY <1>12 DEF Shaped
   <2>2. as.pt[va] # Absent BY <2>1, <1>7, <1>12 DEF GoodRegion
   <2> QED BY <2>2, <1>11 DEF Vacant
<1> QED BY <1>7, <1>8, <1>9, <1>10, <1>11, <1>12 DEF b

LEMMA NoObjectZero == 0 \notin Memfds
BY Sizes DEF Memfds

Anon(base, n) == [active |-> TRUE, base |-> base, size |-> n, memfd |-> 0, start |-> 0]

(* An anonymous region with its own fresh pages. *)
LEMMA AddConsistent ==
    ASSUME NEW s, NEW O, NEW K, NEW sh, Consistent(s, O, K, sh),
           NEW r \in Slots, ~Live(s.as, r), NEW base, NEW n, FitsIn(s.as, Anon(base, n)),
           NEW t \in Call, t.memfds = s.memfds, Adds(s.as, t.as, r, Anon(base, n)),
           Accounted(t, Seen(s.as), O)
    PROVE  Consistent(t, O, K, sh)
<1> DEFINE g == Anon(base, n)
<1>1. /\ s \in Call /\ Shaped(s.as) /\ Objects(s.memfds) /\ Counted(s, K)
      /\ Sees(s.as, s.memfds, sh)
      BY DEF Consistent
<1>2. s.as \in Space /\ t.as \in Space BY <1>1, CallFields
<1>3. g.memfd = 0 BY DEF Anon
<1> HIDE DEF g
<1>4. FitsIn(s.as, g) /\ Adds(s.as, t.as, r, g) BY DEF g
<1>5. /\ Shaped(t.as)
      /\ Seen(t.as) = Seen(s.as) \cup (IF g.memfd = 0 THEN {} ELSE RegionSpan(g))
      /\ \A m \in Memfds : ViewsOf(t.as, m) =
            ViewsOf(s.as, m) \cup (IF g.memfd = m THEN {r} ELSE {})
      BY <1>1, <1>2, <1>4, AddsShaped
<1>6. Seen(t.as) = Seen(s.as) BY <1>3, <1>5
<1>7. \A m \in Memfds : ViewsOf(t.as, m) = ViewsOf(s.as, m) BY <1>3, <1>5, NoObjectZero
<1>8. Sees(t.as, t.memfds, sh) BY <1>1, <1>2, <1>3, <1>4, AddsSees
<1>9. Counted(t, K) BY <1>1, <1>7 DEF Counted
<1> QED BY <1>1, <1>5, <1>6, <1>8, <1>9 DEF Consistent

LEMMA AnonType ==
    ASSUME NEW base \in Virt, NEW n \in Virt
    PROVE  /\ Anon(base, n) \in Regions /\ Anon(base, n).active
           /\ Anon(base, n).base = base /\ Anon(base, n).size = n /\ Anon(base, n).memfd = 0
           /\ RegionSpan(Anon(base, n)) = Span(base, n)
<1>1. 0 \in 0 .. MaxPages BY Sizes
<1> QED BY <1>1 DEF Anon, Regions, RegionSpan

(* A range with fresh pages becomes a region. *)
LEMMA FilledAdds ==
    ASSUME NEW s \in Call, NEW F, NEW t, NEW r \in Slots, NEW base \in Virt,
           NEW n \in Virt,
           Fills(s, F, base, n), SamePages(F, t),
           t.as.regions = [F.as.regions EXCEPT ![r] = Anon(base, n)],
           t.as.heap = F.as.heap /\ t.as.stack = F.as.stack
    PROVE  Adds(s.as, t.as, r, Anon(base, n))
<1>1. RegionSpan(Anon(base, n)) = Span(base, n) BY AnonType
<1>2. \A va \in Virt : IF va \in Span(base, n) THEN t.as.pt[va] # Absent
                                                ELSE t.as.pt[va] = s.as.pt[va]
      BY DEF Fills, SamePages
<1>3. t.as.regions = [s.as.regions EXCEPT ![r] = Anon(base, n)] /\ t.as.heap = s.as.heap /\ t.as.stack = s.as.stack
      BY DEF Fills
<1> QED BY <1>1, <1>2, <1>3 DEF Adds

LEMMA VmMapsConsistent ==
    ASSUME NEW s, NEW O, NEW K, NEW sh, Consistent(s, O, K, sh),
           NEW n \in Nat \ {0}, CanVmMap(s, n)
    PROVE  LET t == VmMapped(s, n)
           IN  /\ Consistent(t, O, K, sh)
               /\ t.memfds = s.memfds
               /\ \A q \in Slots : Live(s.as, q) => t.as.regions[q] = s.as.regions[q]
               /\ t.as.next \in Low + 1 .. Low + VmSize + 1
<1> DEFINE b == Min(Bases(s.as, n))
           r == Min(FreeSlots(s.as))
           F == Filled(s, b, n)
           R == [F EXCEPT !.as.regions[r] = Anon(b, n)]
           t == [R EXCEPT !.as.next = b + n]
<1>1. /\ s \in Call /\ Accounted(s, Seen(s.as), O) /\ Shaped(s.as)
      BY DEF Consistent
<1>2. s.as \in Space BY <1>1, CallFields
<1>3. FreeSlots(s.as) # {} /\ Bases(s.as, n) # {} /\ CanFill(s, n)
      BY DEF CanVmMap
<1>4. r \in Slots /\ ~Live(s.as, r) BY <1>3, SlotFound
<1>5. /\ b \in Virt /\ Within(b, n) /\ n \in Virt
      /\ \A va \in Span(b, n) : va > Low
      /\ b + n \in Low + 1 .. Low + VmSize + 1
      /\ Vacant(s.as, Span(b, n))
      /\ \A q \in Slots : Live(s.as, q) => RegionSpan(s.as.regions[q]) \cap Span(b, n) = {}
      BY <1>1, <1>2, <1>3, BaseFound
<1> HIDE DEF b, r
<1>6. Span(b, n) \cap Seen(s.as) = {} BY <1>5 DEF Seen
<1>7. Fills(s, F, b, n) /\ Accounted(F, Seen(s.as), O)
      BY <1>1, <1>3, <1>5, <1>6, FilledAccounted
<1>8. n \in Virt BY <1>5
<1>9. Anon(b, n) \in Regions /\ RegionSpan(Anon(b, n)) = Span(b, n)
      BY <1>5, <1>8, AnonType
<1>10. FitsIn(s.as, Anon(b, n)) BY <1>5, <1>8, <1>9, AnonType DEF FitsIn
<1>11. F \in Call BY <1>7 DEF Fills
<1> HIDE DEF F
<1>12. /\ SamePages(F, R) /\ R.as.regions = [F.as.regions EXCEPT ![r] = Anon(b, n)]
       /\ R.as.heap = F.as.heap /\ R.as.stack = F.as.stack
       BY <1>4, <1>9, <1>11, RegionSet
<1>13. R \in Call BY <1>12 DEF SamePages
<1> HIDE DEF R
<1>14. SamePages(R, t) /\ t.as.regions = R.as.regions /\ t.as.heap = R.as.heap /\ t.as.stack = R.as.stack
       BY <1>5, <1>13, NextSet
<1> HIDE DEF t
<1>15. /\ SamePages(F, t) /\ t.as.regions = [F.as.regions EXCEPT ![r] = Anon(b, n)]
       /\ t.as.heap = F.as.heap /\ t.as.stack = F.as.stack
       BY <1>12, <1>14 DEF SamePages
<1>16. Adds(s.as, t.as, r, Anon(b, n))
       BY <1>1, <1>4, <1>5, <1>7, <1>8, <1>15, FilledAdds
<1>17. Accounted(t, Seen(s.as), O) BY <1>7, <1>15, AccountedSame DEF SamePages
<1>18. t \in Call /\ t.memfds = s.memfds BY <1>7, <1>15 DEF SamePages, Fills
<1>19. Consistent(t, O, K, sh) BY <1>4, <1>10, <1>16, <1>17, <1>18, AddConsistent
<1>20. VmMapped(s, n) = t BY Zenon DEF VmMapped, Recorded, t, R, F, b, r, Anon
<1>21. \A q \in Slots : Live(s.as, q) => t.as.regions[q] = s.as.regions[q]
   <2>1. s.as.regions \in [Slots -> Regions] BY <1>2, SpaceFields
   <2> QED BY <2>1, <1>4, <1>16 DEF Adds
<1>22. t.as.next \in Low + 1 .. Low + VmSize + 1
       BY <1>18, CallFields, SpaceFields
<1> QED BY <1>18, <1>19, <1>20, <1>21, <1>22

-----------------------------------------------------------------------------
(* Releasing an object *)

(* What MemfdReleased does. *)
Releases(s, t, m) ==
    /\ t \in Call /\ t.as = s.as
    /\ \A k \in Memfds : k # m => t.memfds[k] = s.memfds[k]
    /\ IF s.memfds[m].refs > 1
         THEN /\ t.memfds[m].refs = s.memfds[m].refs - 1
              /\ t.memfds[m].pages = s.memfds[m].pages
              /\ t.free = s.free
         ELSE /\ t.memfds[m].refs = 0
              /\ t.memfds[m].pages = <<>>
              /\ t.free = s.free \cup PagesOf(s.memfds[m].pages)

LEMMA RangeIsPagesOf ==
    ASSUME NEW pages \in Seq(Pages)
    PROVE  Range(pages) = PagesOf(pages)
<1>1. DOMAIN pages = 1 .. Len(pages) OBVIOUS
<1>2. \A i \in 1 .. Len(pages) : pages[i] \in Pages OBVIOUS
<1> QED BY <1>1, <1>2 DEF Range, PagesOf

LEMMA ReleasedEffect ==
    ASSUME NEW s \in Call, NEW m \in Memfds
    PROVE  Releases(s, MemfdReleased(s, m), m)
<1>1. /\ s.free \subseteq Pages /\ s.memfds \in [Memfds -> Object] /\ s.as \in Space
      BY CallFields
<1>2. /\ s.memfds[m].refs \in Nat /\ s.memfds[m].pages \in Seq(Pages)
      /\ s.memfds[m] \in Object
      BY <1>1, ObjectFields
<1>3. Range(s.memfds[m].pages) = PagesOf(s.memfds[m].pages) BY <1>2, RangeIsPagesOf
<1>4. PagesOf(s.memfds[m].pages) \subseteq Pages BY DEF PagesOf
<1>5. CASE s.memfds[m].refs > 1
   <2> DEFINE t == [s EXCEPT !.memfds[m].refs = s.memfds[m].refs - 1]
              o == [s.memfds[m] EXCEPT !.refs = s.memfds[m].refs - 1]
              mf == [s.memfds EXCEPT ![m] = o]
   <2>1. s.memfds[m].refs - 1 \in Nat BY <1>2, <1>5
   <2>2. o \in Object BY <2>1, <1>2 DEF Object
   <2>3. o.refs = s.memfds[m].refs - 1 /\ o.pages = s.memfds[m].pages BY <1>2 DEF Object
   <2>4. t = [s EXCEPT !.memfds = mf] BY <1>1 DEF Call
   <2> HIDE DEF o
   <2>5. mf \in [Memfds -> Object] BY <2>2, <1>1
   <2>6. mf[m] = o /\ \A k \in Memfds : k # m => mf[k] = s.memfds[k] BY <1>1
   <2> HIDE DEF mf, t
   <2>7. t \in Call /\ t.as = s.as /\ t.free = s.free /\ t.memfds = mf
         BY <2>4, <2>5 DEF Call
   <2>8. Releases(s, t, m) BY <2>3, <2>6, <2>7, <1>5 DEF Releases
   <2>9. MemfdReleased(s, m) = t BY <1>5, Zenon DEF MemfdReleased, t
   <2> QED BY <2>8, <2>9
<1>6. CASE ~(s.memfds[m].refs > 1)
   <2> DEFINE fr == s.free \cup PagesOf(s.memfds[m].pages)
              o == [refs |-> 0, pages |-> <<>>]
              mf == [s.memfds EXCEPT ![m] = o]
              t == [s EXCEPT !.free = fr, !.memfds[m] = o]
   <2>1. o \in Object /\ o.refs = 0 /\ o.pages = <<>> BY DEF Object
   <2>2. t = [s EXCEPT !.free = fr, !.memfds = mf] BY <1>1 DEF Call
   <2>3. MemfdReleased(s, m) = t
         BY <1>3, <1>6, Zenon DEF MemfdReleased
   <2> HIDE DEF o
   <2>4. mf \in [Memfds -> Object] BY <2>1, <1>1
   <2>5. mf[m] = o /\ \A k \in Memfds : k # m => mf[k] = s.memfds[k] BY <1>1
   <2>6. fr \in SUBSET Pages BY <1>1, <1>4
   <2> HIDE DEF mf, t
   <2>7. t \in Call /\ t.as = s.as /\ t.free = fr /\ t.memfds = mf
         BY <2>2, <2>4, <2>6 DEF Call
   <2>8. Releases(s, t, m) BY <2>1, <2>5, <2>7, <1>6 DEF Releases
   <2> QED BY <2>3, <2>8
<1> QED BY <1>5, <1>6

LEMMA EmptyObject == Len(<<>>) = 0 /\ 1 .. 0 = {}
OBVIOUS

LEMMA ReleasesAccounted ==
    ASSUME NEW s \in Call, NEW t, NEW m \in Memfds, Releases(s, t, m),
           NEW V, NEW O, Accounted(s, V, O)
    PROVE  Accounted(t, V, O)
<1>1. CASE s.memfds[m].refs > 1
   <2>1. /\ t.free = s.free /\ t.as = s.as
         /\ \A k \in Memfds : t.memfds[k].pages = s.memfds[k].pages
         BY <1>1 DEF Releases
   <2> QED BY <2>1, AccountedSame
<1>2. CASE ~(s.memfds[m].refs > 1)
   <2> DEFINE P == PagesOf(s.memfds[m].pages)
   <2>1. /\ t.free = s.free \cup P /\ t.as = s.as
         /\ t.memfds[m].pages = <<>>
         /\ \A k \in Memfds : k # m => t.memfds[k] = s.memfds[k]
         BY <1>2 DEF Releases
   <2>2. \A x : ~InObject(t.memfds[m], x) BY <2>1, EmptyObject DEF InObject
   <2>3. \A x \in Pages : InObject(s.memfds[m], x) <=> x \in P BY DEF InObject, PagesOf
   <2>4. P \subseteq Pages BY DEF PagesOf
   <2>5. /\ Separate(s.as, V) /\ Distinct(s.memfds)
         /\ Parts(s.free, Held(s.as, V), ObjectPages(s.memfds), O)
         BY DEF Accounted
   <2>6. Distinct(t.memfds)
      <3>1. ASSUME NEW k \in Memfds, NEW n \in Memfds, NEW x \in Pages,
                   InObject(t.memfds[k], x), InObject(t.memfds[n], x)
            PROVE  k = n
         <4>1. k # m /\ n # m BY <3>1, <2>2
         <4> QED BY <4>1, <3>1, <2>1, <2>5 DEF Distinct
      <3>2. ASSUME NEW k \in Memfds,
                   NEW i \in 1 .. Len(t.memfds[k].pages), NEW j \in 1 .. Len(t.memfds[k].pages),
                   t.memfds[k].pages[i] = t.memfds[k].pages[j]
            PROVE  i = j
         <4>1. k # m BY <2>1, EmptyObject
         <4> QED BY <4>1, <3>2, <2>1, <2>5 DEF Distinct
      <3> QED BY <3>1, <3>2 DEF Distinct
   <2>7. ObjectPages(t.memfds) = ObjectPages(s.memfds) \ P
      <3>1. ASSUME NEW x \in ObjectPages(t.memfds)
            PROVE  x \in ObjectPages(s.memfds) /\ x \notin P
         <4>1. PICK k \in Memfds : InObject(t.memfds[k], x) BY DEF ObjectPages
         <4>2. k # m BY <4>1, <2>2
         <4>3. InObject(s.memfds[k], x) /\ x \in Pages BY <4>1, <4>2, <2>1 DEF ObjectPages
         <4>4. ~InObject(s.memfds[m], x) BY <4>2, <4>3, <2>5 DEF Distinct
         <4> QED BY <4>3, <4>4, <2>3 DEF ObjectPages
      <3>2. ASSUME NEW x \in ObjectPages(s.memfds), x \notin P
            PROVE  x \in ObjectPages(t.memfds)
         <4>1. x \in Pages BY DEF ObjectPages
         <4>2. PICK k \in Memfds : InObject(s.memfds[k], x) BY DEF ObjectPages
         <4>3. k # m BY <3>2, <4>1, <4>2, <2>3
         <4> QED BY <4>1, <4>2, <4>3, <2>1 DEF ObjectPages
      <3> QED BY <3>1, <3>2
   <2>8. P \subseteq ObjectPages(s.memfds) BY <2>3, <2>4 DEF ObjectPages
   <2> HIDE DEF P
   <2>9. Parts(t.free, Held(t.as, V), ObjectPages(t.memfds), O)
         BY <2>1, <2>5, <2>7, <2>8 DEF Parts
   <2> QED BY <2>1, <2>5, <2>6, <2>9 DEF Accounted
<1> QED BY <1>1, <1>2

LEMMA ReleasesObjects ==
    ASSUME NEW s \in Call, NEW t, NEW m \in Memfds, Releases(s, t, m), Objects(s.memfds)
    PROVE  Objects(t.memfds)
<1> SUFFICES ASSUME NEW k \in Memfds
             PROVE  /\ t.memfds[k].refs = 0 => t.memfds[k].pages = <<>>
                    /\ Len(t.memfds[k].pages) <= MaxPages
    BY DEF Objects
<1>1. CASE k # m BY <1>1 DEF Releases, Objects
<1>2. CASE k = m
   <2>1. CASE s.memfds[m].refs > 1
      <3>1. s.memfds[m].refs \in Nat BY CallFields, ObjectFields
      <3>2. t.memfds[m].refs # 0 BY <2>1, <3>1 DEF Releases
      <3> QED BY <1>2, <2>1, <3>2 DEF Releases, Objects
   <2>2. CASE ~(s.memfds[m].refs > 1)
      <3>1. t.memfds[m].pages = <<>> BY <2>2 DEF Releases
      <3>2. Len(<<>>) <= MaxPages BY EmptyObject, Sizes
      <3> QED BY <1>2, <3>1, <3>2
   <2> QED BY <2>1, <2>2
<1> QED BY <1>1, <1>2

(* The views of the object keep it alive. *)
LEMMA ReleasesSees ==
    ASSUME NEW s \in Call, NEW t, NEW m \in Memfds, Releases(s, t, m),
           NEW c \in Space, NEW sh, Sees(c, s.memfds, sh),
           s.memfds[m].refs > 1 \/ ViewsOf(c, m) = {}
    PROVE  Sees(c, t.memfds, sh)
<1> SUFFICES ASSUME NEW q \in Slots, c.regions[q].active, c.regions[q].memfd # 0,
                    c.regions[q].memfd \notin sh,
                    NEW i \in 1 .. c.regions[q].size
             PROVE  /\ c.regions[q].start + i <= Len(t.memfds[c.regions[q].memfd].pages)
                    /\ c.pt[c.regions[q].base + i - 1]
                         = t.memfds[c.regions[q].memfd].pages[c.regions[q].start + i]
    BY DEF Sees
<1> DEFINE k == c.regions[q].memfd
<1>1. c.regions[q] \in Regions BY SpaceFields
<1>2. k \in Memfds BY <1>1, RegionFields
<1>3. t.memfds[k].pages = s.memfds[k].pages
   <2>1. CASE k # m BY <2>1, <1>2 DEF Releases
   <2>2. CASE k = m
      <3>1. q \in ViewsOf(c, m) BY <2>2 DEF ViewsOf, Live
      <3> QED BY <2>2, <3>1 DEF Releases
   <2> QED BY <2>1, <2>2
<1>4. /\ c.regions[q].start + i <= Len(s.memfds[k].pages)
      /\ c.pt[c.regions[q].base + i - 1] = s.memfds[k].pages[c.regions[q].start + i]
      BY DEF Sees
<1> QED BY <1>3, <1>4

-----------------------------------------------------------------------------
(* Unmapping a region *)

LEMMA ViewsFinite ==
    ASSUME NEW as, NEW m
    PROVE  IsFiniteSet(ViewsOf(as, m)) /\ Cardinality(ViewsOf(as, m)) \in Nat
<1>1. MaxRegions \in Int /\ 1 \in Int BY Sizes
<1>2. IsFiniteSet(Slots) BY <1>1, FS_Interval DEF Slots
<1>3. ViewsOf(as, m) \in SUBSET Slots BY DEF ViewsOf
<1>4. IsFiniteSet(ViewsOf(as, m)) BY <1>2, <1>3, FS_Subset
<1> QED BY <1>4, FS_CardinalityType

(* The pages of a region go back if they are its own. *)
LEMMA RegionGone ==
    ASSUME NEW s \in Call, NEW V, NEW O, Accounted(s, V, O), NEW r \in Slots,
           RegionSpan(s.as.regions[r]) \subseteq Virt,
           NEW frees \in BOOLEAN,
           frees => RegionSpan(s.as.regions[r]) \cap V = {},
           ~frees => RegionSpan(s.as.regions[r]) \subseteq V
    PROVE  LET vas == RegionSpan(s.as.regions[r])
               G   == Unmapped(s, vas, frees)
           IN  Unmaps(s, G, vas, GivenBack(s.as, vas, frees)) /\ Accounted(G, V, O)
<1> DEFINE vas == RegionSpan(s.as.regions[r])
           G == Unmapped(s, vas, frees)
<1>1. vas \subseteq Virt OBVIOUS
<1>2. (frees => vas \cap V = {}) /\ (~frees => vas \subseteq V) OBVIOUS
<1> HIDE DEF vas
<1>3. Unmaps(s, G, vas, GivenBack(s.as, vas, frees)) BY <1>1, UnmappedEffect, Zenon
<1>4. Accounted(G, V, O) BY <1>1, <1>2, UnmappedAccounted, Zenon
<1> QED BY <1>3, <1>4, Zenon DEF vas

(* Regions do not share addresses, so a region shows an object at all its   *)
(* addresses or at none.                                                    *)
LEMMA RegionSeen ==
    ASSUME NEW as \in Space, Shaped(as), NEW r \in Slots, Live(as, r)
    PROVE  /\ RegionSpan(as.regions[r]) \subseteq Virt
           /\ as.regions[r].memfd = 0 => RegionSpan(as.regions[r]) \cap Seen(as) = {}
           /\ as.regions[r].memfd # 0 => RegionSpan(as.regions[r]) \subseteq Seen(as)
<1>1. RegionSpan(as.regions[r]) \subseteq Virt BY DEF Shaped, GoodRegion, Within, RegionSpan
<1>2. as.regions[r].memfd # 0 => RegionSpan(as.regions[r]) \subseteq Seen(as)
      BY <1>1 DEF Seen
<1>3. ASSUME as.regions[r].memfd = 0, NEW va \in RegionSpan(as.regions[r]), va \in Seen(as)
      PROVE  FALSE
   <2>1. PICK q \in Slots : /\ Live(as, q) /\ as.regions[q].memfd # 0
                            /\ va \in RegionSpan(as.regions[q])
         BY <1>3 DEF Seen
   <2>2. q # r BY <2>1, <1>3
   <2> QED BY <2>1, <2>2, <1>3 DEF Shaped, Apart
<1> QED BY <1>1, <1>2, <1>3

LEMMA NoRegionType == NoRegion \in Regions
<1>1. 0 \in 0 .. MaxPages BY Sizes
<1> QED BY <1>1 DEF NoRegion, Regions

(* Process_vm_unmap of a region that has all its pages. *)
LEMMA WholeUnmapped ==
    ASSUME NEW s, NEW O, NEW K \in [Memfds -> Nat], NEW sh, Consistent(s, O, K, sh),
           NEW r \in Slots, Live(s.as, r), Whole(s.as, r)
    PROVE  LET t == RegionUnmapped(s, r)
           IN  /\ Consistent(t, O, K, sh)
               /\ \A c \in Space : Sees(c, s.memfds, sh) /\
                     (\A m \in Memfds : ViewsOf(c, m) # {} => K[m] >= 1) => Sees(c, t.memfds, sh)
               /\ t.as.regions = [s.as.regions EXCEPT ![r] = NoRegion]
               /\ Vacant(t.as, RegionSpan(s.as.regions[r]))
<1> DEFINE g == s.as.regions[r]
           vas == RegionSpan(g)
           G == Unmapped(s, vas, g.memfd = 0)
           B == IF g.memfd = 0 THEN G ELSE MemfdReleased(G, g.memfd)
           t == [B EXCEPT !.as.regions[r] = NoRegion]
<1>1. /\ s \in Call /\ Accounted(s, Seen(s.as), O) /\ Shaped(s.as)
      /\ Objects(s.memfds) /\ Counted(s, K) /\ Sees(s.as, s.memfds, sh)
      BY DEF Consistent
<1>2. /\ s.as \in Space /\ s.memfds \in [Memfds -> Object] BY <1>1, CallFields
<1>3. g \in Regions BY <1>2, SpaceFields
<1>4. g.memfd \in Memfds \cup {0} BY <1>3, RegionFields
<1>5. /\ vas \subseteq Virt
      /\ g.memfd = 0 => vas \cap Seen(s.as) = {}
      /\ g.memfd # 0 => vas \subseteq Seen(s.as)
      BY <1>1, <1>2, RegionSeen
<1>6. (g.memfd = 0) \in BOOLEAN OBVIOUS
<1>7. /\ Unmaps(s, G, vas, GivenBack(s.as, vas, g.memfd = 0))
      /\ Accounted(G, Seen(s.as), O)
      BY <1>1, <1>5, <1>6, RegionGone, Zenon
<1>8. RegionUnmapped(s, r) = t BY Zenon DEF RegionUnmapped
<1> HIDE DEF G
<1>9. /\ G \in Call /\ G.memfds = s.memfds /\ G.as.regions = s.as.regions
      /\ G.as.heap = s.as.heap /\ G.as.stack = s.as.stack
      /\ \A va \in Virt : G.as.pt[va] = IF va \in vas THEN Absent ELSE s.as.pt[va]
      BY <1>7 DEF Unmaps
<1>10. /\ B \in Call /\ B.as = G.as /\ Accounted(B, Seen(s.as), O)
       /\ g.memfd = 0 => B.memfds = s.memfds
       /\ g.memfd # 0 => Releases(G, B, g.memfd)
   <2>1. CASE g.memfd = 0 BY <2>1, <1>7, <1>9
   <2>2. CASE g.memfd # 0
      <3>1. g.memfd \in Memfds BY <2>2, <1>4
      <3>2. Releases(G, B, g.memfd) BY <3>1, <2>2, <1>9, ReleasedEffect
      <3>3. Accounted(B, Seen(s.as), O) BY <3>1, <3>2, <1>7, <1>9, ReleasesAccounted
      <3> QED BY <2>2, <3>2, <3>3 DEF Releases
   <2> QED BY <2>1, <2>2
<1> HIDE DEF B
<1>11. /\ SamePages(B, t) /\ t.as.regions = [B.as.regions EXCEPT ![r] = NoRegion]
       /\ t.as.heap = B.as.heap /\ t.as.stack = B.as.stack
       BY <1>10, NoRegionType, RegionSet
<1> HIDE DEF t, g, vas
<1>12. /\ t \in Call /\ t.memfds = B.memfds
       /\ t.as.regions = [s.as.regions EXCEPT ![r] = NoRegion]
       /\ t.as.heap = s.as.heap /\ t.as.stack = s.as.stack
       /\ \A va \in Virt : t.as.pt[va] = IF va \in vas THEN Absent ELSE s.as.pt[va]
       BY <1>9, <1>10, <1>11 DEF SamePages
<1>13. Removes(s.as, t.as, r) BY <1>12 DEF Removes, vas, g
<1>14. t.as \in Space BY <1>12, CallFields
<1>15. /\ Shaped(t.as)
       /\ Seen(t.as) = Seen(s.as) \ vas
       /\ \A m \in Memfds : ViewsOf(t.as, m) = ViewsOf(s.as, m) \ {r}
       BY <1>1, <1>2, <1>13, <1>14, RemovesShaped DEF vas, g
<1>16. Sees(t.as, s.memfds, sh) BY <1>1, <1>2, <1>13, <1>14, RemovesSees
<1>17. Accounted(t, Seen(t.as), O)
   <2>1. Accounted(t, Seen(s.as), O) BY <1>10, <1>11, AccountedSame DEF SamePages
   <2>2. \A va \in Virt : va \in Seen(s.as) /\ va \notin Seen(t.as) => t.as.pt[va] = Absent
         BY <1>12, <1>15
   <2>3. \A va \in Virt : va \in Seen(t.as) /\ va \notin Seen(s.as) => t.as.pt[va] = Absent
         BY <1>15
   <2> QED BY <2>1, <2>2, <2>3, <1>12, AccountedElsewhere
<1>18. ASSUME g.memfd # 0
       PROVE  /\ g.memfd \in Memfds /\ Releases(G, B, g.memfd)
              /\ r \in ViewsOf(s.as, g.memfd)
              /\ s.memfds[g.memfd].refs = K[g.memfd] + Cardinality(ViewsOf(t.as, g.memfd)) + 1
   <2>1. g.memfd \in Memfds BY <1>4, <1>18
   <2>2. r \in ViewsOf(s.as, g.memfd) BY DEF ViewsOf, g
   <2>3. IsFiniteSet(ViewsOf(s.as, g.memfd)) /\ Cardinality(ViewsOf(s.as, g.memfd)) \in Nat
         BY ViewsFinite
   <2>4. Cardinality(ViewsOf(t.as, g.memfd)) = Cardinality(ViewsOf(s.as, g.memfd)) - 1
         BY <2>1, <2>2, <2>3, <1>15, FS_RemoveElement
   <2>5. s.memfds[g.memfd].refs = K[g.memfd] + Cardinality(ViewsOf(s.as, g.memfd))
         BY <2>1, <1>1 DEF Counted
   <2>6. K[g.memfd] \in Nat BY <2>1
   <2>7. s.memfds[g.memfd].refs = K[g.memfd] + Cardinality(ViewsOf(t.as, g.memfd)) + 1
         BY <2>3, <2>4, <2>5, <2>6
   <2> QED BY <2>1, <2>2, <2>7, <1>10, <1>18
<1>19. Objects(t.memfds)
   <2>1. CASE g.memfd = 0 BY <2>1, <1>1, <1>10, <1>12
   <2>2. CASE g.memfd # 0
      <3>1. g.memfd \in Memfds /\ Releases(G, B, g.memfd) BY <2>2, <1>18
      <3>2. Objects(B.memfds) BY <3>1, <1>1, <1>9, ReleasesObjects
      <3> QED BY <3>2, <1>12
   <2> QED BY <2>1, <2>2
<1>20. Counted(t, K)
   <2> SUFFICES ASSUME NEW m \in Memfds
                PROVE  t.memfds[m].refs = K[m] + Cardinality(ViewsOf(t.as, m))
       BY DEF Counted
   <2>1. CASE g.memfd # m
      <3>1. r \notin ViewsOf(s.as, m) BY <2>1 DEF ViewsOf, g
      <3>2. ViewsOf(t.as, m) = ViewsOf(s.as, m) BY <3>1, <1>15
      <3>3. t.memfds[m] = s.memfds[m]
         <4>1. CASE g.memfd = 0 BY <4>1, <1>10, <1>12
         <4>2. CASE g.memfd # 0
            <5>1. Releases(G, B, g.memfd) BY <4>2, <1>10
            <5> QED BY <5>1, <2>1, <1>9, <1>12 DEF Releases
         <4> QED BY <4>1, <4>2
      <3> QED BY <3>2, <3>3, <1>1 DEF Counted
   <2>2. CASE g.memfd = m
      <3>1. g.memfd # 0 BY <2>2, NoObjectZero
      <3>2. Releases(G, B, m) /\ s.memfds[m].refs = K[m] + Cardinality(ViewsOf(t.as, m)) + 1
            BY <2>2, <3>1, <1>18
      <3>3. K[m] \in Nat /\ Cardinality(ViewsOf(t.as, m)) \in Nat BY ViewsFinite
      <3>4. IF s.memfds[m].refs > 1 THEN B.memfds[m].refs = s.memfds[m].refs - 1
                                    ELSE B.memfds[m].refs = 0
            BY <3>2, <1>9 DEF Releases
      <3> QED BY <3>2, <3>3, <3>4, <1>12
   <2> QED BY <2>1, <2>2
<1>21. ASSUME NEW c \in Space, Sees(c, s.memfds, sh),
              g.memfd # 0 => s.memfds[g.memfd].refs > 1 \/ ViewsOf(c, g.memfd) = {}
       PROVE  Sees(c, t.memfds, sh)
   <2>1. CASE g.memfd = 0 BY <2>1, <1>10, <1>12, <1>21
   <2>2. CASE g.memfd # 0
      <3>1. g.memfd \in Memfds /\ Releases(G, B, g.memfd) BY <2>2, <1>18
      <3>2. Sees(c, B.memfds, sh) BY <2>2, <3>1, <1>9, <1>21, ReleasesSees
      <3> QED BY <3>2, <1>12
   <2> QED BY <2>1, <2>2
<1>22. Sees(t.as, t.memfds, sh)
   <2>1. ASSUME g.memfd # 0 PROVE s.memfds[g.memfd].refs > 1 \/ ViewsOf(t.as, g.memfd) = {}
      <3> DEFINE v == Cardinality(ViewsOf(t.as, g.memfd))
      <3>1. IsFiniteSet(ViewsOf(t.as, g.memfd)) /\ v \in Nat BY ViewsFinite
      <3>2. K[g.memfd] \in Nat /\ s.memfds[g.memfd].refs = K[g.memfd] + v + 1
            BY <2>1, <1>18
      <3>3. v = 0 => ViewsOf(t.as, g.memfd) = {} BY <3>1, FS_EmptySet
      <3> HIDE DEF v
      <3> QED BY <3>1, <3>2, <3>3
   <2> QED BY <2>1, <1>14, <1>16, <1>21
<1>23. ASSUME NEW c \in Space, Sees(c, s.memfds, sh),
              \A m \in Memfds : ViewsOf(c, m) # {} => K[m] >= 1
       PROVE  Sees(c, t.memfds, sh)
   <2>1. ASSUME g.memfd # 0 PROVE s.memfds[g.memfd].refs > 1 \/ ViewsOf(c, g.memfd) = {}
      <3> DEFINE v == Cardinality(ViewsOf(t.as, g.memfd))
      <3>1. v \in Nat BY ViewsFinite
      <3>2. /\ K[g.memfd] \in Nat /\ s.memfds[g.memfd].refs = K[g.memfd] + v + 1
            /\ g.memfd \in Memfds
            BY <2>1, <1>18
      <3> HIDE DEF v
      <3>3. K[g.memfd] >= 1 => s.memfds[g.memfd].refs > 1 BY <3>1, <3>2
      <3> QED BY <3>2, <3>3, <1>23
   <2> QED BY <2>1, <1>21, <1>23
<1>24. Consistent(t, O, K, sh)
       BY <1>12, <1>15, <1>17, <1>19, <1>20, <1>22 DEF Consistent
<1>25. Vacant(t.as, vas) BY <1>5, <1>12 DEF Vacant
<1> QED BY <1>8, <1>12, <1>23, <1>24, <1>25 DEF vas, g

(* A region that lost a page lost one below the mapping area: what comes    *)
(* before the hole is given back.                                           *)
LEMMA PartUnmapped ==
    ASSUME NEW s, NEW O, NEW K, NEW sh, Consistent(s, O, K, sh),
           NEW r \in Slots, Live(s.as, r), ~Whole(s.as, r)
    PROVE  /\ Consistent(RegionUnmapped(s, r), O, K, sh)
           /\ RegionUnmapped(s, r).memfds = s.memfds
<1> DEFINE g == s.as.regions[r]
           span == RegionSpan(g)
           hole == Min(span \ Present(s.as, span))
           vas == g.base .. hole - 1
           U == Unmapped(s, vas, TRUE)
<1>1. s \in Call /\ Shaped(s.as) BY DEF Consistent
<1>2. s.as \in Space BY <1>1, CallFields
<1>3. GoodRegion(s.as, r) BY <1>1 DEF Shaped
<1>4. g \in Regions BY <1>2, SpaceFields
<1>5. g.base \in Nat /\ g.size \in Nat BY <1>4, RegionFields
<1>6. span = g.base .. g.base + g.size - 1 BY DEF RegionSpan, Span
<1>7. span \subseteq Virt BY <1>3 DEF GoodRegion, Within, RegionSpan
<1>8. hole \in span \ Present(s.as, span)
   <2>1. span \ Present(s.as, span) # {} BY DEF Whole, Present
   <2>2. span \ Present(s.as, span) \subseteq Nat BY <1>7, Sizes DEF Virt
   <2> HIDE DEF span
   <2> QED BY <2>1, <2>2, MinIsLeast
<1>9. hole \in span /\ hole \in Int /\ ~(hole > Low)
   <2>1. hole \in span /\ s.as.pt[hole] = Absent BY <1>8 DEF Present
   <2>2. hole \in Int BY <2>1, <1>7, Sizes DEF Virt
   <2> QED BY <2>1, <2>2, <1>3 DEF GoodRegion
<1>10. g.memfd = 0 BY <1>3, <1>9 DEF GoodRegion
<1>11. RegionUnmapped(s, r) = U
   <2>1. RegionUnmapped(s, r) = Unmapped(s, vas, g.memfd = 0)
         BY Zenon DEF RegionUnmapped
   <2>2. (g.memfd = 0) = TRUE BY <1>10
   <2> QED BY <2>1, <2>2, Zenon
<1>12. \A va \in vas : va \in span /\ ~(va > Low)
   <2> DEFINE b == g.base
              e == g.base + g.size - 1
   <2>1. b \in Int /\ e \in Int BY <1>5
   <2>2. vas = b .. hole - 1 /\ span = b .. e BY <1>6
   <2> HIDE DEF b, e, hole, vas, span
   <2> QED BY <2>1, <2>2, <1>9, Sizes
<1> HIDE DEF vas, span, hole
<1>13. vas \subseteq Virt /\ Clear(s.as, vas) BY <1>7, <1>12, LowClear
<1>14. Unmaps(s, U, vas, GivenBack(s.as, vas, TRUE)) BY <1>1, <1>13, UnmappedEffect, Zenon
<1>15. /\ SamePages(Unmapped(s, vas, TRUE), U) /\ U.as.heap = s.as.heap
       /\ U.as.stack = s.as.stack /\ U.as.regions = s.as.regions /\ U.memfds = s.memfds
       BY <1>14 DEF Unmaps, SamePages
<1> HIDE DEF U
<1>16. \A va \in Virt : Reserved(s.as, va) => Reserved(U.as, va) BY <1>15 DEF Reserved
<1>17. Consistent(U, O, K, sh) BY <1>13, <1>15, <1>16, CutConsistent
<1> QED BY <1>11, <1>15, <1>17

-----------------------------------------------------------------------------
(* Replacing the pages of a range *)

(* As many pages come back as addresses had one. *)
LEMMA PagesBack ==
    ASSUME NEW as \in Space, NEW V, Separate(as, V), NEW vas, vas \subseteq Virt,
           vas \cap V = {}, IsFiniteSet(vas)
    PROVE  LET Q == {as.pt[va] : va \in Present(as, vas)}
           IN  /\ IsFiniteSet(Q) /\ Cardinality(Q) = Cardinality(Present(as, vas))
               /\ Q \subseteq Pages
               /\ as.table \notin Q
<1> DEFINE S == Present(as, vas)
           Q == {as.pt[va] : va \in S}
           f == [va \in S |-> as.pt[va]]
<1>1. S \subseteq vas /\ \A va \in S : va \in Virt \ V /\ as.pt[va] # Absent
      BY DEF Present
<1>2. IsFiniteSet(S) BY <1>1, FS_Subset
<1> HIDE DEF S
<1>3. \A va, vb \in S : as.pt[va] = as.pt[vb] => va = vb BY <1>1 DEF Separate
<1>4. f \in Surjection(S, Q) BY DEF Surjection
<1>5. f \in Injection(S, Q) BY <1>3 DEF Injection, IsInjective
<1>6. ExistsBijection(S, Q) BY <1>4, <1>5 DEF ExistsBijection, Bijection
<1>7. IsFiniteSet(Q) /\ Cardinality(Q) = Cardinality(S) BY <1>2, <1>6, FS_Bijection
<1>8. Q \subseteq Pages
   <2>1. \A va \in Virt : as.pt[va] \in Pages \cup {Absent} BY SpaceFields
   <2> QED BY <2>1, <1>1
<1>9. as.table \notin Q BY <1>1 DEF Separate
<1> QED BY <1>7, <1>8, <1>9 DEF S

(* Once a range is cleared there are pages enough for all of it, if there   *)
(* were enough for the addresses without one.                               *)
LEMMA ClearedEnough ==
    ASSUME NEW s \in Call, NEW V, NEW O, Accounted(s, V, O),
           NEW base, NEW n, Within(base, n), Span(base, n) \cap V = {},
           Cardinality(Span(base, n) \ Present(s.as, Span(base, n))) + TableCost(s.as)
               <= Cardinality(s.free)
    PROVE  CanFill(Unmapped(s, Span(base, n), TRUE), n)
<1> DEFINE vas == Span(base, n)
           U == Unmapped(s, vas, TRUE)
           D == GivenBack(s.as, vas, TRUE)
           S == Present(s.as, vas)
           Q == {s.as.pt[va] : va \in S}
           T == IF Empties(s.as, vas) THEN {s.as.table} ELSE {}
<1>1. s.as \in Space /\ s.free \subseteq Pages /\ IsFiniteSet(s.free) /\ Cardinality(s.free) \in Nat
      BY CallFields
<1>2. base \in Nat /\ n \in Nat \ {0} /\ vas \subseteq Virt BY Sizes DEF Within, Virt
<1>3. IsFiniteSet(vas) /\ Cardinality(vas) = n
   <2>1. base \in Int /\ base + n - 1 \in Int /\ ~(base > base + n - 1)
         /\ (base + n - 1) - base + 1 = n
         BY <1>2
   <2> QED BY <2>1, FS_Interval DEF Span
<1>4. Separate(s.as, V) /\ Parts(s.free, Held(s.as, V), ObjectPages(s.memfds), O)
      BY DEF Accounted
<1>5. vas \cap V = {} OBVIOUS
<1>6. Cardinality(vas \ S) + TableCost(s.as) <= Cardinality(s.free) OBVIOUS
<1>7. CanFill(U, n) <=> Cardinality(U.free) >= n + TableCost(U.as) BY DEF CanFill
<1>8. Unmaps(s, U, vas, D) BY <1>2, UnmappedEffect, Zenon
<1>9. S \subseteq vas BY DEF Present
<1> HIDE DEF U, vas
<1>10. /\ IsFiniteSet(Q) /\ Cardinality(Q) = Cardinality(S) /\ Q \subseteq Pages
       /\ s.as.table \notin Q
       BY <1>1, <1>2, <1>3, <1>4, <1>5, PagesBack
<1>11. Q \subseteq D
   <2>1. \A va \in S : va \in vas BY <1>9
   <2> QED BY <2>1, <1>10 DEF GivenBack
<1>12. T \subseteq D /\ T \cap Q = {}
   <2>1. CASE Empties(s.as, vas)
      <3>1. s.as.table # Absent BY <2>1 DEF Empties
      <3>2. s.as.table \in Pages BY <3>1, <1>1, SpaceFields
      <3> QED BY <2>1, <3>1, <3>2, <1>10 DEF GivenBack
   <2>2. CASE ~Empties(s.as, vas) BY <2>2
   <2> QED BY <2>1, <2>2
<1>13. IsFiniteSet(T) /\ Cardinality(T) = IF Empties(s.as, vas) THEN 1 ELSE 0
       BY FS_Singleton, FS_EmptySet
<1>14. D \subseteq Held(s.as, V) BY <1>2, <1>5 DEF GivenBack, Held
<1>15. D \cap s.free = {} /\ D \subseteq Pages
   <2>1. D \subseteq Pages BY DEF GivenBack
   <2> HIDE DEF D
   <2> QED BY <2>1, <1>4, <1>14 DEF Parts
<1>16. /\ U.free = s.free \cup D /\ U \in Call
       /\ U.as.table = IF Empties(s.as, vas) THEN Absent ELSE s.as.table
       BY <1>8 DEF Unmaps
<1>17. TableCost(U.as) = TableCost(s.as) + Cardinality(T)
   <2>1. CASE Empties(s.as, vas)
      <3>1. s.as.table # Absent /\ U.as.table = Absent BY <2>1, <1>16 DEF Empties
      <3> QED BY <3>1, <2>1, <1>13 DEF TableCost
   <2>2. CASE ~Empties(s.as, vas)
      <3>1. U.as.table = s.as.table BY <2>2, <1>16
      <3> QED BY <3>1, <2>2, <1>13 DEF TableCost
   <2> QED BY <2>1, <2>2
<1> HIDE DEF D, S, Q, T
<1>18. IsFiniteSet(D) BY <1>15, PagesPositive, FS_Subset
<1>19. IsFiniteSet(Q \cup T) /\ Cardinality(Q \cup T) = Cardinality(Q) + Cardinality(T)
   <2>1. Q \cap T = {} BY <1>12
   <2>2. Cardinality(Q) \in Nat /\ Cardinality(T) \in Nat BY <1>10, <1>13, FS_CardinalityType
   <2>3. Cardinality(Q \cap T) = 0 BY <2>1, FS_EmptySet
   <2>4. /\ IsFiniteSet(Q \cup T)
         /\ Cardinality(Q \cup T) = Cardinality(Q) + Cardinality(T) - Cardinality(Q \cap T)
         BY <1>10, <1>13, FS_Union
   <2> QED BY <2>2, <2>3, <2>4
<1>20. Cardinality(Q \cup T) <= Cardinality(D) BY <1>11, <1>12, <1>18, FS_Subset
<1>21. Cardinality(U.free) = Cardinality(s.free) + Cardinality(D)
   <2>1. s.free \cap D = {} BY <1>15
   <2>2. Cardinality(D) \in Nat BY <1>18, FS_CardinalityType
   <2>3. Cardinality(s.free \cap D) = 0 BY <2>1, FS_EmptySet
   <2>4. Cardinality(s.free \cup D)
           = Cardinality(s.free) + Cardinality(D) - Cardinality(s.free \cap D)
         BY <1>1, <1>18, FS_Union
   <2> QED BY <2>2, <2>3, <2>4, <1>1, <1>16
<1>22. Cardinality(vas \ S) = n - Cardinality(S)
   <2>1. vas \cap S = S BY <1>9
   <2>2. Cardinality(vas \ S) = Cardinality(vas) - Cardinality(vas \cap S)
         BY <1>3, FS_Difference
   <2> QED BY <2>1, <2>2, <1>3
<1>23. /\ Cardinality(S) \in Nat /\ Cardinality(D) \in Nat /\ Cardinality(T) \in Nat
       /\ TableCost(s.as) \in Nat
   <2>1. IsFiniteSet(S) BY <1>3, <1>9, FS_Subset
   <2> QED BY <2>1, <1>13, <1>18, FS_CardinalityType DEF TableCost
<1>24. CanFill(U, n)
       BY <1>1, <1>2, <1>6, <1>7, <1>10, <1>17, <1>19, <1>20, <1>21, <1>22, <1>23
<1> QED BY <1>24 DEF U, vas

LEMMA ReplacedConsistent ==
    ASSUME NEW s, NEW O, NEW K, NEW sh, Consistent(s, O, K, sh),
           NEW r \in Slots, ~Live(s.as, r),
           NEW base, NEW n \in Virt, Within(base, n),
           \A q \in Slots : Live(s.as, q) =>
               RegionSpan(s.as.regions[q]) \cap Span(base, n) = {}
    PROVE  /\ Consistent(Replaced(s, base, n, r), O, K, sh)
           /\ Replaced(s, base, n, r).memfds = s.memfds
<1> DEFINE short(k) == Cardinality(Span(base, k) \ Present(s.as, Span(base, k)))
                         + TableCost(s.as) > Cardinality(s.free)
           failing == {k \in 1 .. n : short(k)}
           k0 == Min(failing)
           V == Unmapped(s, Span(base, k0), TRUE)
           U == Unmapped(s, Span(base, n), TRUE)
           F == Filled(U, base, n)
           t == [F EXCEPT !.as.regions[r] = Anon(base, n)]
<1>1. /\ s \in Call /\ Accounted(s, Seen(s.as), O) /\ Shaped(s.as) BY DEF Consistent
<1>2. s.as \in Space /\ Cardinality(s.free) \in Nat BY <1>1, CallFields
<1>3. /\ base \in Virt /\ base \in Nat /\ n \in Nat \ {0} /\ Span(base, n) \subseteq Virt
      BY Sizes DEF Within, Virt
<1>4. Span(base, n) \cap Seen(s.as) = {} BY DEF Seen
<1>5. Replaced(s, base, n, r) = IF failing # {} THEN V ELSE t
      BY Zenon DEF Replaced, Recorded, Anon
<1>6. CASE failing # {}
   <2>1. failing \subseteq Nat /\ failing \subseteq 1 .. n BY <1>3
   <2>2. k0 \in 1 .. n
      <3> HIDE DEF failing
      <3> QED BY <2>1, <1>6, MinIsLeast
   <2> HIDE DEF k0
   <2> DEFINE vas == Span(base, k0)
   <2>3. vas \subseteq Span(base, n) BY <2>2, <1>3 DEF Span
   <2> HIDE DEF vas
   <2>4. vas \subseteq Virt BY <2>3, <1>3
   <2>5. Unmaps(s, Unmapped(s, vas, TRUE), vas, GivenBack(s.as, vas, TRUE))
         BY <2>4, <1>1, UnmappedEffect, Zenon
   <2>6. V = Unmapped(s, vas, TRUE) BY DEF vas
   <2> HIDE DEF V
   <2>7. /\ SamePages(Unmapped(s, vas, TRUE), V) /\ V.as.heap = s.as.heap /\ V.as.stack = s.as.stack
         /\ V.as.regions = s.as.regions /\ V.memfds = s.memfds
         BY <2>5, <2>6 DEF Unmaps, SamePages
   <2>8. \A va \in Virt : Reserved(s.as, va) => Reserved(V.as, va) BY <2>7 DEF Reserved
   <2>9. Clear(s.as, vas) BY <2>3 DEF Clear
   <2>10. Consistent(V, O, K, sh) BY <2>4, <2>7, <2>8, <2>9, CutConsistent
   <2> QED BY <2>7, <2>10, <1>5, <1>6
<1>7. CASE failing = {}
   <2>1. ~short(n)
      <3>1. n \in 1 .. n BY <1>3
      <3> QED BY <3>1, <1>7
   <2>2. Cardinality(Span(base, n) \ Present(s.as, Span(base, n))) + TableCost(s.as)
           <= Cardinality(s.free)
      <3> DEFINE S == Span(base, n) \ Present(s.as, Span(base, n))
      <3>1. IsFiniteSet(Span(base, n))
         <4>1. base \in Int /\ base + n - 1 \in Int BY <1>3
         <4> QED BY <4>1, FS_Interval DEF Span
      <3>2. IsFiniteSet(S) BY <3>1, FS_Difference
      <3>3. Cardinality(S) \in Nat /\ TableCost(s.as) \in Nat
            BY <3>2, FS_CardinalityType DEF TableCost
      <3>4. ~(Cardinality(S) + TableCost(s.as) > Cardinality(s.free)) BY <2>1
      <3> HIDE DEF S
      <3>5. Cardinality(S) + TableCost(s.as) <= Cardinality(s.free)
            BY <3>3, <3>4, <1>2
      <3> QED BY <3>5 DEF S
   <2>3. CanFill(U, n) BY <2>2, <1>1, <1>4, ClearedEnough
   <2>4. Unmaps(s, U, Span(base, n), GivenBack(s.as, Span(base, n), TRUE))
         BY <1>1, <1>3, UnmappedEffect, Zenon
   <2>5. Accounted(U, Seen(s.as), O) BY <1>1, <1>3, <1>4, UnmappedAccounted, Zenon
   <2> HIDE DEF U
   <2>6. /\ U \in Call /\ U.memfds = s.memfds /\ U.as.regions = s.as.regions
         /\ U.as.heap = s.as.heap /\ U.as.stack = s.as.stack /\ U.as.next = s.as.next
         /\ \A va \in Virt : U.as.pt[va] = IF va \in Span(base, n) THEN Absent ELSE s.as.pt[va]
         BY <2>4 DEF Unmaps
   <2>7. Vacant(U.as, Span(base, n)) BY <2>6, <1>3 DEF Vacant
   <2>8. Fills(U, F, base, n) /\ Accounted(F, Seen(s.as), O)
         BY <2>3, <2>5, <2>6, <2>7, <1>4, FilledAccounted
   <2> HIDE DEF F
   <2>9. F \in Call /\ Fills(s, F, base, n) BY <2>6, <2>8 DEF Fills
   <2>10. n \in Virt OBVIOUS
   <2>11. /\ Anon(base, n) \in Regions /\ RegionSpan(Anon(base, n)) = Span(base, n)
          /\ Anon(base, n).active
          /\ Anon(base, n).base = base /\ Anon(base, n).size = n /\ Anon(base, n).memfd = 0
          BY <2>10, <1>3, AnonType
   <2>12. FitsIn(s.as, Anon(base, n)) BY <2>11 DEF FitsIn
   <2>13. /\ SamePages(F, t) /\ t.as.regions = [F.as.regions EXCEPT ![r] = Anon(base, n)]
          /\ t.as.heap = F.as.heap /\ t.as.stack = F.as.stack
          BY <2>9, <2>11, RegionSet
   <2> HIDE DEF t
   <2>14. Adds(s.as, t.as, r, Anon(base, n))
          BY <2>9, <2>10, <2>13, <1>1, <1>3, FilledAdds
   <2>15. Accounted(t, Seen(s.as), O) BY <2>8, <2>13, AccountedSame DEF SamePages
   <2>16. t \in Call /\ t.memfds = s.memfds BY <2>9, <2>13 DEF SamePages, Fills
   <2>17. Consistent(t, O, K, sh) BY <2>12, <2>14, <2>15, <2>16, AddConsistent
   <2> QED BY <2>16, <2>17, <1>5, <1>7
<1> QED BY <1>6, <1>7

(* A view c of other processes still shows its object's pages, where K[m]   *)
(* counts the references other processes have.                              *)
Undisturbed(K, mf, new, sh, newsh) ==
    \A c \in Space : /\ Sees(c, mf, sh)
                     /\ \A m \in Memfds : ViewsOf(c, m) # {} => K[m] >= 1
                     => Sees(c, new, newsh)

LEMMA UnmapsConsistent ==
    ASSUME NEW s, NEW O, NEW K \in [Memfds -> Nat], NEW sh, Consistent(s, O, K, sh),
           NEW r \in Slots, Live(s.as, r)
    PROVE  /\ Consistent(RegionUnmapped(s, r), O, K, sh)
           /\ Undisturbed(K, s.memfds, RegionUnmapped(s, r).memfds, sh, sh)
<1>1. CASE Whole(s.as, r) BY <1>1, WholeUnmapped DEF Undisturbed
<1>2. CASE ~Whole(s.as, r) BY <1>2, PartUnmapped DEF Undisturbed
<1> QED BY <1>1, <1>2

LEMMA MapsFixedConsistent ==
    ASSUME NEW s, NEW O, NEW K \in [Memfds -> Nat], NEW sh, Consistent(s, O, K, sh),
           NEW base, NEW n \in Virt, Within(base, n),
           NEW r \in Slots, Live(s.as, r), Exact(s.as, r, base, n), Whole(s.as, r)
    PROVE  LET t == Replaced(RegionUnmapped(s, r), base, n, r)
           IN  Consistent(t, O, K, sh) /\ Undisturbed(K, s.memfds, t.memfds, sh, sh)
<1> DEFINE u == RegionUnmapped(s, r)
           t == Replaced(u, base, n, r)
<1>1. /\ Consistent(u, O, K, sh)
      /\ Undisturbed(K, s.memfds, u.memfds, sh, sh)
      /\ u.as.regions = [s.as.regions EXCEPT ![r] = NoRegion]
      BY WholeUnmapped DEF Undisturbed
<1>2. s.as \in Space /\ Shaped(s.as) BY CallFields DEF Consistent
<1>3. s.as.regions \in [Slots -> Regions] BY <1>2, SpaceFields
<1> HIDE DEF u
<1>4. ~Live(u.as, r)
   <2>1. NoRegion.active = FALSE BY DEF NoRegion
   <2> QED BY <2>1, <1>1, <1>3 DEF Live
<1>5. RegionSpan(s.as.regions[r]) = Span(base, n) BY DEF Exact, RegionSpan
<1>6. ASSUME NEW q \in Slots, Live(u.as, q)
      PROVE  RegionSpan(u.as.regions[q]) \cap Span(base, n) = {}
   <2>1. q # r BY <1>4, <1>6
   <2>2. u.as.regions[q] = s.as.regions[q] BY <2>1, <1>1, <1>3
   <2>3. Live(s.as, q) BY <2>2, <1>6 DEF Live
   <2> QED BY <2>1, <2>2, <2>3, <1>2, <1>5 DEF Shaped, Apart
<1>7. Consistent(t, O, K, sh) /\ t.memfds = u.memfds
      BY <1>1, <1>4, <1>6, ReplacedConsistent
<1> QED BY <1>1, <1>7 DEF u

(* A mapping that is moved, and the old one then unmapped. *)
LEMMA MovedConsistent ==
    ASSUME NEW s, NEW O, NEW K \in [Memfds -> Nat], NEW sh, Consistent(s, O, K, sh),
           NEW n \in Nat \ {0}, CanVmMap(s, n), NEW r \in Slots, Live(s.as, r)
    PROVE  LET t == RegionUnmapped(VmMapped(s, n), r)
           IN  Consistent(t, O, K, sh) /\ Undisturbed(K, s.memfds, t.memfds, sh, sh)
<1> DEFINE u == VmMapped(s, n)
<1>1. /\ Consistent(u, O, K, sh) /\ u.memfds = s.memfds
      /\ u.as.regions[r] = s.as.regions[r]
      BY VmMapsConsistent
<1> HIDE DEF u
<1>2. Live(u.as, r) BY <1>1 DEF Live
<1>3. /\ Consistent(RegionUnmapped(u, r), O, K, sh)
      /\ Undisturbed(K, u.memfds, RegionUnmapped(u, r).memfds, sh, sh)
      BY <1>1, <1>2, UnmapsConsistent
<1> QED BY <1>1, <1>3 DEF u

(* An address space in which only the next base moved. *)
LEMMA NextConsistent ==
    ASSUME NEW s, NEW O, NEW K, NEW sh, Consistent(s, O, K, sh),
           NEW n \in Low + 1 .. Low + VmSize + 1
    PROVE  LET t == [s EXCEPT !.as.next = n]
           IN  Consistent(t, O, K, sh) /\ t.memfds = s.memfds
<1> DEFINE t == [s EXCEPT !.as.next = n]
<1>1. s \in Call /\ Shaped(s.as) /\ Accounted(s, Seen(s.as), O) BY DEF Consistent
<1>2. SamePages(s, t) /\ t.as.regions = s.as.regions /\ t.as.heap = s.as.heap /\ t.as.stack = s.as.stack
      BY <1>1, NextSet
<1> HIDE DEF t
<1>3. Alters(s.as, t.as, {}) BY <1>2 DEF SamePages, Alters
<1>4. Covered(t.as) BY <1>1, <1>2 DEF SamePages, Shaped, Covered, Reserved, Live
<1>5. Accounted(t, Seen(s.as), O) BY <1>1, <1>2, AccountedSame DEF SamePages
<1>6. t \in Call /\ t.memfds = s.memfds BY <1>2 DEF SamePages
<1>7. Clear(s.as, {}) BY DEF Clear
<1>8. Consistent(t, O, K, sh) BY <1>3, <1>4, <1>5, <1>6, <1>7, AltersConsistent
<1> QED BY <1>6, <1>8 DEF t

-----------------------------------------------------------------------------
(* Objects that grow, shrink and are shown *)

(* Object m has other pages, everything else of the objects is the same. *)
Resizes(s, t, m, pages, F) ==
    /\ t \in Call /\ t.as = s.as /\ t.free = F
    /\ \A k \in Memfds : k # m => t.memfds[k] = s.memfds[k]
    /\ t.memfds[m].refs = s.memfds[m].refs
    /\ t.memfds[m].pages = pages

LEMMA Resized ==
    ASSUME NEW s \in Call, NEW m \in Memfds, NEW pages \in Seq(Pages), NEW F \in SUBSET Pages
    PROVE  Resizes(s, [s EXCEPT !.free = F, !.memfds[m].pages = pages], m, pages, F)
<1> DEFINE o == [s.memfds[m] EXCEPT !.pages = pages]
           mf == [s.memfds EXCEPT ![m] = o]
           t == [s EXCEPT !.free = F, !.memfds[m].pages = pages]
<1>1. s.memfds \in [Memfds -> Object] BY CallFields
<1>2. s.memfds[m] \in Object BY <1>1, ObjectFields
<1>3. o \in Object /\ o.refs = s.memfds[m].refs /\ o.pages = pages BY <1>2 DEF Object
<1>4. t = [s EXCEPT !.free = F, !.memfds = mf] BY <1>1 DEF Call
<1> HIDE DEF o
<1>5. mf \in [Memfds -> Object] BY <1>1, <1>3
<1>6. mf[m] = o /\ \A k \in Memfds : k # m => mf[k] = s.memfds[k] BY <1>1
<1> HIDE DEF mf, t
<1>7. t \in Call /\ t.as = s.as /\ t.free = F /\ t.memfds = mf BY <1>4, <1>5 DEF Call
<1>8. Resizes(s, t, m, pages, F) BY <1>3, <1>6, <1>7 DEF Resizes
<1> QED BY <1>8 DEF t

(* The pages of one object and the free pages change hands. *)
LEMMA ResizesAccounted ==
    ASSUME NEW s \in Call, NEW t, NEW m \in Memfds, NEW pages, NEW F,
           Resizes(s, t, m, pages, F),
           NEW V, NEW O, Accounted(s, V, O), Unique(pages),
           F \cap PagesOf(pages) = {},
           F \cup PagesOf(pages) = s.free \cup PagesOf(s.memfds[m].pages)
    PROVE  Accounted(t, V, O)
<1> DEFINE P == PagesOf(pages)
           Q == PagesOf(s.memfds[m].pages)
<1>1. /\ t.free = F /\ t.as = s.as /\ t.memfds[m].pages = pages
      /\ \A k \in Memfds : k # m => t.memfds[k] = s.memfds[k]
      BY DEF Resizes
<1>2. /\ Separate(s.as, V) /\ Distinct(s.memfds)
      /\ Parts(s.free, Held(s.as, V), ObjectPages(s.memfds), O)
      BY DEF Accounted
<1>3. \A x \in Pages : InObject(t.memfds[m], x) <=> x \in P BY <1>1 DEF InObject, PagesOf
<1>4. \A x \in Pages : InObject(s.memfds[m], x) <=> x \in Q BY DEF InObject, PagesOf
<1>5. P \subseteq Pages /\ Q \subseteq Pages BY DEF PagesOf
<1>6. F \cap P = {} /\ F \cup P = s.free \cup Q OBVIOUS
<1> HIDE DEF P, Q
<1> DEFINE R == {x \in Pages : \E k \in Memfds : k # m /\ InObject(s.memfds[k], x)}
<1>7. ObjectPages(s.memfds) = R \cup Q BY <1>4, <1>5 DEF ObjectPages
<1>8. ObjectPages(t.memfds) = R \cup P BY <1>1, <1>3, <1>5 DEF ObjectPages
<1>9. R \cap Q = {} BY <1>2, <1>4 DEF Distinct
<1>10. R \cap s.free = {} BY <1>2, <1>7 DEF Parts
<1>11. R \cap P = {} BY <1>6, <1>9, <1>10
<1>12. Distinct(t.memfds)
   <2>1. ASSUME NEW k \in Memfds, NEW n \in Memfds, NEW x \in Pages,
                InObject(t.memfds[k], x), InObject(t.memfds[n], x)
         PROVE  k = n
      <3>1. CASE k = m /\ n # m BY <2>1, <3>1, <1>1, <1>3, <1>11
      <3>2. CASE k # m /\ n = m BY <2>1, <3>2, <1>1, <1>3, <1>11
      <3>3. CASE k # m /\ n # m BY <2>1, <3>3, <1>1, <1>2 DEF Distinct
      <3> QED BY <3>1, <3>2, <3>3
   <2>2. ASSUME NEW k \in Memfds,
                NEW i \in 1 .. Len(t.memfds[k].pages), NEW j \in 1 .. Len(t.memfds[k].pages),
                t.memfds[k].pages[i] = t.memfds[k].pages[j]
         PROVE  i = j
      <3>1. CASE k = m BY <2>2, <3>1, <1>1 DEF Unique
      <3>2. CASE k # m BY <2>2, <3>2, <1>1, <1>2 DEF Distinct
      <3> QED BY <3>1, <3>2
   <2> QED BY <2>1, <2>2 DEF Distinct
<1> HIDE DEF R
<1>13. Parts(t.free, Held(t.as, V), ObjectPages(t.memfds), O)
       BY <1>1, <1>2, <1>6, <1>7, <1>8, <1>9, <1>10, <1>11 DEF Parts
<1> QED BY <1>1, <1>2, <1>12, <1>13 DEF Accounted

LEMMA ResizesConsistent ==
    ASSUME NEW s, NEW O, NEW K, NEW sh, NEW newsh, Consistent(s, O, K, sh),
           NEW t, NEW m \in Memfds, NEW pages, NEW F, Resizes(s, t, m, pages, F),
           Accounted(t, Seen(s.as), O), Sees(s.as, t.memfds, newsh),
           Len(pages) <= MaxPages, s.memfds[m].refs # 0
    PROVE  Consistent(t, O, K, newsh)
<1>1. /\ s \in Call /\ Shaped(s.as) /\ Objects(s.memfds) /\ Counted(s, K)
      BY DEF Consistent
<1>2. /\ t \in Call /\ t.as = s.as /\ \A k \in Memfds : t.memfds[k].refs = s.memfds[k].refs
      /\ t.memfds[m].pages = pages
      /\ \A k \in Memfds : k # m => t.memfds[k] = s.memfds[k]
      BY DEF Resizes
<1>3. Counted(t, K) BY <1>1, <1>2 DEF Counted
<1>4. Objects(t.memfds) BY <1>1, <1>2 DEF Objects
<1> QED BY <1>1, <1>2, <1>3, <1>4 DEF Consistent

(* A longer object still has the pages its views show. *)
LEMMA LongerSees ==
    ASSUME NEW s \in Call, NEW t, NEW m \in Memfds, NEW pages, NEW F,
           Resizes(s, t, m, pages, F),
           Len(s.memfds[m].pages) <= Len(pages), Len(pages) \in Nat,
           \A i \in 1 .. Len(s.memfds[m].pages) : pages[i] = s.memfds[m].pages[i],
           NEW c \in Space, NEW sh, Sees(c, s.memfds, sh)
    PROVE  Sees(c, t.memfds, sh)
<1> SUFFICES ASSUME NEW q \in Slots, c.regions[q].active, c.regions[q].memfd # 0,
                    c.regions[q].memfd \notin sh,
                    NEW i \in 1 .. c.regions[q].size
             PROVE  /\ c.regions[q].start + i <= Len(t.memfds[c.regions[q].memfd].pages)
                    /\ c.pt[c.regions[q].base + i - 1]
                         = t.memfds[c.regions[q].memfd].pages[c.regions[q].start + i]
    BY DEF Sees
<1> DEFINE k == c.regions[q].memfd
           j == c.regions[q].start + i
<1>1. c.regions[q] \in Regions BY SpaceFields
<1>2. k \in Memfds /\ c.regions[q].start \in Nat /\ c.regions[q].size \in Nat
      BY <1>1, RegionFields
<1>3. /\ j <= Len(s.memfds[k].pages)
      /\ c.pt[c.regions[q].base + i - 1] = s.memfds[k].pages[j]
      BY DEF Sees
<1>4. j \in Nat /\ j >= 1 BY <1>2
<1>5. s.memfds \in [Memfds -> Object] BY CallFields
<1>6. Len(s.memfds[k].pages) \in Nat BY <1>2, <1>5, ObjectFields
<1> HIDE DEF k, j
<1>7. j \in 1 .. Len(s.memfds[k].pages) BY <1>3, <1>4, <1>6
<1>8. CASE k # m
   <2>1. t.memfds[k] = s.memfds[k] BY <1>2, <1>8 DEF Resizes
   <2> QED BY <2>1, <1>3 DEF k, j
<1>9. CASE k = m
   <2>1. t.memfds[k].pages = pages BY <1>9 DEF Resizes
   <2>2. pages[j] = s.memfds[k].pages[j] BY <1>7, <1>9
   <2>3. j <= Len(pages) BY <1>3, <1>4, <1>6, <1>9
   <2> QED BY <2>1, <2>2, <2>3, <1>3 DEF k, j
<1> QED BY <1>8, <1>9

(* The pages SomeOf takes are appended. *)
LEMMA GrownConsistent ==
    ASSUME NEW s, NEW O, NEW K \in [Memfds -> Nat], NEW sh, Consistent(s, O, K, sh),
           NEW m \in Memfds, K[m] >= 1, NEW n \in 0 .. MaxPages
    PROVE  LET t == Grown(s, m, n)
           IN  /\ Consistent(t, O, K, sh) /\ t.as = s.as
               /\ Undisturbed(K, s.memfds, t.memfds, sh, sh)
<1> DEFINE old == s.memfds[m].pages
           want == n - Len(old)
           k == Min({want, Cardinality(s.free)})
           new == SomeOf(s.free, k)
           pages == old \o new
           F == s.free \ Range(new)
           t == [s EXCEPT !.free = F, !.memfds[m].pages = pages]
<1>1. /\ s \in Call /\ Accounted(s, Seen(s.as), O) /\ Objects(s.memfds)
      /\ Counted(s, K) /\ Sees(s.as, s.memfds, sh)
      BY DEF Consistent
<1>2. /\ s.free \subseteq Pages /\ IsFiniteSet(s.free) /\ Cardinality(s.free) \in Nat
      /\ s.memfds \in [Memfds -> Object] /\ s.as \in Space
      BY <1>1, CallFields
<1>3. old \in Seq(Pages) /\ Len(old) \in Nat BY <1>2, ObjectFields
<1>4. Grown(s, m, n) = IF want <= 0 THEN s ELSE t BY Zenon DEF Grown
<1>5. CASE want <= 0
   <2>1. Grown(s, m, n) = s BY <1>4, <1>5
   <2> QED BY <2>1 DEF Undisturbed
<1>6. CASE ~(want <= 0)
   <2>1. want \in Nat BY <1>3, <1>6
   <2>2. k \in Nat /\ k <= Cardinality(s.free) /\ k <= want
      <3>1. {want, Cardinality(s.free)} \subseteq Nat BY <2>1, <1>2
      <3> QED BY <3>1, <1>2, MinIsLeast
   <2> HIDE DEF k
   <2>3. PICK P \in SUBSET s.free : Fresh(new, s.free, k, P) BY <2>2, <1>2, SomeOfFresh
   <2> HIDE DEF new
   <2>4. /\ new \in Seq(s.free) /\ Len(new) = k /\ Range(new) = P
         /\ \A i, j \in 1 .. k : new[i] = new[j] => i = j
         BY <2>3 DEF Fresh
   <2>5. \A i \in 1 .. k : new[i] \in P
      <3>1. \A i \in 1 .. k : new[i] \in s.free BY <2>4
      <3> QED BY <3>1, <2>3 DEF Fresh
   <2>6. \A x \in P : \E i \in 1 .. k : new[i] = x BY <2>3 DEF Fresh
   <2>7. new \in Seq(Pages)
      <3>1. new \in [1 .. k -> s.free] BY <2>4
      <3>2. new \in [1 .. k -> Pages] BY <3>1, <1>2
      <3> QED BY <3>2, <2>2
   <2>8. /\ pages \in Seq(Pages) /\ Len(pages) = Len(old) + k
         /\ \A i \in 1 .. Len(old) : pages[i] = old[i]
         /\ \A i \in 1 .. Len(old) + k : ~(i <= Len(old)) => pages[i] = new[i - Len(old)]
      <3>1. /\ pages \in Seq(Pages) /\ Len(pages) = Len(old) + k
            /\ \A i \in 1 .. Len(old) + k :
                  pages[i] = IF i <= Len(old) THEN old[i] ELSE new[i - Len(old)]
         <4> HIDE DEF old
         <4>1. /\ old \o new \in Seq(Pages) /\ Len(old \o new) = Len(old) + Len(new)
               /\ \A i \in 1 .. Len(old) + Len(new) :
                     (old \o new)[i] = IF i <= Len(old) THEN old[i] ELSE new[i - Len(old)]
               BY <2>7, <1>3, ConcatProperties
         <4> QED BY <4>1, <2>4, Zenon
      <3>2. \A i \in 1 .. Len(old) : i \in 1 .. Len(old) + k /\ i <= Len(old)
            BY <2>2, <1>3
      <3> HIDE DEF pages
      <3> QED BY <3>1, <3>2
   <2>9. \A i \in 1 .. k : pages[Len(old) + i] = new[i] /\ Len(old) + i \in 1 .. Len(old) + k
         BY <2>2, <2>4, <2>7, <1>3
   <2> DEFINE L == Len(old)
   <2>10. L \in Nat BY <1>3
   <2> HIDE DEF pages, L
   <2>11. \A i \in 1 .. L + k : i \in 1 .. L \/ (i - L \in 1 .. k /\ ~(i <= L))
          BY <2>2, <2>10
   <2>12. PagesOf(old) \cap s.free = {}
      <3>1. PagesOf(old) \subseteq ObjectPages(s.memfds) BY DEF PagesOf, ObjectPages, InObject
      <3>2. ObjectPages(s.memfds) \cap s.free = {} BY <1>1 DEF Accounted, Parts
      <3> QED BY <3>1, <3>2
   <2>13. \A i \in 1 .. L : old[i] \in PagesOf(old) BY <1>3 DEF PagesOf, L
   <2>14. PagesOf(pages) = PagesOf(old) \cup P
      <3>1. ASSUME NEW x \in PagesOf(pages) PROVE x \in PagesOf(old) \cup P
         <4>1. PICK i \in 1 .. L + k : pages[i] = x BY <2>8 DEF PagesOf, L
         <4>2. CASE i \in 1 .. L BY <4>1, <4>2, <2>8, <2>13 DEF L
         <4>3. CASE i - L \in 1 .. k /\ ~(i <= L)
            <5>1. pages[i] = new[i - L] BY <4>3, <2>8 DEF L
            <5> QED BY <4>1, <4>3, <5>1, <2>5
         <4> QED BY <4>2, <4>3, <2>11
      <3>2. ASSUME NEW x \in PagesOf(old) PROVE x \in PagesOf(pages)
         <4>1. x \in Pages BY DEF PagesOf
         <4>2. PICK i \in 1 .. L : old[i] = x BY DEF PagesOf, L
         <4>3. i \in 1 .. L + k BY <2>2, <2>10
         <4> QED BY <4>1, <4>2, <4>3, <2>8 DEF PagesOf, L
      <3>3. ASSUME NEW x \in P PROVE x \in PagesOf(pages)
         <4>1. PICK i \in 1 .. k : new[i] = x BY <2>6
         <4>2. pages[L + i] = x /\ L + i \in 1 .. L + k BY <4>1, <2>9 DEF L
         <4> QED BY <4>2, <2>8, <1>2 DEF PagesOf, L
      <3> QED BY <3>1, <3>2, <3>3
   <2>15. Unique(pages)
      <3> SUFFICES ASSUME NEW i \in 1 .. L + k, NEW j \in 1 .. L + k, pages[i] = pages[j]
                   PROVE  i = j
          BY <2>8 DEF Unique, L
      <3>1. CASE i \in 1 .. L /\ j \in 1 .. L
         <4>1. old[i] = old[j] BY <3>1, <2>8 DEF L
         <4>2. Distinct(s.memfds) BY <1>1 DEF Accounted
         <4> QED BY <4>1, <4>2, <3>1 DEF Distinct, L
      <3>2. CASE i \in 1 .. L /\ j - L \in 1 .. k /\ ~(j <= L)
         <4>1. pages[i] \in PagesOf(old) /\ pages[j] \in P
               BY <3>2, <2>5, <2>8, <2>13 DEF L
         <4> QED BY <4>1, <2>12
      <3>3. CASE i - L \in 1 .. k /\ ~(i <= L) /\ j \in 1 .. L
         <4>1. pages[j] \in PagesOf(old) /\ pages[i] \in P
               BY <3>3, <2>5, <2>8, <2>13 DEF L
         <4> QED BY <4>1, <2>12
      <3>4. CASE i - L \in 1 .. k /\ ~(i <= L) /\ j - L \in 1 .. k /\ ~(j <= L)
         <4>1. new[i - L] = new[j - L] BY <3>4, <2>8 DEF L
         <4>2. i - L = j - L BY <4>1, <3>4, <2>4
         <4>3. i \in Int /\ j \in Int OBVIOUS
         <4> QED BY <4>2, <4>3, <2>10
      <3> QED BY <3>1, <3>2, <3>3, <3>4, <2>11
   <2>16. F \in SUBSET Pages /\ F = s.free \ P BY <2>4, <1>2
   <2>17. Resizes(s, t, m, pages, F) BY <2>8, <2>16, <1>1, Resized
   <2> HIDE DEF t, F, old
   <2>18. Accounted(t, Seen(s.as), O)
      <3>1. F \cap PagesOf(pages) = {} BY <2>12, <2>14, <2>16
      <3>2. F \cup PagesOf(pages) = s.free \cup PagesOf(s.memfds[m].pages)
            BY <2>14, <2>16 DEF old
      <3> QED BY <3>1, <3>2, <2>15, <2>17, <1>1, ResizesAccounted
   <2>19. ASSUME NEW c \in Space, Sees(c, s.memfds, sh) PROVE Sees(c, t.memfds, sh)
      <3>1. Len(s.memfds[m].pages) <= Len(pages) /\ Len(pages) \in Nat
            BY <2>2, <2>8, <2>10 DEF old, L
      <3>2. \A i \in 1 .. Len(s.memfds[m].pages) : pages[i] = s.memfds[m].pages[i]
            BY <2>8 DEF old
      <3> QED BY <3>1, <3>2, <2>17, <2>19, <1>1, LongerSees
   <2>20. s.memfds[m].refs # 0
      <3>1. Cardinality(ViewsOf(s.as, m)) \in Nat BY ViewsFinite
      <3>2. s.memfds[m].refs = K[m] + Cardinality(ViewsOf(s.as, m)) BY <1>1 DEF Counted
      <3> QED BY <3>1, <3>2
   <2>21. Len(pages) <= MaxPages
      <3>1. k <= n - L BY <2>2 DEF L
      <3>2. n <= MaxPages /\ n \in Nat BY Sizes
      <3> QED BY <3>1, <3>2, <2>2, <2>8, <2>10, Sizes DEF L
   <2>22. Consistent(t, O, K, sh)
          BY <2>17, <2>18, <2>19, <2>20, <2>21, <1>1, <1>2, ResizesConsistent
   <2>23. t.as = s.as BY <2>17 DEF Resizes
   <2> QED BY <2>19, <2>22, <2>23, <1>4, <1>6 DEF Undisturbed
<1> QED BY <1>5, <1>6

(* No region of c shows one of the pages n + 1 .. l of object m. *)
Spared(c, m, n, l) ==
    \A q \in ViewsOf(c, m) : \A i \in 1 .. c.regions[q].size :
        c.regions[q].start + i \notin n + 1 .. l

(* A shorter object still has the pages that views show of what is left. *)
LEMMA ShorterSees ==
    ASSUME NEW s \in Call, NEW t, NEW m \in Memfds, NEW pages, NEW F,
           Resizes(s, t, m, pages, F),
           Len(pages) < Len(s.memfds[m].pages), Len(pages) \in Nat,
           \A i \in 1 .. Len(pages) : pages[i] = s.memfds[m].pages[i],
           NEW c \in Space, NEW sh, NEW newsh, sh \subseteq newsh, Sees(c, s.memfds, sh),
           m \notin newsh => Spared(c, m, Len(pages), Len(s.memfds[m].pages))
    PROVE  Sees(c, t.memfds, newsh)
<1> SUFFICES ASSUME NEW q \in Slots, c.regions[q].active, c.regions[q].memfd # 0,
                    c.regions[q].memfd \notin newsh,
                    NEW i \in 1 .. c.regions[q].size
             PROVE  /\ c.regions[q].start + i <= Len(t.memfds[c.regions[q].memfd].pages)
                    /\ c.pt[c.regions[q].base + i - 1]
                         = t.memfds[c.regions[q].memfd].pages[c.regions[q].start + i]
    BY DEF Sees
<1> DEFINE k == c.regions[q].memfd
           j == c.regions[q].start + i
           l == Len(s.memfds[k].pages)
           n == Len(pages)
<1>1. c.regions[q] \in Regions BY SpaceFields
<1>2. k \in Memfds /\ c.regions[q].start \in Nat /\ c.regions[q].size \in Nat
      BY <1>1, RegionFields
<1>3. /\ j <= l
      /\ c.pt[c.regions[q].base + i - 1] = s.memfds[k].pages[j]
   <2>1. k \notin sh OBVIOUS
   <2> QED BY <2>1 DEF Sees
<1>4. j \in Nat /\ j >= 1 BY <1>2
<1>5. s.memfds \in [Memfds -> Object] BY CallFields
<1>6. l \in Nat BY <1>2, <1>5, ObjectFields
<1>7. CASE k # m
   <2>1. t.memfds[k] = s.memfds[k] BY <1>2, <1>7 DEF Resizes
   <2> QED BY <2>1, <1>3
<1>8. CASE k = m
   <2>1. t.memfds[k].pages = pages BY <1>8 DEF Resizes
   <2>2. q \in ViewsOf(c, m) BY <1>8 DEF ViewsOf, Live
   <2>3. j \notin n + 1 .. l BY <2>2, <1>8 DEF Spared
   <2> HIDE DEF k, j, l, n
   <2>0. n \in Nat BY DEF n
   <2>4. j \in 1 .. n BY <2>0, <2>3, <1>3, <1>4, <1>6
   <2>5. pages[j] = s.memfds[k].pages[j] BY <2>4, <1>8 DEF n
   <2>6. j <= Len(pages) BY <2>0, <2>4 DEF n
   <2> QED BY <2>1, <2>5, <2>6, <1>3 DEF k, j
<1> QED BY <1>7, <1>8

LEMMA TruncatedConsistent ==
    ASSUME NEW s, NEW O, NEW K \in [Memfds -> Nat], NEW sh, NEW newsh,
           Consistent(s, O, K, sh), NEW m \in Memfds, K[m] >= 1,
           NEW n \in Nat, n < Len(s.memfds[m].pages), sh \subseteq newsh,
           m \notin newsh => Spared(s.as, m, n, Len(s.memfds[m].pages))
    PROVE  LET old == s.memfds[m].pages
               t == [s EXCEPT !.free = @ \cup Range(SubSeq(old, n + 1, Len(old))),
                              !.memfds[m].pages = SubSeq(@, 1, n)]
           IN  /\ Consistent(t, O, K, newsh)
               /\ \A c \in Space :
                     /\ Sees(c, s.memfds, sh)
                     /\ m \notin newsh => Spared(c, m, n, Len(old))
                     => Sees(c, t.memfds, newsh)
<1> DEFINE old == s.memfds[m].pages
           L == Len(old)
           cut == SubSeq(old, n + 1, L)
           pages == SubSeq(old, 1, n)
           F == s.free \cup Range(cut)
           t == [s EXCEPT !.free = F, !.memfds[m].pages = pages]
           T == [s EXCEPT !.free = @ \cup Range(SubSeq(old, n + 1, Len(old))),
                          !.memfds[m].pages = SubSeq(@, 1, n)]
<1>1. /\ s \in Call /\ Accounted(s, Seen(s.as), O) /\ Objects(s.memfds)
      /\ Counted(s, K) /\ Sees(s.as, s.memfds, sh)
      BY DEF Consistent
<1>2. /\ s.free \subseteq Pages /\ s.memfds \in [Memfds -> Object] /\ s.as \in Space
      BY <1>1, CallFields
<1>3. old \in Seq(Pages) /\ L \in Nat /\ n < L /\ \A i \in 1 .. L : old[i] \in Pages
      BY <1>2, ObjectFields
<1>4. T = t BY Zenon
<1> HIDE DEF T, old, L
<1>5. /\ pages \in Seq(Pages) /\ Len(pages) = n
      /\ \A i \in 1 .. n : pages[i] = old[i]
   <2>1. \A i \in 1 .. n : old[i] \in Pages BY <1>3
   <2>2. /\ pages \in Seq(Pages) /\ Len(pages) = IF 1 <= n THEN n - 1 + 1 ELSE 0
         /\ \A i \in 1 .. n - 1 + 1 : pages[i] = old[1 + i - 1]
         BY <2>1, SubSeqProperties
   <2>3. n - 1 + 1 = n /\ \A i \in 1 .. n : 1 + i - 1 = i OBVIOUS
   <2> HIDE DEF pages
   <2> QED BY <2>2, <2>3
<1>6. /\ cut \in Seq(Pages) /\ Len(cut) = L - n
      /\ \A i \in 1 .. L - n : cut[i] = old[n + i]
   <2>1. \A i \in n + 1 .. L : old[i] \in Pages BY <1>3
   <2>2. /\ cut \in Seq(Pages) /\ Len(cut) = IF n + 1 <= L THEN L - (n + 1) + 1 ELSE 0
         /\ \A i \in 1 .. L - (n + 1) + 1 : cut[i] = old[(n + 1) + i - 1]
         BY <2>1, <1>3, SubSeqProperties
   <2>3. /\ L - (n + 1) + 1 = L - n /\ n + 1 <= L
         /\ \A i \in 1 .. L - n : (n + 1) + i - 1 = n + i
         BY <1>3
   <2> HIDE DEF cut
   <2> QED BY <2>2, <2>3
<1> HIDE DEF cut, pages
<1>7. Range(cut) = PagesOf(cut) BY <1>6, RangeIsPagesOf
<1>8. Unique(old) BY <1>1 DEF Accounted, Distinct, Unique, old
<1>9. PagesOf(pages) = {x \in Pages : \E i \in 1 .. n : old[i] = x}
      BY <1>5 DEF PagesOf
<1>10. PagesOf(cut) = {x \in Pages : \E i \in n + 1 .. L : old[i] = x}
   <2>1. \A i \in 1 .. L - n : n + i \in n + 1 .. L BY <1>3
   <2>2. \A i \in n + 1 .. L : i - n \in 1 .. L - n /\ n + (i - n) = i BY <1>3
   <2>3. ASSUME NEW x \in PagesOf(cut) PROVE x \in Pages /\ \E i \in n + 1 .. L : old[i] = x
         BY <2>1, <1>6 DEF PagesOf
   <2>4. ASSUME NEW x \in Pages, NEW i \in n + 1 .. L, old[i] = x PROVE x \in PagesOf(cut)
      <3>1. i - n \in 1 .. L - n /\ n + (i - n) = i BY <2>2
      <3>2. cut[i - n] = x BY <3>1, <2>4, <1>6
      <3> QED BY <3>1, <3>2, <1>6 DEF PagesOf
   <2> QED BY <2>3, <2>4
<1>11. \A i \in 1 .. L : i \in 1 .. n \/ i \in n + 1 .. L BY <1>3
<1>12. /\ \A i \in 1 .. n : i \in 1 .. L
       /\ \A i \in n + 1 .. L : i \in 1 .. L
       /\ \A i \in 1 .. n, j \in n + 1 .. L : i # j
       BY <1>3
<1>13. PagesOf(pages) \cup PagesOf(cut) = PagesOf(old)
       BY <1>9, <1>10, <1>11, <1>12 DEF PagesOf, L
<1>14. PagesOf(pages) \cap PagesOf(cut) = {}
   <2> SUFFICES ASSUME NEW i \in 1 .. n, NEW j \in n + 1 .. L, old[i] = old[j] PROVE FALSE
       BY <1>9, <1>10
   <2> QED BY <1>8, <1>12 DEF Unique, L
<1>15. Unique(pages) BY <1>5, <1>8, <1>12 DEF Unique, L
<1>16. PagesOf(old) \cap s.free = {}
   <2>1. PagesOf(old) \subseteq ObjectPages(s.memfds) BY DEF PagesOf, ObjectPages, InObject, old
   <2>2. ObjectPages(s.memfds) \cap s.free = {} BY <1>1 DEF Accounted, Parts
   <2> QED BY <2>1, <2>2
<1>17. F = s.free \cup PagesOf(cut) /\ F \in SUBSET Pages
   <2>1. PagesOf(cut) \subseteq Pages BY DEF PagesOf
   <2> QED BY <2>1, <1>2, <1>7
<1>18. Resizes(s, t, m, pages, F) BY <1>1, <1>5, <1>17, Resized
<1> HIDE DEF t, F
<1>19. Accounted(t, Seen(s.as), O)
   <2>1. F \cap PagesOf(pages) = {} BY <1>13, <1>14, <1>16, <1>17
   <2>2. F \cup PagesOf(pages) = s.free \cup PagesOf(s.memfds[m].pages)
         BY <1>13, <1>17 DEF old
   <2> QED BY <2>1, <2>2, <1>1, <1>15, <1>18, ResizesAccounted
<1>20. ASSUME NEW c \in Space, Sees(c, s.memfds, sh),
              m \notin newsh => Spared(c, m, n, Len(s.memfds[m].pages))
       PROVE  Sees(c, t.memfds, newsh)
   <2>1. \A i \in 1 .. Len(pages) : pages[i] = s.memfds[m].pages[i] BY <1>5 DEF old
   <2>2. Len(pages) \in Nat /\ Len(pages) < Len(s.memfds[m].pages) BY <1>5
   <2>3. m \notin newsh => Spared(c, m, Len(pages), Len(s.memfds[m].pages)) BY <1>5, <1>20
   <2> QED BY <2>1, <2>2, <2>3, <1>1, <1>18, <1>20, ShorterSees
<1>21. s.memfds[m].refs # 0
   <2>1. Cardinality(ViewsOf(s.as, m)) \in Nat BY ViewsFinite
   <2>2. s.memfds[m].refs = K[m] + Cardinality(ViewsOf(s.as, m)) BY <1>1 DEF Counted
   <2> QED BY <2>1, <2>2
<1>22. Len(pages) <= MaxPages
   <2>1. L <= MaxPages BY <1>1 DEF Objects, L, old
   <2> QED BY <2>1, <1>3, <1>5, Sizes
<1>23. Sees(s.as, t.memfds, newsh) BY <1>1, <1>2, <1>20
<1>24. Consistent(t, O, K, newsh)
       BY <1>18, <1>19, <1>21, <1>22, <1>23, ResizesConsistent
<1> QED BY <1>4, <1>20, <1>24 DEF T, old

(* Only a count of references changes. *)
LEMMA RefsSet ==
    ASSUME NEW s \in Call, NEW m \in Memfds, NEW k \in Nat
    PROVE  LET t == [s EXCEPT !.memfds[m].refs = k]
           IN  /\ t \in Call /\ t.as = s.as /\ t.free = s.free
               /\ t.memfds[m].refs = k /\ t.memfds[m].pages = s.memfds[m].pages
               /\ \A j \in Memfds : j # m => t.memfds[j] = s.memfds[j]
<1> DEFINE o == [s.memfds[m] EXCEPT !.refs = k]
           mf == [s.memfds EXCEPT ![m] = o]
           t == [s EXCEPT !.memfds[m].refs = k]
<1>1. s.memfds \in [Memfds -> Object] BY CallFields
<1>2. s.memfds[m] \in Object BY <1>1, ObjectFields
<1>3. o \in Object /\ o.refs = k /\ o.pages = s.memfds[m].pages BY <1>2 DEF Object
<1>4. t = [s EXCEPT !.memfds = mf] BY <1>1 DEF Call
<1> HIDE DEF o
<1>5. mf \in [Memfds -> Object] BY <1>1, <1>3
<1>6. mf[m] = o /\ \A j \in Memfds : j # m => mf[j] = s.memfds[j] BY <1>1
<1> HIDE DEF mf, t
<1>7. t \in Call /\ t.as = s.as /\ t.free = s.free /\ t.memfds = mf BY <1>4, <1>5 DEF Call
<1> QED BY <1>3, <1>6, <1>7 DEF t

LEMMA SeesSame ==
    ASSUME NEW c \in Space, NEW mf, NEW new, NEW sh, Sees(c, mf, sh),
           \A m \in Memfds : new[m].pages = mf[m].pages
    PROVE  Sees(c, new, sh)
<1>1. \A q \in Slots : c.regions[q].memfd \in Memfds \cup {0}
   <2> TAKE q \in Slots
   <2>1. c.regions[q] \in Regions BY SpaceFields
   <2> QED BY <2>1, RegionFields
<1>2. \A q \in Slots : c.regions[q].memfd # 0 =>
          new[c.regions[q].memfd].pages = mf[c.regions[q].memfd].pages
      BY <1>1
<1> QED BY <1>2 DEF Sees

ViewOf(base, n, m, start) ==
    [active |-> TRUE, base |-> base, size |-> n, memfd |-> m, start |-> start]

LEMMA ViewType ==
    ASSUME NEW base \in Virt, NEW n \in Virt, NEW m \in Memfds,
           NEW start \in 0 .. MaxPages
    PROVE  LET g == ViewOf(base, n, m, start)
           IN  /\ g \in Regions /\ g.active /\ g.base = base /\ g.size = n
               /\ g.memfd = m /\ g.start = start /\ RegionSpan(g) = Span(base, n)
BY DEF ViewOf, Regions, RegionSpan

LEMMA ViewConsistent ==
    ASSUME NEW s, NEW O, NEW K \in [Memfds -> Nat], NEW sh, Consistent(s, O, K, sh),
           NEW m \in Memfds, K[m] >= 1, NEW start \in 0 .. MaxPages, NEW n \in Nat \ {0},
           CanView(s, m, start, n)
    PROVE  LET t == WithView(s, m, start, n)
           IN  Consistent(t, O, K, sh) /\ Undisturbed(K, s.memfds, t.memfds, sh, sh)
<1> DEFINE old == s.memfds[m].pages
           b == Min(Bases(s.as, n))
           r == Min(FreeSlots(s.as))
           pages == SubSeq(old, start + 1, start + n)
           M == Mapped(s, b, pages)
           g == ViewOf(b, n, m, start)
           R == [M EXCEPT !.as.regions[r] = g]
           N == [R EXCEPT !.as.next = b + n]
           t == [N EXCEPT !.memfds[m].refs = N.memfds[m].refs + 1]
           V == Seen(s.as) \cup Span(b, n)
<1>1. /\ s \in Call /\ Accounted(s, Seen(s.as), O) /\ Shaped(s.as)
      /\ Objects(s.memfds) /\ Counted(s, K) /\ Sees(s.as, s.memfds, sh)
      BY DEF Consistent
<1>2. /\ s.as \in Space /\ s.memfds \in [Memfds -> Object]
      /\ s.free \subseteq Pages /\ IsFiniteSet(s.free) /\ Cardinality(s.free) \in Nat
      BY <1>1, CallFields
<1>3. /\ Len(old) >= start + n /\ FreeSlots(s.as) # {} /\ Bases(s.as, n) # {}
      /\ Cardinality(s.free) >= TableCost(s.as)
      BY DEF CanView
<1>4. r \in Slots /\ ~Live(s.as, r) BY <1>3, SlotFound
<1>5. /\ b \in Virt /\ Within(b, n) /\ n \in Virt
      /\ \A va \in Span(b, n) : va > Low
      /\ b + n \in Low + 1 .. Low + VmSize + 1
      /\ Vacant(s.as, Span(b, n))
      /\ \A q \in Slots : Live(s.as, q) => RegionSpan(s.as.regions[q]) \cap Span(b, n) = {}
      BY <1>1, <1>2, <1>3, BaseFound
<1> HIDE DEF b, r, old
<1>6. old \in Seq(Pages) /\ Len(old) \in Nat /\ \A i \in 1 .. Len(old) : old[i] \in Pages
      BY <1>2, ObjectFields DEF old
<1>7. start \in Nat /\ b \in Nat BY <1>5, Sizes DEF Virt
<1>8. /\ pages \in Seq(Pages) /\ Len(pages) = n
      /\ \A i \in 1 .. n : pages[i] = old[start + i]
   <2>1. \A i \in start + 1 .. start + n : old[i] \in Pages BY <1>3, <1>6, <1>7
   <2>2. /\ pages \in Seq(Pages)
         /\ Len(pages) = IF start + 1 <= start + n THEN (start + n) - (start + 1) + 1 ELSE 0
         /\ \A i \in 1 .. (start + n) - (start + 1) + 1 : pages[i] = old[(start + 1) + i - 1]
         BY <2>1, <1>7, SubSeqProperties
   <2>3. /\ (start + n) - (start + 1) + 1 = n /\ start + 1 <= start + n
         /\ \A i \in 1 .. n : (start + 1) + i - 1 = start + i
         BY <1>7
   <2> HIDE DEF pages
   <2> QED BY <2>2, <2>3
<1>9. s.as.table = Absent => s.free # {}
   <2> SUFFICES ASSUME s.as.table = Absent, s.free = {} PROVE FALSE OBVIOUS
   <2>1. TableCost(s.as) = 1 BY DEF TableCost
   <2>2. Cardinality(s.free) = 0 BY FS_EmptySet
   <2> QED BY <2>1, <2>2, <1>3
<1> HIDE DEF pages
<1>10. PICK table \in Pages : Maps(s, M, b, pages, table)
       BY <1>1, <1>5, <1>8, <1>9, MappedEffect
<1> HIDE DEF M
<1>11. /\ M \in Call /\ M.memfds = s.memfds /\ M.as.regions = s.as.regions
       /\ M.as.heap = s.as.heap /\ M.as.stack = s.as.stack
       /\ \A va \in Virt : M.as.pt[va] = IF va \in Span(b, n) THEN pages[va - b + 1]
                                                              ELSE s.as.pt[va]
       BY <1>8, <1>10 DEF Maps
<1>12. Accounted(M, V, O)
   <2>1. \A va \in Virt : va \in V /\ va \notin Seen(s.as) => s.as.pt[va] = Absent
         BY <1>5 DEF Vacant
   <2>2. Accounted(s, V, O)
      <3> HIDE DEF V
      <3>1. \A va \in Virt : va \in Seen(s.as) /\ va \notin V => s.as.pt[va] = Absent
            BY DEF V
      <3> QED BY <2>1, <3>1, <1>1, AccountedElsewhere
   <2>3. Span(b, Len(pages)) \subseteq V BY <1>8
   <2> HIDE DEF V
   <2> QED BY <2>2, <2>3, <1>1, <1>5, <1>8, <1>10, MapsShared
<1>13. /\ g \in Regions /\ g.active /\ g.base = b /\ g.size = n
       /\ g.memfd = m /\ g.start = start /\ RegionSpan(g) = Span(b, n)
       BY <1>5, ViewType
<1> HIDE DEF g, V
<1>14. FitsIn(s.as, g) BY <1>5, <1>13 DEF FitsIn
<1>15. /\ SamePages(M, R) /\ R.as.regions = [M.as.regions EXCEPT ![r] = g]
       /\ R.as.heap = M.as.heap /\ R.as.stack = M.as.stack
       BY <1>4, <1>11, <1>13, RegionSet
<1>16. R \in Call BY <1>15 DEF SamePages
<1>17. WithView(s, m, start, n) = [R EXCEPT !.as.next = b + n, !.memfds[m].refs = @ + 1]
       BY Zenon DEF WithView, Recorded, R, g, ViewOf, M, pages, b, r, old
<1> HIDE DEF R
<1>18. SamePages(R, N) /\ N.as.regions = R.as.regions /\ N.as.heap = R.as.heap /\ N.as.stack = R.as.stack
       BY <1>5, <1>16, NextSet
<1>19. WithView(s, m, start, n) = t BY <1>16, <1>17 DEF Call
<1> HIDE DEF N
<1>20. N \in Call /\ N.memfds = s.memfds BY <1>11, <1>15, <1>18 DEF SamePages
<1>21. s.memfds[m].refs \in Nat BY <1>2, ObjectFields
<1>22. /\ t \in Call /\ t.as = N.as /\ t.free = N.free
       /\ t.memfds[m].refs = s.memfds[m].refs + 1
       /\ t.memfds[m].pages = s.memfds[m].pages
       /\ \A j \in Memfds : j # m => t.memfds[j] = s.memfds[j]
   <2> DEFINE k == N.memfds[m].refs + 1
              u == [N EXCEPT !.memfds[m].refs = k]
   <2>1. k \in Nat /\ k = s.memfds[m].refs + 1 BY <1>20, <1>21
   <2>2. t = u OBVIOUS
   <2> HIDE DEF k
   <2>3. /\ u \in Call /\ u.as = N.as /\ u.free = N.free
         /\ u.memfds[m].refs = k /\ u.memfds[m].pages = N.memfds[m].pages
         /\ \A j \in Memfds : j # m => u.memfds[j] = N.memfds[j]
         BY <2>1, <1>20, RefsSet
   <2> HIDE DEF t, u
   <2> QED BY <2>1, <2>2, <2>3, <1>20
<1> HIDE DEF t
<1>23. \A j \in Memfds : t.memfds[j].pages = s.memfds[j].pages BY <1>22
<1>24. /\ t.as.regions = [s.as.regions EXCEPT ![r] = g] /\ t.as.heap = s.as.heap /\ t.as.stack = s.as.stack
       /\ t.as.pt = M.as.pt /\ t.as.table = M.as.table /\ t.free = M.free
       BY <1>11, <1>15, <1>18, <1>22 DEF SamePages
<1>25. \A va \in Span(b, n) : pages[va - b + 1] \in Pages
   <2> TAKE va \in Span(b, n)
   <2>1. va - b + 1 \in 1 .. n BY <1>7 DEF Span
   <2> QED BY <2>1, <1>8
<1>26. Adds(s.as, t.as, r, g)
   <2>1. \A va \in Virt : IF va \in Span(b, n) THEN t.as.pt[va] # Absent
                                               ELSE t.as.pt[va] = s.as.pt[va]
         BY <1>11, <1>24, <1>25, PagesPositive
   <2> QED BY <2>1, <1>13, <1>24 DEF Adds
<1>27. t.as \in Space BY <1>22, CallFields
<1>28. /\ Shaped(t.as)
       /\ Seen(t.as) = Seen(s.as) \cup (IF g.memfd = 0 THEN {} ELSE RegionSpan(g))
       /\ \A k \in Memfds : ViewsOf(t.as, k) =
             ViewsOf(s.as, k) \cup (IF g.memfd = k THEN {r} ELSE {})
       BY <1>1, <1>2, <1>4, <1>14, <1>26, <1>27, AddsShaped
<1>29. Accounted(t, Seen(t.as), O)
   <2>1. Seen(t.as) = V BY <1>13, <1>28, NoObjectZero DEF V
   <2>2. \A j \in Memfds : t.memfds[j].pages = M.memfds[j].pages BY <1>11, <1>23
   <2>3. Accounted(t, V, O) BY <2>2, <1>12, <1>24, AccountedSame
   <2> QED BY <2>1, <2>3
<1>30. Sees(t.as, t.memfds, sh)
   <2>1. ASSUME NEW i \in 1 .. n
         PROVE  start + i <= Len(old) /\ t.as.pt[b + i - 1] = old[start + i]
      <3>1. start + i <= Len(old) BY <1>3, <1>6, <1>7
      <3>2. b + i - 1 \in Span(b, n) /\ (b + i - 1) - b + 1 = i BY <1>7 DEF Span
      <3>3. b + i - 1 \in Virt BY <3>2, <1>5 DEF Within
      <3>4. t.as.pt[b + i - 1] = pages[i] BY <3>2, <3>3, <1>11, <1>24
      <3> QED BY <3>1, <3>4, <1>8
   <2>2. \A i \in 1 .. g.size : /\ g.start + i <= Len(s.memfds[g.memfd].pages)
                                /\ t.as.pt[g.base + i - 1] = s.memfds[g.memfd].pages[g.start + i]
         BY <2>1, <1>13 DEF old
   <2>3. Sees(t.as, s.memfds, sh)
         BY <2>2, <1>1, <1>2, <1>4, <1>14, <1>26, <1>27, AddsSees
   <2> QED BY <2>3, <1>23, <1>27, SeesSame
<1>31. Counted(t, K)
   <2> SUFFICES ASSUME NEW k \in Memfds
                PROVE  t.memfds[k].refs = K[k] + Cardinality(ViewsOf(t.as, k))
       BY DEF Counted
   <2>1. s.memfds[k].refs = K[k] + Cardinality(ViewsOf(s.as, k)) BY <1>1 DEF Counted
   <2>2. CASE k # m
      <3>1. ViewsOf(t.as, k) = ViewsOf(s.as, k) BY <2>2, <1>13, <1>28
      <3> QED BY <2>1, <2>2, <3>1, <1>22
   <2>3. CASE k = m
      <3>1. ViewsOf(t.as, k) = ViewsOf(s.as, k) \cup {r} BY <2>3, <1>13, <1>28
      <3>2. r \notin ViewsOf(s.as, k) BY <1>4 DEF ViewsOf
      <3>3. IsFiniteSet(ViewsOf(s.as, k)) /\ Cardinality(ViewsOf(s.as, k)) \in Nat
            BY ViewsFinite
      <3>4. Cardinality(ViewsOf(t.as, k)) = Cardinality(ViewsOf(s.as, k)) + 1
            BY <3>1, <3>2, <3>3, FS_AddElement
      <3>5. K[k] \in Nat OBVIOUS
      <3> QED BY <2>1, <2>3, <3>3, <3>4, <3>5, <1>22
   <2> QED BY <2>2, <2>3
<1>32. Objects(t.memfds)
   <2>1. t.memfds[m].refs # 0 BY <1>21, <1>22
   <2> QED BY <2>1, <1>1, <1>22 DEF Objects
<1>33. Consistent(t, O, K, sh)
       BY <1>22, <1>28, <1>29, <1>30, <1>31, <1>32 DEF Consistent
<1>34. Undisturbed(K, s.memfds, t.memfds, sh, sh) BY <1>23, SeesSame DEF Undisturbed
<1> QED BY <1>19, <1>33, <1>34

-----------------------------------------------------------------------------
(* Descriptors that open and close *)

(* A reference of others goes. *)
LEMMA DropConsistent ==
    ASSUME NEW s, NEW O, NEW K \in [Memfds -> Nat], NEW sh, Consistent(s, O, K, sh),
           NEW m \in Memfds, K[m] >= 1, NEW L \in [Memfds -> Nat],
           L[m] = K[m] - 1, \A j \in Memfds : j # m => L[j] = K[j]
    PROVE  LET t == MemfdReleased(s, m)
           IN  /\ Consistent(t, O, L, sh) /\ t.as = s.as
               /\ Undisturbed(L, s.memfds, t.memfds, sh, sh)
<1> DEFINE t == MemfdReleased(s, m)
           v == Cardinality(ViewsOf(s.as, m))
           x == s.memfds[m].refs
<1>1. /\ s \in Call /\ Accounted(s, Seen(s.as), O) /\ Shaped(s.as)
      /\ Objects(s.memfds) /\ Counted(s, K) /\ Sees(s.as, s.memfds, sh)
      BY DEF Consistent
<1>2. Releases(s, t, m) BY <1>1, ReleasedEffect
<1> HIDE DEF t
<1>3. /\ t \in Call /\ t.as = s.as
      /\ \A k \in Memfds : k # m => t.memfds[k] = s.memfds[k]
      /\ IF x > 1 THEN t.memfds[m].refs = x - 1 ELSE t.memfds[m].refs = 0
      BY <1>2 DEF Releases
<1>4. s.as \in Space BY <1>1, CallFields
<1>5. IsFiniteSet(ViewsOf(s.as, m)) /\ v \in Nat BY ViewsFinite
<1>6. x = K[m] + v BY <1>1 DEF Counted
<1>7. K[m] \in Nat /\ K[m] >= 1 /\ L[m] = K[m] - 1 OBVIOUS
<1>8. v = 0 => ViewsOf(s.as, m) = {} BY <1>5, FS_EmptySet
<1>9. t.memfds[m].refs = L[m] + v
   <2> HIDE DEF x, v
   <2> QED BY <1>3, <1>5, <1>6, <1>7
<1>10. x > 1 \/ v = 0
   <2> HIDE DEF x, v
   <2> QED BY <1>5, <1>6, <1>7
<1>11. L[m] >= 1 => x > 1
   <2> HIDE DEF x, v
   <2> QED BY <1>5, <1>6, <1>7
<1>12. Accounted(t, Seen(t.as), O) BY <1>1, <1>2, <1>3, ReleasesAccounted
<1>13. Objects(t.memfds) BY <1>1, <1>2, ReleasesObjects
<1>14. Sees(t.as, t.memfds, sh) BY <1>1, <1>2, <1>3, <1>4, <1>8, <1>10, ReleasesSees
<1>15. Counted(t, L) BY <1>1, <1>3, <1>9 DEF Counted
<1>16. Consistent(t, O, L, sh) BY <1>1, <1>3, <1>12, <1>13, <1>14, <1>15 DEF Consistent
<1>17. ASSUME NEW c \in Space, Sees(c, s.memfds, sh),
              \A j \in Memfds : ViewsOf(c, j) # {} => L[j] >= 1
       PROVE  Sees(c, t.memfds, sh)
   <2>1. s.memfds[m].refs > 1 \/ ViewsOf(c, m) = {} BY <1>11, <1>17
   <2> QED BY <2>1, <1>1, <1>2, <1>17, ReleasesSees
<1>18. Undisturbed(L, s.memfds, t.memfds, sh, sh) BY <1>17 DEF Undisturbed
<1> QED BY <1>3, <1>16, <1>18 DEF t

(* An object without references comes to life. *)
LEMMA CreatedConsistent ==
    ASSUME NEW s, NEW O, NEW K \in [Memfds -> Nat], NEW sh, Consistent(s, O, K, sh),
           NEW m \in Memfds, s.memfds[m].refs = 0,
           NEW L \in [Memfds -> Nat],
           L[m] = 1, \A j \in Memfds : j # m => L[j] = K[j],
           NEW t, t.free = s.free, t.as = s.as,
           t.memfds = [s.memfds EXCEPT ![m] = [refs |-> 1, pages |-> <<>>]], t \in Call
    PROVE  /\ Consistent(t, O, L, sh \ {m})
           /\ Undisturbed(K, s.memfds, t.memfds, sh, sh \ {m})
<1> DEFINE o == [refs |-> 1, pages |-> <<>>]
           v == Cardinality(ViewsOf(s.as, m))
<1>1. /\ s \in Call /\ Accounted(s, Seen(s.as), O) /\ Shaped(s.as)
      /\ Objects(s.memfds) /\ Counted(s, K) /\ Sees(s.as, s.memfds, sh)
      BY DEF Consistent
<1>2. s.as \in Space /\ s.memfds \in [Memfds -> Object] BY <1>1, CallFields
<1>3. s.memfds[m].pages = <<>> BY <1>1 DEF Objects
<1>4. o.refs = 1 /\ o.pages = <<>> OBVIOUS
<1> HIDE DEF o
<1>5. t.memfds[m] = o /\ \A j \in Memfds : j # m => t.memfds[j] = s.memfds[j]
      BY <1>2 DEF o
<1>6. IsFiniteSet(ViewsOf(s.as, m)) /\ v \in Nat BY ViewsFinite
<1>7. K[m] \in Nat /\ 0 = K[m] + v BY <1>1 DEF Counted
<1>8. K[m] = 0 /\ v = 0
   <2> HIDE DEF v
   <2> QED BY <1>6, <1>7
<1>9. ViewsOf(s.as, m) = {} BY <1>6, <1>8, FS_EmptySet
<1>10. \A j \in Memfds : t.memfds[j].pages = s.memfds[j].pages BY <1>3, <1>4, <1>5
<1>11. Accounted(t, Seen(t.as), O)
   <2>1. Accounted(t, Seen(s.as), O) BY <1>1, <1>10, AccountedSame
   <2> QED BY <2>1
<1>12. ASSUME NEW c \in Space, Sees(c, s.memfds, sh), ViewsOf(c, m) = {}
       PROVE  Sees(c, t.memfds, sh \ {m})
   <2> DEFINE mf == t.memfds
   <2>1. \A j \in Memfds : mf[j].pages = s.memfds[j].pages BY <1>10
   <2> HIDE DEF mf
   <2>2. Sees(c, mf, sh) BY <2>1, <1>12, SeesSame
   <2>3. Sees(c, mf, sh \ {m}) BY <2>2, <1>12 DEF Sees, ViewsOf, Live
   <2> QED BY <2>3 DEF mf
<1>13. Sees(t.as, t.memfds, sh \ {m}) BY <1>1, <1>2, <1>9, <1>12
<1>14. Objects(t.memfds)
   <2>1. Len(t.memfds[m].pages) <= MaxPages BY <1>4, <1>5, EmptyObject, Sizes
   <2> QED BY <2>1, <1>1, <1>4, <1>5 DEF Objects
<1>15. Counted(t, L)
   <2>1. t.memfds[m].refs = L[m] + Cardinality(ViewsOf(t.as, m))
      <3>1. Cardinality(ViewsOf(t.as, m)) = 0 BY <1>8
      <3> QED BY <3>1, <1>4, <1>5
   <2> QED BY <2>1, <1>1, <1>5 DEF Counted
<1>16. Consistent(t, O, L, sh \ {m})
       BY <1>1, <1>11, <1>13, <1>14, <1>15 DEF Consistent
<1>17. ASSUME NEW c \in Space, Sees(c, s.memfds, sh),
              \A j \in Memfds : ViewsOf(c, j) # {} => K[j] >= 1
       PROVE  Sees(c, t.memfds, sh \ {m})
   <2>1. ~(K[m] >= 1) BY <1>8
   <2>2. ViewsOf(c, m) = {} BY <2>1, <1>17
   <2> QED BY <2>2, <1>12, <1>17
<1> QED BY <1>16, <1>17 DEF Undisturbed

(* The objects whose last descriptor the process closes. *)
LastCloses(p, ms) == {m \in Memfds : m \in ms /\ holders[m] = {p}}

LEMMA DroppedDef ==
    ASSUME NEW s \in Call, NEW p, NEW ms
    PROVE  LET T == DroppedUpTo(s, p, ms)
           IN  /\ T[0] = s
               /\ \A k \in Memfds : T[k] = IF k \in LastCloses(p, ms)
                                             THEN MemfdReleased(T[k - 1], k) ELSE T[k - 1]
<1> DEFINE F == [z \in (1 .. NMemfds) \X Call |->
                    IF z[1] \in ms /\ holders[z[1]] = {p} THEN MemfdReleased(z[2], z[1]) ELSE z[2]]
           T == DroppedUpTo(s, p, ms)
<1>1. ASSUME NEW j \in 1 .. NMemfds, NEW x \in Call
      PROVE  MemfdReleased(x, j) \in Call
   <2>1. Releases(x, MemfdReleased(x, j), j) BY ReleasedEffect DEF Memfds
   <2> QED BY <2>1 DEF Releases
<1>2. F \in [(1 .. NMemfds) \X Call -> Call] BY <1>1
<1>3. \A j \in 1 .. NMemfds, x \in Call :
          F[<<j, x>>] = IF j \in ms /\ holders[j] = {p} THEN MemfdReleased(x, j) ELSE x
      OBVIOUS
<1> HIDE DEF F
<1>4. PICK g : Loop(NMemfds, Call, F, s, g) BY <1>2, Sizes, LoopExists
<1>5. ASSUME NEW j \in 0 .. NMemfds
      PROVE  g[j] = IF j = 0 THEN s
                    ELSE IF j \in ms /\ holders[j] = {p} THEN MemfdReleased(g[j - 1], j)
                    ELSE g[j - 1]
   <2>1. CASE j = 0 BY <2>1, <1>4 DEF Loop
   <2>2. CASE j # 0
      <3>1. j \in 1 .. NMemfds /\ j - 1 \in 0 .. NMemfds BY <2>2, Sizes
      <3>2. g[j] = F[<<j, g[j - 1]>>] /\ g[j - 1] \in Call BY <3>1, <1>4 DEF Loop
      <3> QED BY <3>1, <3>2, <2>2, <1>3
   <2> QED BY <2>1, <2>2
<1>6. g = [j \in 0 .. NMemfds |-> g[j]] BY <1>4 DEF Loop
<1>7. g = [j \in 0 .. NMemfds |->
              IF j = 0 THEN s
              ELSE IF j \in ms /\ holders[j] = {p} THEN MemfdReleased(g[j - 1], j)
              ELSE g[j - 1]]
      BY <1>5, <1>6, Zenon
<1>8. T = [j \in 0 .. NMemfds |->
              IF j = 0 THEN s
              ELSE IF j \in ms /\ holders[j] = {p} THEN MemfdReleased(T[j - 1], j)
              ELSE T[j - 1]]
      BY <1>7, Zenon DEF DroppedUpTo
<1> HIDE DEF T
<1>9. T[0] = s BY <1>8, Sizes
<1>10. ASSUME NEW k \in Memfds
       PROVE  T[k] = IF k \in LastCloses(p, ms) THEN MemfdReleased(T[k - 1], k) ELSE T[k - 1]
   <2>1. k \in 0 .. NMemfds /\ k # 0 BY Sizes DEF Memfds
   <2> QED BY <2>1, <1>8 DEF LastCloses
<1> QED BY <1>9, <1>10 DEF T

(* Each last descriptor takes one reference with it. *)
LEMMA DroppedConsistent ==
    ASSUME NEW s, NEW O, NEW K \in [Memfds -> Nat], NEW sh, Consistent(s, O, K, sh),
           NEW p, NEW ms, \A m \in LastCloses(p, ms) : K[m] >= 1,
           NEW L \in [Memfds -> Nat],
           \A m \in Memfds : L[m] = IF m \in LastCloses(p, ms) THEN K[m] - 1 ELSE K[m]
    PROVE  LET t == Dropped(s, p, ms)
           IN  /\ Consistent(t, O, L, sh) /\ t.as = s.as
               /\ Undisturbed(L, s.memfds, t.memfds, sh, sh)
<1> DEFINE D == LastCloses(p, ms)
           T == DroppedUpTo(s, p, ms)
           Left(k) == [m \in Memfds |-> IF m \in D /\ m <= k THEN K[m] - 1 ELSE K[m]]
           I == {k \in 0 .. NMemfds : /\ Consistent(T[k], O, Left(k), sh) /\ T[k].as = s.as
                                      /\ Undisturbed(L, s.memfds, T[k].memfds, sh, sh)}
<1>1. s \in Call BY DEF Consistent
<1>2. /\ T[0] = s
      /\ \A k \in Memfds : T[k] = IF k \in D THEN MemfdReleased(T[k - 1], k) ELSE T[k - 1]
      BY <1>1, DroppedDef
<1>3. Dropped(s, p, ms) = T[NMemfds] BY DEF Dropped
<1>4. D \subseteq Memfds /\ \A m \in D : K[m] >= 1 BY DEF LastCloses
<1>5. \A m \in Memfds : m \in Nat /\ m >= 1 /\ m <= NMemfds BY Sizes DEF Memfds
<1>6. \A m \in Memfds : L[m] = IF m \in D THEN K[m] - 1 ELSE K[m] OBVIOUS
<1> HIDE DEF D, T
<1>7. \A k \in Nat : Left(k) \in [Memfds -> Nat] BY <1>4
<1>8. \A k \in Nat : \A m \in Memfds :
          Left(k)[m] = IF m \in D /\ m <= k THEN K[m] - 1 ELSE K[m]
      OBVIOUS
<1>9. Left(0) = K
   <2>1. \A m \in Memfds : Left(0)[m] = K[m] BY <1>5
   <2> QED BY <2>1
<1>10. Left(NMemfds) = L
   <2>1. \A m \in Memfds : Left(NMemfds)[m] = L[m] BY <1>5, <1>6
   <2> QED BY <2>1
<1> HIDE DEF Left
<1>11. ASSUME NEW k \in 0 .. NMemfds, \A i \in 0 .. NMemfds : i < k => i \in I
       PROVE  k \in I
   <2>1. CASE k = 0
      <3>1. Undisturbed(L, s.memfds, s.memfds, sh, sh) BY DEF Undisturbed
      <3> QED BY <3>1, <2>1, <1>2, <1>9
   <2>2. CASE k # 0
      <3> DEFINE j == k - 1
                 u == T[j]
                 t == T[k]
      <3>1. k \in Memfds /\ j \in 0 .. NMemfds /\ j < k /\ k \in Nat /\ j \in Nat
            BY <2>2, Sizes DEF Memfds
      <3>2. /\ Consistent(u, O, Left(j), sh) /\ u.as = s.as
            /\ Undisturbed(L, s.memfds, u.memfds, sh, sh)
            BY <3>1, <1>11
      <3>3. t = IF k \in D THEN MemfdReleased(u, k) ELSE u BY <3>1, <1>2
      <3>4. \A m \in Memfds : m # k => (m <= k <=> m <= j) BY <3>1, <1>5
      <3> HIDE DEF u, t, j
      <3>5. Left(j) \in [Memfds -> Nat] /\ Left(k) \in [Memfds -> Nat] BY <3>1, <1>7
      <3>6. \A m \in Memfds : m # k => Left(k)[m] = Left(j)[m] BY <3>1, <3>4, <1>8
      <3>7. CASE k \in D
         <4>1. ~(k <= j) /\ k <= k BY <3>1 DEF j
         <4>2. Left(j)[k] = K[k] /\ Left(k)[k] = K[k] - 1 BY <4>1, <3>1, <3>7, <1>8
         <4>3. Left(j)[k] >= 1 /\ Left(k)[k] = Left(j)[k] - 1 BY <4>2, <3>7, <1>4
         <4>4. t = MemfdReleased(u, k) BY <3>3, <3>7
         <4>5. /\ Consistent(t, O, Left(k), sh) /\ t.as = u.as
               /\ Undisturbed(Left(k), u.memfds, t.memfds, sh, sh)
            <5> DEFINE A == Left(j)
                       B == Left(k)
            <5>1. /\ A \in [Memfds -> Nat] /\ B \in [Memfds -> Nat]
                  /\ A[k] >= 1 /\ B[k] = A[k] - 1 /\ \A m \in Memfds : m # k => B[m] = A[m]
                  /\ Consistent(u, O, A, sh)
                  BY <4>3, <3>2, <3>5, <3>6
            <5> HIDE DEF A, B
            <5>2. LET v == MemfdReleased(u, k)
                  IN  /\ Consistent(v, O, B, sh) /\ v.as = u.as
                      /\ Undisturbed(B, u.memfds, v.memfds, sh, sh)
                  BY <5>1, <3>1, DropConsistent
            <5> QED BY <5>2, <4>4 DEF B
         <4>6. \A m \in Memfds : L[m] >= 1 => Left(k)[m] >= 1
            <5> TAKE m \in Memfds
            <5>1. K[m] \in Nat OBVIOUS
            <5>2. Left(k)[m] = IF m \in D /\ m <= k THEN K[m] - 1 ELSE K[m] BY <3>1, <1>8
            <5> QED BY <5>1, <5>2, <1>6
         <4>7. Undisturbed(L, s.memfds, t.memfds, sh, sh)
            <5>1. ASSUME NEW c \in Space, Sees(c, s.memfds, sh),
                         \A m \in Memfds : ViewsOf(c, m) # {} => L[m] >= 1
                  PROVE  Sees(c, t.memfds, sh)
               <6>1. Sees(c, u.memfds, sh) BY <5>1, <3>2 DEF Undisturbed
               <6>2. \A m \in Memfds : ViewsOf(c, m) # {} => Left(k)[m] >= 1 BY <5>1, <4>6
               <6> QED BY <6>1, <6>2, <4>5 DEF Undisturbed
            <5> QED BY <5>1 DEF Undisturbed
         <4> QED BY <4>5, <4>7, <3>2 DEF t
      <3>8. CASE k \notin D
         <4>1. t = u BY <3>3, <3>8
         <4>2. Left(k)[k] = Left(j)[k] BY <3>1, <3>8, <1>8
         <4>3. Left(k) = Left(j) BY <4>2, <3>5, <3>6
         <4> QED BY <4>1, <4>3, <3>2 DEF t
      <3> QED BY <3>7, <3>8
   <2> QED BY <2>1, <2>2
<1>12. \A k \in 0 .. NMemfds : k \in I
   <2> HIDE DEF I
   <2> QED BY <1>11, Sizes, Ranked
<1>13. NMemfds \in I BY <1>12, Sizes
<1> QED BY <1>3, <1>10, <1>13

-----------------------------------------------------------------------------
(* The end of a process *)

(* Region r of s shows no page any more: what process_release_resources     *)
(* does for it.                                                             *)
LEMMA RegionReleasedType ==
    ASSUME NEW s \in Call, NEW r \in Slots,
           Live(s.as, r) => RegionSpan(s.as.regions[r]) \subseteq Virt
    PROVE  /\ RegionReleased(s, r) \in Call
           /\ RegionReleased(s, r).as.regions = s.as.regions
<1> DEFINE g == s.as.regions[r]
           vas == RegionSpan(g)
           G == Unmapped(s, vas, g.memfd = 0)
           t == RegionReleased(s, r)
<1>1. CASE ~g.active
   <2>1. t = s BY <1>1 DEF RegionReleased
   <2> QED BY <2>1
<1>2. CASE g.active
   <2>1. vas \subseteq Virt BY <1>2 DEF Live
   <2>2. (g.memfd = 0) \in BOOLEAN OBVIOUS
   <2> HIDE DEF vas
   <2>3. Unmaps(s, G, vas, GivenBack(s.as, vas, g.memfd = 0))
         BY <2>1, <2>2, UnmappedEffect, Zenon
   <2>4. t = IF g.memfd = 0 THEN G ELSE MemfdReleased(G, g.memfd)
         BY <1>2, Zenon DEF RegionReleased, vas
   <2> HIDE DEF G, t
   <2>5. G \in Call /\ G.as.regions = s.as.regions BY <2>3 DEF Unmaps
   <2>6. s.as \in Space BY CallFields
   <2>7. g \in Regions BY <2>6, SpaceFields
   <2>8. g.memfd \in Memfds \cup {0} BY <2>7, RegionFields
   <2> HIDE DEF g
   <2>9. CASE g.memfd = 0 BY <2>4, <2>5, <2>9 DEF t
   <2>10. CASE g.memfd # 0
      <3>1. g.memfd \in Memfds /\ t = MemfdReleased(G, g.memfd) BY <2>4, <2>8, <2>10
      <3>2. Releases(G, t, g.memfd) BY <3>1, <2>5, ReleasedEffect
      <3>3. t \in Call /\ t.as = G.as BY <3>2 DEF Releases
      <3> QED BY <3>3, <2>5 DEF t
   <2> QED BY <2>9, <2>10
<1> QED BY <1>1, <1>2

LEMMA ReleasedUpToDef ==
    ASSUME NEW s \in Call, Shaped(s.as)
    PROVE  LET T == ReleasedUpTo(s)
           IN  /\ T[0] = s
               /\ \A k \in Slots : T[k] = RegionReleased(T[k - 1], k)
<1> DEFINE St == {x \in Call : x.as.regions = s.as.regions}
           F == [z \in (1 .. MaxRegions) \X St |-> RegionReleased(z[2], z[1])]
           T == ReleasedUpTo(s)
<1>0. s.as \in Space BY CallFields
<1>1. ASSUME NEW j \in 1 .. MaxRegions, NEW x \in St
      PROVE  RegionReleased(x, j) \in St
   <2>1. x \in Call /\ x.as.regions = s.as.regions /\ j \in Slots BY DEF Slots
   <2>2. Live(x.as, j) => RegionSpan(x.as.regions[j]) \subseteq Virt
         BY <2>1, <1>0, RegionSeen DEF Live
   <2> QED BY <2>1, <2>2, RegionReleasedType
<1>2. s \in St OBVIOUS
<1> HIDE DEF St
<1>3. F \in [(1 .. MaxRegions) \X St -> St] BY <1>1
<1>4. \A j \in 1 .. MaxRegions, x \in St : F[<<j, x>>] = RegionReleased(x, j)
      OBVIOUS
<1> HIDE DEF F
<1>5. PICK g : Loop(MaxRegions, St, F, s, g) BY <1>2, <1>3, Sizes, LoopExists
<1>6. ASSUME NEW j \in 0 .. MaxRegions
      PROVE  g[j] = IF j = 0 THEN s ELSE RegionReleased(g[j - 1], j)
   <2>1. CASE j = 0 BY <2>1, <1>5 DEF Loop
   <2>2. CASE j # 0
      <3>1. j \in 1 .. MaxRegions /\ j - 1 \in 0 .. MaxRegions BY <2>2, Sizes
      <3>2. g[j] = F[<<j, g[j - 1]>>] /\ g[j - 1] \in St BY <3>1, <1>5 DEF Loop
      <3> QED BY <3>1, <3>2, <2>2, <1>4
   <2> QED BY <2>1, <2>2
<1>7. g = [j \in 0 .. MaxRegions |-> g[j]] BY <1>5 DEF Loop
<1>8. g = [j \in 0 .. MaxRegions |-> IF j = 0 THEN s ELSE RegionReleased(g[j - 1], j)]
      BY <1>6, <1>7, Zenon
<1>9. T = [j \in 0 .. MaxRegions |-> IF j = 0 THEN s ELSE RegionReleased(T[j - 1], j)]
      BY <1>8, Zenon DEF ReleasedUpTo
<1> HIDE DEF T
<1>10. T[0] = s BY <1>9, Sizes
<1>11. ASSUME NEW k \in Slots PROVE T[k] = RegionReleased(T[k - 1], k)
   <2>1. k \in 0 .. MaxRegions /\ k # 0 BY Sizes DEF Slots
   <2> QED BY <2>1, <1>9
<1> QED BY <1>10, <1>11 DEF T

(* The regions up to k have given back what they held; the later ones still *)
(* have their references.                                                   *)
ViewsAfter(as, m, k) == {r \in ViewsOf(as, m) : r > k}
Releasing(s, x, O, K, sh, k) ==
    /\ x \in Call
    /\ x.as.regions = s.as.regions
    /\ Accounted(x, Seen(s.as), O)
    /\ Objects(x.memfds)
    /\ \A m \in Memfds : x.memfds[m].refs = K[m] + Cardinality(ViewsAfter(s.as, m, k))
    /\ \A r \in Slots : Live(s.as, r) /\ r <= k => Vacant(x.as, RegionSpan(s.as.regions[r]))
    /\ Undisturbed(K, s.memfds, x.memfds, sh, sh)

LEMMA ViewsAfterFacts ==
    ASSUME NEW as, NEW m, NEW k \in Slots
    PROVE  LET A == ViewsAfter(as, m, k - 1)
               B == ViewsAfter(as, m, k)
           IN  /\ IsFiniteSet(A) /\ Cardinality(A) \in Nat
               /\ IsFiniteSet(B) /\ Cardinality(B) \in Nat
               /\ k \in ViewsOf(as, m) => k \in A /\ B = A \ {k}
                                          /\ Cardinality(A) = Cardinality(B) + 1
               /\ k \notin ViewsOf(as, m) => B = A
<1> DEFINE A == ViewsAfter(as, m, k - 1)
           B == ViewsAfter(as, m, k)
<1>1. IsFiniteSet(ViewsOf(as, m)) BY ViewsFinite
<1>2. A \subseteq ViewsOf(as, m) /\ B \subseteq ViewsOf(as, m) BY DEF ViewsAfter
<1>3. IsFiniteSet(A) /\ IsFiniteSet(B)
   <2> HIDE DEF A, B
   <2> QED BY <1>1, <1>2, FS_Subset
<1>4. Cardinality(A) \in Nat /\ Cardinality(B) \in Nat BY <1>3, FS_CardinalityType
<1>5. \A r \in ViewsOf(as, m) : r \in Nat BY Sizes DEF ViewsOf, Slots
<1>6. k \in Nat /\ k >= 1 BY Sizes DEF Slots
<1>7. \A r \in ViewsOf(as, m) : (r > k - 1) <=> (r = k \/ r > k)
   <2>1. \A a, b \in Nat : (a > b - 1) <=> (a = b \/ a > b) OBVIOUS
   <2> QED BY <2>1, <1>5, <1>6
<1>8. ~(k > k) /\ k > k - 1 BY <1>6
<1>9. k \in ViewsOf(as, m) => k \in A /\ B = A \ {k} BY <1>7, <1>8 DEF ViewsAfter
<1>10. k \notin ViewsOf(as, m) => B = A BY <1>7 DEF ViewsAfter
<1> HIDE DEF A, B
<1>11. ASSUME k \in ViewsOf(as, m) PROVE Cardinality(A) = Cardinality(B) + 1
   <2>1. k \in A /\ B = A \ {k} BY <1>9, <1>11
   <2>2. Cardinality(B) = Cardinality(A) - 1 BY <2>1, <1>3, FS_RemoveElement
   <2> QED BY <2>2, <1>4
<1> QED BY <1>3, <1>4, <1>9, <1>10, <1>11 DEF A, B

LEMMA ReleasingStep ==
    ASSUME NEW s \in Call, Shaped(s.as), NEW O, NEW K \in [Memfds -> Nat], NEW sh,
           NEW k \in Slots, NEW u, Releasing(s, u, O, K, sh, k - 1)
    PROVE  Releasing(s, RegionReleased(u, k), O, K, sh, k)
<1> DEFINE g == s.as.regions[k]
           vas == RegionSpan(g)
           G == Unmapped(u, vas, g.memfd = 0)
           t == RegionReleased(u, k)
           V == Seen(s.as)
<1>1. /\ u \in Call /\ u.as.regions = s.as.regions /\ Accounted(u, V, O)
      /\ Objects(u.memfds)
      /\ \A m \in Memfds : u.memfds[m].refs = K[m] + Cardinality(ViewsAfter(s.as, m, k - 1))
      /\ \A r \in Slots : Live(s.as, r) /\ r <= k - 1 =>
             Vacant(u.as, RegionSpan(s.as.regions[r]))
      /\ Undisturbed(K, s.memfds, u.memfds, sh, sh)
      BY DEF Releasing
<1>2. s.as \in Space BY CallFields
<1>3. g \in Regions BY <1>2, SpaceFields
<1>4. g.memfd \in Memfds \cup {0} BY <1>3, RegionFields
<1>5. \A r \in Slots : r <= k => r = k \/ r <= k - 1
   <2>1. Slots \subseteq Nat BY Sizes DEF Slots
   <2>2. \A a, b \in Nat : a <= b => a = b \/ a <= b - 1 OBVIOUS
   <2> QED BY <2>1, <2>2
<1>6. CASE ~g.active
   <2>1. t = u BY <1>1, <1>6 DEF RegionReleased
   <2>2. \A m \in Memfds : ViewsAfter(s.as, m, k) = ViewsAfter(s.as, m, k - 1)
      <3> TAKE m \in Memfds
      <3>1. k \notin ViewsOf(s.as, m) BY <1>6 DEF ViewsOf, Live
      <3> QED BY <3>1, ViewsAfterFacts
   <2>3. \A r \in Slots : Live(s.as, r) /\ r <= k => Vacant(u.as, RegionSpan(s.as.regions[r]))
         BY <1>1, <1>5, <1>6 DEF Live
   <2>4. Releasing(s, u, O, K, sh, k) BY <2>2, <2>3, <1>1 DEF Releasing
   <2> QED BY <2>1, <2>4
<1>7. CASE g.active
   <2>1. Live(s.as, k) BY <1>7 DEF Live
   <2>2. /\ vas \subseteq Virt
         /\ g.memfd = 0 => vas \cap V = {}
         /\ g.memfd # 0 => vas \subseteq V
         BY <2>1, <1>2, RegionSeen
   <2>3. (g.memfd = 0) \in BOOLEAN OBVIOUS
   <2>4. t = IF g.memfd = 0 THEN G ELSE MemfdReleased(G, g.memfd)
      <3>1. u.as.regions[k] = g BY <1>1
      <3> QED BY <3>1, <1>7, Zenon DEF RegionReleased
   <2> HIDE DEF vas, V
   <2>5. Unmaps(u, G, vas, GivenBack(u.as, vas, g.memfd = 0))
         BY <2>2, <2>3, <1>1, UnmappedEffect, Zenon
   <2>6. Accounted(G, V, O)
         BY <2>2, <2>3, <1>1, UnmappedAccounted, Zenon
   <2> HIDE DEF G, t
   <2>7. /\ G \in Call /\ G.memfds = u.memfds /\ G.as.regions = u.as.regions
         /\ \A va \in Virt : G.as.pt[va] = IF va \in vas THEN Absent ELSE u.as.pt[va]
         BY <2>5 DEF Unmaps
   <2>8. ASSUME NEW r \in Slots, Live(s.as, r), r <= k
         PROVE  Vacant(G.as, RegionSpan(s.as.regions[r]))
      <3>1. RegionSpan(s.as.regions[r]) \subseteq Virt BY <2>8, <1>2, RegionSeen
      <3>2. CASE r = k BY <3>1, <3>2, <2>7 DEF Vacant, vas
      <3>3. CASE r # k
         <4>1. Vacant(u.as, RegionSpan(s.as.regions[r])) BY <3>3, <2>8, <1>1, <1>5
         <4> QED BY <4>1, <3>1, <2>7 DEF Vacant
      <3> QED BY <3>2, <3>3
   <2>9. CASE g.memfd = 0
      <3>1. t = G BY <2>4, <2>9
      <3>2. \A m \in Memfds : ViewsAfter(s.as, m, k) = ViewsAfter(s.as, m, k - 1)
         <4> TAKE m \in Memfds
         <4>1. k \notin ViewsOf(s.as, m) BY <2>9, NoObjectZero DEF ViewsOf
         <4> QED BY <4>1, ViewsAfterFacts
      <3>3. Releasing(s, G, O, K, sh, k)
            BY <3>2, <2>6, <2>7, <2>8, <1>1 DEF Releasing, V
      <3> QED BY <3>1, <3>3 DEF t
   <2>10. CASE g.memfd # 0
      <3> DEFINE m == g.memfd
                 x == u.memfds[m].refs
                 w == Cardinality(ViewsAfter(s.as, m, k))
      <3>1. m \in Memfds /\ t = MemfdReleased(G, m) BY <2>4, <2>10, <1>4
      <3>2. k \in ViewsOf(s.as, m) BY <2>1 DEF ViewsOf
      <3> HIDE DEF m
      <3>3. Releases(G, t, m) BY <3>1, <2>7, ReleasedEffect
      <3>4. /\ t \in Call /\ t.as = G.as
            /\ \A j \in Memfds : j # m => t.memfds[j] = u.memfds[j]
            /\ IF x > 1 THEN t.memfds[m].refs = x - 1 ELSE t.memfds[m].refs = 0
            BY <3>3, <2>7 DEF Releases
      <3>5. w \in Nat /\ x = K[m] + (w + 1)
         <4>1. Cardinality(ViewsAfter(s.as, m, k - 1)) = w + 1 /\ w \in Nat
               BY <3>2, ViewsAfterFacts
         <4> QED BY <4>1, <3>1, <1>1
      <3>6. K[m] \in Nat BY <3>1
      <3>7. t.memfds[m].refs = K[m] + w /\ (K[m] >= 1 => x > 1)
         <4> HIDE DEF x, w
         <4> QED BY <3>4, <3>5, <3>6
      <3>8. ASSUME NEW j \in Memfds
            PROVE  t.memfds[j].refs = K[j] + Cardinality(ViewsAfter(s.as, j, k))
         <4>1. CASE j = m BY <4>1, <3>7
         <4>2. CASE j # m
            <5>1. k \notin ViewsOf(s.as, j) BY <4>2 DEF ViewsOf, m
            <5>2. ViewsAfter(s.as, j, k) = ViewsAfter(s.as, j, k - 1) BY <5>1, ViewsAfterFacts
            <5> QED BY <5>2, <4>2, <3>4, <1>1
         <4> QED BY <4>1, <4>2
      <3>9. Accounted(t, V, O) BY <3>1, <3>3, <2>6, <2>7, ReleasesAccounted
      <3>10. Objects(t.memfds) BY <3>1, <3>3, <2>7, <1>1, ReleasesObjects
      <3>11. ASSUME NEW c \in Space, Sees(c, s.memfds, sh),
                    \A j \in Memfds : ViewsOf(c, j) # {} => K[j] >= 1
             PROVE  Sees(c, t.memfds, sh)
         <4>1. Sees(c, G.memfds, sh) BY <3>11, <2>7, <1>1 DEF Undisturbed
         <4>2. G.memfds[m].refs > 1 \/ ViewsOf(c, m) = {} BY <3>1, <3>7, <3>11, <2>7
         <4> QED BY <4>1, <4>2, <3>1, <3>3, <2>7, ReleasesSees
      <3>12. Undisturbed(K, s.memfds, t.memfds, sh, sh) BY <3>11 DEF Undisturbed
      <3>13. Releasing(s, t, O, K, sh, k)
             BY <3>4, <3>8, <3>9, <3>10, <3>12, <2>7, <2>8, <1>1 DEF Releasing, V
      <3> QED BY <3>13 DEF t
   <2> QED BY <2>9, <2>10
<1> QED BY <1>6, <1>7

LEMMA AllReleased ==
    ASSUME NEW s, NEW O, NEW K \in [Memfds -> Nat], NEW sh, Consistent(s, O, K, sh)
    PROVE  Releasing(s, ReleasedUpTo(s)[MaxRegions], O, K, sh, MaxRegions)
<1> DEFINE T == ReleasedUpTo(s)
           I == {k \in 0 .. MaxRegions : Releasing(s, T[k], O, K, sh, k)}
<1>1. /\ s \in Call /\ Accounted(s, Seen(s.as), O) /\ Shaped(s.as)
      /\ Objects(s.memfds) /\ Counted(s, K)
      BY DEF Consistent
<1>2. T[0] = s /\ \A k \in Slots : T[k] = RegionReleased(T[k - 1], k)
      BY <1>1, ReleasedUpToDef
<1> HIDE DEF T
<1>3. Releasing(s, s, O, K, sh, 0)
   <2>1. \A r \in Slots : r > 0 /\ ~(r <= 0) BY Sizes DEF Slots
   <2>2. \A m \in Memfds : ViewsAfter(s.as, m, 0) = ViewsOf(s.as, m)
         BY <2>1 DEF ViewsAfter, ViewsOf
   <2>3. Undisturbed(K, s.memfds, s.memfds, sh, sh) BY DEF Undisturbed
   <2> QED BY <2>1, <2>2, <2>3, <1>1 DEF Releasing, Counted
<1>4. ASSUME NEW k \in 0 .. MaxRegions, \A i \in 0 .. MaxRegions : i < k => i \in I
      PROVE  k \in I
   <2>1. CASE k = 0 BY <2>1, <1>2, <1>3
   <2>2. CASE k # 0
      <3>1. k \in Slots /\ k - 1 \in 0 .. MaxRegions /\ k - 1 < k BY <2>2, Sizes DEF Slots
      <3>2. Releasing(s, T[k - 1], O, K, sh, k - 1) BY <3>1, <1>4
      <3>3. Releasing(s, RegionReleased(T[k - 1], k), O, K, sh, k)
            BY <3>1, <3>2, <1>1, ReleasingStep
      <3> QED BY <3>1, <3>3, <1>2
   <2> QED BY <2>1, <2>2
<1>5. \A k \in 0 .. MaxRegions : k \in I
   <2> HIDE DEF I
   <2> QED BY <1>4, Sizes, Ranked
<1>6. MaxRegions \in I BY <1>5, Sizes
<1> QED BY <1>6 DEF T

LEMMA BlankFacts ==
    /\ Blank \in Space
    /\ \A r \in Slots : ~Live(Blank, r)
    /\ Seen(Blank) = {} /\ Shaped(Blank) /\ Separate(Blank, {}) /\ Held(Blank, {}) = {}
    /\ \A m : ViewsOf(Blank, m) = {}
    /\ \A mf, sh : Sees(Blank, mf, sh)
<1>1. Low + 1 \in Low + 1 .. Low + VmSize + 1 /\ 0 \in 0 .. HeapSize BY Sizes
<1>2. Blank \in Space BY <1>1, NoRegionType DEF Blank, Space
<1>3. \A r \in Slots : Blank.regions[r] = NoRegion BY DEF Blank
<1>4. NoRegion.active = FALSE BY DEF NoRegion
<1>5. \A r \in Slots : ~Live(Blank, r) BY <1>3, <1>4 DEF Live
<1>6. /\ \A va \in Virt : Blank.pt[va] = Absent
      /\ Blank.table = Absent
      BY DEF Blank
<1>7. Seen(Blank) = {} /\ \A m : ViewsOf(Blank, m) = {} BY <1>5 DEF Seen, ViewsOf
<1>8. Shaped(Blank) BY <1>5, <1>6 DEF Shaped, Apart, Covered
<1>9. Separate(Blank, {}) BY <1>6 DEF Separate
<1>10. Held(Blank, {}) = {} BY <1>6, PagesPositive DEF Held
<1>11. \A mf, sh : Sees(Blank, mf, sh) BY <1>5 DEF Sees, Live
<1> QED BY <1>2, <1>5, <1>7, <1>8, <1>9, <1>10, <1>11

(* The end of a process gives back every page it held and every reference   *)
(* of its regions.                                                          *)
LEMMA ResourcesReleasedConsistent ==
    ASSUME NEW s, NEW O, NEW K \in [Memfds -> Nat], NEW sh, Consistent(s, O, K, sh)
    PROVE  LET t == ResourcesReleased(s)
           IN  /\ Consistent(t, O, K, sh) /\ t.as = Blank
               /\ Undisturbed(K, s.memfds, t.memfds, sh, sh)
<1> DEFINE x == ReleasedUpTo(s)[MaxRegions]
           U == Unmapped(x, Virt, TRUE)
           t == [U EXCEPT !.as = Blank]
           V == Seen(s.as)
<1>1. Releasing(s, x, O, K, sh, MaxRegions) BY AllReleased
<1>2. ResourcesReleased(s) = t BY Zenon DEF ResourcesReleased
<1> HIDE DEF x
<1>3. /\ x \in Call /\ Accounted(x, V, O) /\ Objects(x.memfds)
      /\ \A m \in Memfds : x.memfds[m].refs = K[m] + Cardinality(ViewsAfter(s.as, m, MaxRegions))
      /\ \A r \in Slots : Live(s.as, r) /\ r <= MaxRegions =>
             Vacant(x.as, RegionSpan(s.as.regions[r]))
      /\ Undisturbed(K, s.memfds, x.memfds, sh, sh)
      BY <1>1 DEF Releasing
<1>4. \A r \in Slots : r <= MaxRegions /\ ~(r > MaxRegions) BY Sizes DEF Slots
<1>5. \A va \in V : x.as.pt[va] = Absent BY <1>3, <1>4 DEF Seen, Vacant
<1>6. Accounted(x, {}, O)
   <2>1. \A va \in Virt : va \in V /\ va \notin {} => x.as.pt[va] = Absent BY <1>5
   <2>2. \A va \in Virt : va \in {} /\ va \notin V => x.as.pt[va] = Absent OBVIOUS
   <2> HIDE DEF V
   <2> QED BY <2>1, <2>2, <1>3, AccountedElsewhere
<1>7. Virt \subseteq Virt /\ TRUE \in BOOLEAN /\ (TRUE => Virt \cap {} = {})
      /\ (~TRUE => Virt \subseteq {})
      OBVIOUS
<1>8. Unmaps(x, U, Virt, GivenBack(x.as, Virt, TRUE)) BY <1>3, <1>7, UnmappedEffect, Zenon
<1>9. Accounted(U, {}, O) BY <1>3, <1>6, <1>7, UnmappedAccounted, Zenon
<1> HIDE DEF U
<1>10. /\ U \in Call /\ U.memfds = x.memfds
       /\ \A va \in Virt : U.as.pt[va] = Absent
       /\ U.as.table = IF Empties(x.as, Virt) THEN Absent ELSE x.as.table
       BY <1>8 DEF Unmaps
<1>11. U.as.table = Absent BY <1>10 DEF Empties
<1>12. Held(U.as, {}) = {} BY <1>10, <1>11, PagesPositive DEF Held
<1>13. t \in Call /\ t.free = U.free /\ t.memfds = x.memfds /\ t.as = Blank
       BY <1>10, BlankFacts DEF Call
<1> HIDE DEF t
<1>14. Accounted(t, {}, O)
   <2>1. Held(t.as, {}) = Held(U.as, {}) /\ Separate(t.as, {})
         BY <1>12, <1>13, BlankFacts
   <2> QED BY <2>1, <1>9, <1>10, <1>13 DEF Accounted
<1>15. Accounted(t, Seen(t.as), O) BY <1>13, <1>14, BlankFacts
<1>16. Counted(t, K)
   <2> SUFFICES ASSUME NEW m \in Memfds
                PROVE  t.memfds[m].refs = K[m] + Cardinality(ViewsOf(t.as, m))
       BY DEF Counted
   <2>1. ViewsAfter(s.as, m, MaxRegions) = {} BY <1>4 DEF ViewsAfter, ViewsOf
   <2>2. ViewsOf(t.as, m) = {} BY <1>13, BlankFacts
   <2> QED BY <2>1, <2>2, <1>3, <1>13
<1>17. Objects(t.memfds) BY <1>3, <1>13
<1>18. Shaped(t.as) /\ Sees(t.as, t.memfds, sh) BY <1>13, BlankFacts
<1>19. Consistent(t, O, K, sh)
       BY <1>13, <1>15, <1>16, <1>17, <1>18 DEF Consistent
<1>20. Undisturbed(K, s.memfds, t.memfds, sh, sh) BY <1>3, <1>13
<1> QED BY <1>2, <1>13, <1>19, <1>20

-----------------------------------------------------------------------------
(* One space moves, the others stand by *)

AllViews(S, m) == {pr \in Procs \X Slots : pr[2] \in ViewsOf(S[pr[1]], m)}

(* The views of an object are those of one process and those of the others. *)
LEMMA ViewsSplit ==
    ASSUME NEW S, NEW p \in Procs, NEW m
    PROVE  /\ IsFiniteSet(AllViews(S, m)) /\ IsFiniteSet(ViewsElsewhere(S, p, m))
           /\ Cardinality(ViewsElsewhere(S, p, m)) \in Nat
           /\ Cardinality(AllViews(S, m))
                = Cardinality(ViewsElsewhere(S, p, m)) + Cardinality(ViewsOf(S[p], m))
<1> DEFINE A == AllViews(S, m)
           B == ViewsElsewhere(S, p, m)
           L == ViewsOf(S[p], m)
           C == {pr \in {p} \X Slots : pr[2] \in L}
           f == [r \in L |-> <<p, r>>]
<1>1. IsFiniteSet(Procs) /\ IsFiniteSet(Slots)
   <2>1. 0 \in Int /\ NProcs - 1 \in Int /\ 1 \in Int /\ MaxRegions \in Int BY Sizes
   <2> QED BY <2>1, FS_Interval DEF Procs, Slots
<1>2. IsFiniteSet(Procs \X Slots) BY <1>1, FS_Product
<1>3. A \subseteq Procs \X Slots /\ B \subseteq A /\ C \subseteq A
      BY DEF AllViews, ViewsElsewhere
<1>4. L \subseteq Slots /\ IsFiniteSet(L) /\ Cardinality(L) \in Nat
      BY ViewsFinite DEF ViewsOf
<1>5. A = B \cup C BY DEF AllViews, ViewsElsewhere
<1>6. B \cap C = {} BY DEF ViewsElsewhere
<1> HIDE DEF L
<1>7. f \in Surjection(L, C)
   <2>1. f \in [L -> C] BY <1>4
   <2>2. ASSUME NEW z \in C PROVE \E r \in L : f[r] = z
      <3>1. z = <<z[1], z[2]>> /\ z[1] = p /\ z[2] \in L OBVIOUS
      <3>2. f[z[2]] = <<p, z[2]>> BY <3>1
      <3> QED BY <3>1, <3>2
   <2> HIDE DEF f, C
   <2> QED BY <2>1, <2>2 DEF Surjection
<1>8. f \in Injection(L, C)
   <2>1. f \in [L -> C] BY <1>4
   <2>2. \A q, r \in L : f[q] = f[r] => q = r OBVIOUS
   <2> HIDE DEF f, C
   <2> QED BY <2>1, <2>2 DEF Injection, IsInjective
<1> HIDE DEF A, B, C, f
<1>9. ExistsBijection(L, C) BY <1>7, <1>8 DEF ExistsBijection, Bijection
<1>10. IsFiniteSet(C) /\ Cardinality(C) = Cardinality(L) BY <1>4, <1>9, FS_Bijection
<1>11. IsFiniteSet(A) BY <1>2, <1>3, FS_Subset
<1>12. IsFiniteSet(B) BY <1>11, <1>3, FS_Subset
<1>13. Cardinality(B) \in Nat BY <1>12, FS_CardinalityType
<1>14. Cardinality(B \cap C) = 0 BY <1>6, FS_EmptySet
<1>15. Cardinality(A) = Cardinality(B) + Cardinality(C) - Cardinality(B \cap C)
       BY <1>5, <1>10, <1>12, FS_Union
<1>16. Cardinality(A) = Cardinality(B) + Cardinality(L)
       BY <1>4, <1>10, <1>13, <1>14, <1>15
<1> QED BY <1>11, <1>12, <1>13, <1>16 DEF A, B, L

LEMMA RefsType ==
    ASSUME NEW S, NEW H, NEW p \in Procs
    PROVE  /\ RefsElsewhere(S, H, p) \in [Memfds -> Nat]
           /\ \A m \in Memfds : RefsElsewhere(S, H, p)[m]
                = (IF H[m] = {} THEN 0 ELSE 1) + Cardinality(ViewsElsewhere(S, p, m))
<1>1. \A m \in Memfds : (IF H[m] = {} THEN 0 ELSE 1) + Cardinality(ViewsElsewhere(S, p, m)) \in Nat
   <2> TAKE m \in Memfds
   <2>1. Cardinality(ViewsElsewhere(S, p, m)) \in Nat BY ViewsSplit
   <2> QED BY <2>1
<1> QED BY <1>1 DEF RefsElsewhere

(* Other processes count among the references elsewhere. *)
LEMMA ViewsCounted ==
    ASSUME NEW S, NEW p \in Procs, NEW q \in Procs \ {p}, NEW m, ViewsOf(S[q], m) # {}
    PROVE  Cardinality(ViewsElsewhere(S, p, m)) >= 1
<1>1. PICK r \in Slots : r \in ViewsOf(S[q], m) BY DEF ViewsOf
<1>2. <<q, r>> \in ViewsElsewhere(S, p, m) BY <1>1 DEF ViewsElsewhere
<1>3. IsFiniteSet(ViewsElsewhere(S, p, m)) /\ Cardinality(ViewsElsewhere(S, p, m)) \in Nat
      BY ViewsSplit
<1>4. Cardinality(ViewsElsewhere(S, p, m)) # 0 BY <1>2, <1>3, FS_EmptySet
<1> QED BY <1>3, <1>4

(* An address space that moves consistently leaves the others so. *)
LEMMA OneSpaceMoves ==
    ASSUME NEW F, NEW mf, NEW S, NEW H, NEW sh, System(F, mf, S, H, sh),
           NEW p \in Procs, NEW t, NEW G \in [Memfds -> SUBSET Procs], NEW newsh \in SUBSET Memfds,
           Consistent(t, PagesElsewhere(S, p), RefsElsewhere(S, G, p), newsh),
           \A q \in Procs \ {p} : Sees(S[q], t.memfds, newsh)
    PROVE  System(t.free, t.memfds, [S EXCEPT ![p] = t.as], G, newsh)
<1> DEFINE N == [S EXCEPT ![p] = t.as]
           At(q) == [free |-> t.free, memfds |-> t.memfds, as |-> N[q]]
           Hq(q) == Held(S[q], Seen(S[q]))
<1>1. /\ t \in Call /\ Accounted(t, Seen(t.as), PagesElsewhere(S, p)) /\ Shaped(t.as)
      /\ Objects(t.memfds) /\ Counted(t, RefsElsewhere(S, G, p)) /\ Sees(t.as, t.memfds, newsh)
      BY DEF Consistent
<1>2. S \in [Procs -> Space]
      BY DEF System
<1>3. t.as \in Space /\ t.free \in SUBSET Pages /\ t.memfds \in [Memfds -> Object]
      BY <1>1, CallFields
<1>4. /\ N \in [Procs -> Space] /\ N[p] = t.as
      /\ \A q \in Procs : q # p => N[q] = S[q]
      BY <1>2, <1>3
<1> HIDE DEF N
<1>5. ASSUME NEW m \in Memfds
      PROVE  t.memfds[m].refs = (IF G[m] = {} THEN 0 ELSE 1) + Cardinality(AllViews(N, m))
   <2>1. t.memfds[m].refs = RefsElsewhere(S, G, p)[m] + Cardinality(ViewsOf(t.as, m))
         BY <1>1 DEF Counted
   <2>2. ViewsElsewhere(N, p, m) = ViewsElsewhere(S, p, m) BY <1>4 DEF ViewsElsewhere
   <2>3. RefsElsewhere(S, G, p)[m]
           = (IF G[m] = {} THEN 0 ELSE 1) + Cardinality(ViewsElsewhere(S, p, m))
         BY RefsType
   <2>4. /\ Cardinality(AllViews(N, m))
              = Cardinality(ViewsElsewhere(N, p, m)) + Cardinality(ViewsOf(N[p], m))
         /\ Cardinality(ViewsElsewhere(N, p, m)) \in Nat
         BY ViewsSplit
   <2>5. Cardinality(ViewsOf(t.as, m)) \in Nat BY ViewsFinite
   <2> QED BY <2>1, <2>2, <2>3, <2>4, <2>5, <1>4
<1>6. ASSUME NEW q \in Procs
      PROVE  /\ At(q) \in Call /\ At(q).free = t.free /\ At(q).memfds = t.memfds
             /\ At(q).as = N[q]
      BY <1>3, <1>4 DEF Call
<1>7. ASSUME NEW q \in Procs PROVE Counted(At(q), RefsElsewhere(N, G, q))
   <2> SUFFICES ASSUME NEW m \in Memfds
                PROVE  t.memfds[m].refs = RefsElsewhere(N, G, q)[m] + Cardinality(ViewsOf(N[q], m))
       BY <1>6 DEF Counted
   <2>1. RefsElsewhere(N, G, q)[m]
           = (IF G[m] = {} THEN 0 ELSE 1) + Cardinality(ViewsElsewhere(N, q, m))
         BY RefsType
   <2>2. /\ Cardinality(AllViews(N, m))
              = Cardinality(ViewsElsewhere(N, q, m)) + Cardinality(ViewsOf(N[q], m))
         /\ Cardinality(ViewsElsewhere(N, q, m)) \in Nat
         BY ViewsSplit
   <2>3. Cardinality(ViewsOf(N[q], m)) \in Nat BY ViewsFinite
   <2> QED BY <2>1, <2>2, <2>3, <1>5
<1>8. ASSUME NEW q \in Procs PROVE Accounted(At(q), Seen(N[q]), PagesElsewhere(N, q))
   <2>1. CASE q = p
      <3>1. PagesElsewhere(N, p) = PagesElsewhere(S, p) BY <1>4 DEF PagesElsewhere
      <3>2. /\ Separate(t.as, Seen(t.as)) /\ Distinct(t.memfds)
            /\ Parts(t.free, Held(t.as, Seen(t.as)), ObjectPages(t.memfds), PagesElsewhere(S, p))
            BY <1>1 DEF Accounted
      <3> QED BY <3>1, <3>2, <2>1, <1>4, <1>6 DEF Accounted
   <2>2. CASE q # p
      <3> DEFINE R == UNION {Hq(i) : i \in Procs \ {p, q}}
                 J == Held(t.as, Seen(t.as))
                 M == ObjectPages(t.memfds)
      <3>1. PagesElsewhere(S, p) = Hq(q) \cup R BY <2>2 DEF PagesElsewhere
      <3>2. PagesElsewhere(S, q) = Hq(p) \cup R BY <2>2 DEF PagesElsewhere
      <3>3. PagesElsewhere(N, q) = J \cup R BY <2>2, <1>4 DEF PagesElsewhere
      <3>4. Consistent([free |-> F, memfds |-> mf, as |-> S[q]], PagesElsewhere(S, q),
                       RefsElsewhere(S, H, q), sh)
            BY DEF System
      <3>5. Accounted([free |-> F, memfds |-> mf, as |-> S[q]], Seen(S[q]), PagesElsewhere(S, q))
            BY <3>4 DEF Consistent
      <3>6. /\ Separate(S[q], Seen(S[q]))
            /\ Hq(q) \cap PagesElsewhere(S, q) = {}
            BY <3>5 DEF Accounted, Parts
      <3>7. Distinct(t.memfds) /\ Parts(t.free, J, M, PagesElsewhere(S, p))
            BY <1>1 DEF Accounted
      <3> HIDE DEF R, J, M, Hq
      <3>8. Parts(t.free, Hq(q), M, J \cup R) BY <3>1, <3>2, <3>6, <3>7 DEF Parts
      <3>9. N[q] = S[q] BY <2>2, <1>4
      <3> QED BY <3>3, <3>6, <3>7, <3>8, <3>9, <1>6 DEF Accounted, M, Hq
   <2> QED BY <2>1, <2>2
<1>9. ASSUME NEW q \in Procs PROVE Shaped(N[q]) /\ Sees(N[q], t.memfds, newsh)
   <2>1. CASE q = p BY <2>1, <1>1, <1>4
   <2>2. CASE q # p
      <3>1. Consistent([free |-> F, memfds |-> mf, as |-> S[q]], PagesElsewhere(S, q),
                       RefsElsewhere(S, H, q), sh)
            BY DEF System
      <3>2. Shaped(S[q]) BY <3>1 DEF Consistent
      <3> QED BY <3>2, <2>2, <1>4
   <2> QED BY <2>1, <2>2
<1>10. ASSUME NEW q \in Procs
       PROVE  Consistent(At(q), PagesElsewhere(N, q), RefsElsewhere(N, G, q), newsh)
       BY <1>1, <1>6, <1>7, <1>8, <1>9 DEF Consistent
<1>11. System(t.free, t.memfds, N, G, newsh) BY <1>4, <1>10 DEF System
<1> QED BY <1>11 DEF N

(* A call that disturbs no view of the others keeps the invariant. *)
LEMMA SystemMoves ==
    ASSUME NEW F, NEW mf, NEW S, NEW H, NEW sh, System(F, mf, S, H, sh),
           NEW p \in Procs, NEW t, NEW G \in [Memfds -> SUBSET Procs], NEW newsh \in SUBSET Memfds,
           Consistent(t, PagesElsewhere(S, p), RefsElsewhere(S, G, p), newsh),
           NEW X, Undisturbed(RefsElsewhere(S, X, p), mf, t.memfds, sh, newsh)
    PROVE  System(t.free, t.memfds, [S EXCEPT ![p] = t.as], G, newsh)
<1>1. ASSUME NEW q \in Procs \ {p} PROVE Sees(S[q], t.memfds, newsh)
   <2>1. S[q] \in Space BY DEF System
   <2>2. Consistent([free |-> F, memfds |-> mf, as |-> S[q]], PagesElsewhere(S, q),
                    RefsElsewhere(S, H, q), sh)
         BY DEF System
   <2>3. Sees(S[q], mf, sh) BY <2>2 DEF Consistent
   <2>4. ASSUME NEW m \in Memfds, ViewsOf(S[q], m) # {} PROVE RefsElsewhere(S, X, p)[m] >= 1
      <3>1. Cardinality(ViewsElsewhere(S, p, m)) >= 1 BY <2>4, ViewsCounted
      <3>2. Cardinality(ViewsElsewhere(S, p, m)) \in Nat BY ViewsSplit
      <3>3. RefsElsewhere(S, X, p)[m]
              = (IF X[m] = {} THEN 0 ELSE 1) + Cardinality(ViewsElsewhere(S, p, m))
            BY RefsType
      <3> QED BY <3>1, <3>2, <3>3
   <2> QED BY <2>1, <2>3, <2>4 DEF Undisturbed
<1> QED BY <1>1, OneSpaceMoves

(* The call a process begins with. *)
LEMMA CallOf ==
    ASSUME IInv, NEW p \in Procs
    PROVE  /\ Consistent(State(p), PagesElsewhere(space, p), RefsElsewhere(space, holders, p), shrunk)
           /\ RefsElsewhere(space, holders, p) \in [Memfds -> Nat]
           /\ State(p).free = free /\ State(p).memfds = memfds /\ State(p).as = space[p]
           /\ State(p) \in Call /\ space[p] \in Space /\ memfds \in [Memfds -> Object]
<1>1. Consistent(State(p), PagesElsewhere(space, p), RefsElsewhere(space, holders, p), shrunk)
      BY DEF IInv, System, State
<1>2. State(p).free = free /\ State(p).memfds = memfds /\ State(p).as = space[p]
      BY DEF State
<1>3. State(p) \in Call BY <1>1 DEF Consistent
<1>4. space[p] \in Space /\ memfds \in [Memfds -> Object] BY <1>2, <1>3, CallFields
<1> QED BY <1>1, <1>2, <1>3, <1>4, RefsType

LEMMA Moves ==
    ASSUME IInv, NEW p \in Procs, NEW t,
           Consistent(t, PagesElsewhere(space, p), RefsElsewhere(space, holders, p), shrunk),
           Undisturbed(RefsElsewhere(space, holders, p), memfds, t.memfds, shrunk, shrunk)
    PROVE  System(t.free, t.memfds, [space EXCEPT ![p] = t.as], holders, shrunk)
<1>1. holders \in [Memfds -> SUBSET Procs] /\ shrunk \in SUBSET Memfds
      /\ System(free, memfds, space, holders, shrunk)
      BY DEF IInv, System
<1> QED BY <1>1, SystemMoves

LEMMA SameObjects ==
    ASSUME NEW K, NEW mf, NEW new, new = mf, NEW sh
    PROVE  Undisturbed(K, mf, new, sh, sh)
BY DEF Undisturbed

LEMMA Quiet ==
    ASSUME IInv, NEW p \in Procs, NEW t,
           Consistent(t, PagesElsewhere(space, p), RefsElsewhere(space, holders, p), shrunk),
           t.memfds = State(p).memfds
    PROVE  System(t.free, t.memfds, [space EXCEPT ![p] = t.as], holders, shrunk)
<1>1. State(p).memfds = memfds BY CallOf
<1>2. Undisturbed(RefsElsewhere(space, holders, p), memfds, t.memfds, shrunk, shrunk)
      BY <1>1, SameObjects
<1> QED BY <1>2, Moves

-----------------------------------------------------------------------------
(* The actions on anonymous memory *)

LEMMA VmMapInv ==
    ASSUME IInv, NEW p \in Procs, NEW n \in 1 .. VmSize, VmMap(p, n)
    PROVE  IInv'
<1> DEFINE t == VmMapped(State(p), n)
<1>1. n \in Nat \ {0} BY Sizes
<1>2. Consistent(t, PagesElsewhere(space, p), RefsElsewhere(space, holders, p), shrunk)
      /\ t.memfds = State(p).memfds
      BY <1>1, CallOf, VmMapsConsistent DEF VmMap
<1>3. Become(p, t) /\ UNCHANGED <<holders, shrunk>> BY DEF VmMap
<1> HIDE DEF t
<1>4. System(t.free, t.memfds, [space EXCEPT ![p] = t.as], holders, shrunk) BY <1>2, Quiet
<1> QED BY <1>3, <1>4 DEF Become, IInv

LEMMA BrkInv ==
    ASSUME IInv, NEW p \in Procs, NEW n \in 0 .. HeapSize, Brk(p, n)
    PROVE  IInv'
<1> DEFINE s == State(p)
           h == s.as.heap
           g == [Filled(s, h + 1, n - h) EXCEPT !.as.heap = n]
           c == [Unmapped(s, n + 1 .. h, TRUE) EXCEPT !.as.heap = n]
           O == PagesElsewhere(space, p)
           K == RefsElsewhere(space, holders, p)
<1>1. Consistent(s, O, K, shrunk) BY CallOf
<1>2. UNCHANGED <<holders, shrunk>> BY DEF Brk
<1>3. CASE /\ n > h /\ Present(s.as, Span(h + 1, n - h)) = {} /\ CanFill(s, n - h)
           /\ Become(p, g)
   <2>1. Consistent(g, O, K, shrunk) /\ g.memfds = s.memfds
      <3> HIDE DEF s, O, K
      <3> QED BY <1>1, <1>3, BrkGrows
   <2>2. Become(p, g) BY <1>3
   <2> HIDE DEF g
   <2>3. System(g.free, g.memfds, [space EXCEPT ![p] = g.as], holders, shrunk) BY <2>1, Quiet
   <2> QED BY <1>2, <2>2, <2>3 DEF Become, IInv
<1>4. CASE n < h /\ Become(p, c)
   <2>1. Consistent(c, O, K, shrunk) /\ c.memfds = s.memfds
      <3> HIDE DEF s, O, K
      <3> QED BY <1>1, <1>4, BrkShrinks
   <2>2. Become(p, c) BY <1>4
   <2> HIDE DEF c
   <2>3. System(c.free, c.memfds, [space EXCEPT ![p] = c.as], holders, shrunk) BY <2>1, Quiet
   <2> QED BY <1>2, <2>2, <2>3 DEF Become, IInv
<1> QED BY <1>3, <1>4 DEF Brk

LEMMA VmUnmapInv ==
    ASSUME IInv, NEW p \in Procs, NEW r \in Slots, VmUnmap(p, r)
    PROVE  IInv'
<1> DEFINE t == RegionUnmapped(State(p), r)
           O == PagesElsewhere(space, p)
           K == RefsElsewhere(space, holders, p)
<1>1. /\ Consistent(State(p), O, K, shrunk) /\ K \in [Memfds -> Nat]
      /\ State(p).memfds = memfds /\ State(p).as = space[p]
      BY CallOf
<1>2. Live(State(p).as, r) BY <1>1 DEF VmUnmap, Live
<1>3. Become(p, t) /\ UNCHANGED <<holders, shrunk>> BY DEF VmUnmap
<1>4. Consistent(t, O, K, shrunk) /\ Undisturbed(K, memfds, t.memfds, shrunk, shrunk)
   <2> HIDE DEF O, K
   <2> QED BY <1>1, <1>2, UnmapsConsistent
<1> HIDE DEF t
<1>5. System(t.free, t.memfds, [space EXCEPT ![p] = t.as], holders, shrunk) BY <1>4, Moves
<1> QED BY <1>3, <1>5 DEF Become, IInv

LEMMA MremapInv ==
    ASSUME IInv, NEW p \in Procs, NEW base, NEW old, NEW n \in 1 .. VmSize, NEW keep \in BOOLEAN,
           Mremap(p, base, old, n, keep)
    PROVE  IInv'
<1> DEFINE s == State(p)
           u == VmMapped(s, n)
           copied == Span(base, Min({old, n}))
           found == {r \in Slots : s.as.regions[r].active /\ Exact(s.as, r, base, old)}
           fails == Present(s.as, copied) # copied \/ (~keep /\ found = {})
           a == RegionUnmapped(u, Min(found))
           b == [s EXCEPT !.as.next = u.as.next]
           O == PagesElsewhere(space, p)
           K == RefsElsewhere(space, holders, p)
<1>1. Consistent(s, O, K, shrunk) /\ K \in [Memfds -> Nat] /\ s.memfds = memfds BY CallOf
<1>2. UNCHANGED <<holders, shrunk>> /\ CanVmMap(s, n) BY DEF Mremap
<1>3. n \in Nat \ {0} BY Sizes
<1>4. Become(p, IF fails THEN b ELSE IF keep THEN u ELSE a) BY Zenon DEF Mremap
<1>5. /\ Consistent(u, O, K, shrunk) /\ u.memfds = s.memfds
      /\ u.as.next \in Low + 1 .. Low + VmSize + 1
   <2> HIDE DEF O, K, s
   <2> QED BY <1>1, <1>2, <1>3, VmMapsConsistent
<1>6. CASE ~fails /\ keep
   <2>1. Become(p, u) BY <1>4, <1>6
   <2> HIDE DEF u
   <2>2. System(u.free, u.memfds, [space EXCEPT ![p] = u.as], holders, shrunk) BY <1>5, Quiet
   <2> QED BY <1>2, <2>1, <2>2 DEF Become, IInv
<1>7. CASE ~fails /\ ~keep
   <2>1. found \subseteq Nat BY Sizes DEF Slots
   <2>2. Min(found) \in found
      <3>1. found # {} BY <1>7
      <3> HIDE DEF found
      <3> QED BY <2>1, <3>1, MinIsLeast
   <2>3. Min(found) \in Slots /\ Live(s.as, Min(found)) BY <2>2 DEF Live
   <2>4. Consistent(a, O, K, shrunk) /\ Undisturbed(K, memfds, a.memfds, shrunk, shrunk)
      <3> HIDE DEF O, K, s, found
      <3> QED BY <1>1, <1>2, <1>3, <2>3, MovedConsistent
   <2>5. Become(p, a) BY <1>4, <1>7
   <2> HIDE DEF a
   <2>6. System(a.free, a.memfds, [space EXCEPT ![p] = a.as], holders, shrunk) BY <2>4, Moves
   <2> QED BY <1>2, <2>5, <2>6 DEF Become, IInv
<1>8. CASE fails
   <2>1. Consistent(b, O, K, shrunk) /\ b.memfds = s.memfds
      <3> HIDE DEF O, K, s, u
      <3> QED BY <1>1, <1>5, NextConsistent
   <2>2. Become(p, b) BY <1>4, <1>8
   <2> HIDE DEF b
   <2>3. System(b.free, b.memfds, [space EXCEPT ![p] = b.as], holders, shrunk) BY <2>1, Quiet
   <2> QED BY <1>2, <2>2, <2>3 DEF Become, IInv
<1> QED BY <1>6, <1>7, <1>8

LEMMA ThreadStartInv ==
    ASSUME IInv, NEW p \in Procs, ThreadStart(p)
    PROVE  IInv'
<1> DEFINE t == [Filled(State(p), HeapSize + 1, StackSize) EXCEPT !.as.stack = TRUE]
<1>1. Consistent(t, PagesElsewhere(space, p), RefsElsewhere(space, holders, p), shrunk)
      /\ t.memfds = State(p).memfds
      BY CallOf, StackGrows DEF ThreadStart
<1>2. Become(p, t) /\ UNCHANGED <<holders, shrunk>> BY DEF ThreadStart
<1> HIDE DEF t
<1>3. System(t.free, t.memfds, [space EXCEPT ![p] = t.as], holders, shrunk) BY <1>1, Quiet
<1> QED BY <1>2, <1>3 DEF Become, IInv

LEMMA ThreadStopInv ==
    ASSUME IInv, NEW p \in Procs, ThreadStop(p)
    PROVE  IInv'
<1> DEFINE t == [Unmapped(State(p), StackSpan, TRUE) EXCEPT !.as.stack = FALSE]
<1>1. Consistent(t, PagesElsewhere(space, p), RefsElsewhere(space, holders, p), shrunk)
      /\ t.memfds = State(p).memfds
      BY CallOf, StackShrinks
<1>2. Become(p, t) /\ UNCHANGED <<holders, shrunk>> BY DEF ThreadStop
<1> HIDE DEF t
<1>3. System(t.free, t.memfds, [space EXCEPT ![p] = t.as], holders, shrunk) BY <1>1, Quiet
<1> QED BY <1>2, <1>3 DEF Become, IInv

(* The range of a fixed mapping. *)
LEMMA FixedRange ==
    ASSUME NEW base \in Virt, NEW n \in Virt, base + n - 1 \in Virt
    PROVE  Within(base, n)
<1>1. base \in Nat /\ base >= 1 /\ n \in Nat \ {0} BY Sizes DEF Virt
<1>2. base + n - 1 <= Low + VmSize BY Sizes DEF Virt
<1>3. ASSUME NEW va \in Span(base, n) PROVE va \in Virt
   <2>1. va \in Nat /\ base <= va /\ va <= base + n - 1 BY <1>1 DEF Span
   <2> QED BY <2>1, <1>1, <1>2, Sizes DEF Virt
<1> QED BY <1>1, <1>3 DEF Within

LEMMA VmMapFixedInv ==
    ASSUME IInv, NEW p \in Procs, NEW base \in Virt, NEW n \in Virt,
           base + n - 1 \in Virt, VmMapFixed(p, base, n)
    PROVE  IInv'
<1> DEFINE s == State(p)
           over == Overlapping(s.as, base, n)
           r == Min(over)
           k == Min(FreeSlots(s.as))
           a == Replaced(s, base, n, k)
           b == Replaced(RegionUnmapped(s, r), base, n, r)
           c == RegionUnmapped(s, r)
           O == PagesElsewhere(space, p)
           K == RefsElsewhere(space, holders, p)
<1>1. Consistent(s, O, K, shrunk) /\ K \in [Memfds -> Nat] /\ s.memfds = memfds BY CallOf
<1>2. UNCHANGED <<holders, shrunk>> BY DEF VmMapFixed
<1>3. Within(base, n) BY FixedRange
<1>4. CASE over = {} /\ FreeSlots(s.as) # {} /\ Become(p, a)
   <2>1. k \in Slots /\ ~Live(s.as, k) BY <1>4, SlotFound
   <2>2. \A q \in Slots : Live(s.as, q) => RegionSpan(s.as.regions[q]) \cap Span(base, n) = {}
         BY <1>4 DEF Overlapping, Live
   <2>3. Consistent(a, O, K, shrunk) /\ a.memfds = s.memfds
      <3> HIDE DEF O, K, s, k
      <3> QED BY <1>1, <1>3, <2>1, <2>2, ReplacedConsistent
   <2>4. Become(p, a) BY <1>4
   <2> HIDE DEF a
   <2>5. System(a.free, a.memfds, [space EXCEPT ![p] = a.as], holders, shrunk) BY <2>3, Quiet
   <2> QED BY <1>2, <2>4, <2>5 DEF Become, IInv
<1>5. CASE /\ over # {} /\ Exact(s.as, r, base, n)
           /\ Become(p, IF Whole(s.as, r) THEN b ELSE c)
   <2>1. r \in Slots /\ Live(s.as, r)
      <3>1. over \subseteq Nat BY Sizes DEF Overlapping, Slots
      <3>2. r \in over
         <4> HIDE DEF over
         <4> QED BY <3>1, <1>5, MinIsLeast
      <3> QED BY <3>2 DEF Overlapping, Live
   <2>2. CASE Whole(s.as, r)
      <3>1. Consistent(b, O, K, shrunk) /\ Undisturbed(K, memfds, b.memfds, shrunk, shrunk)
         <4> HIDE DEF O, K, s, r
         <4> QED BY <1>1, <1>3, <1>5, <2>1, <2>2, MapsFixedConsistent
      <3>2. Become(p, b) BY <1>5, <2>2
      <3> HIDE DEF b
      <3>3. System(b.free, b.memfds, [space EXCEPT ![p] = b.as], holders, shrunk)
            BY <3>1, Moves
      <3> QED BY <1>2, <3>2, <3>3 DEF Become, IInv
   <2>3. CASE ~Whole(s.as, r)
      <3>1. Consistent(c, O, K, shrunk) /\ Undisturbed(K, memfds, c.memfds, shrunk, shrunk)
         <4> HIDE DEF O, K, s, r
         <4> QED BY <1>1, <2>1, UnmapsConsistent
      <3>2. Become(p, c) BY <1>5, <2>3
      <3> HIDE DEF c
      <3>3. System(c.free, c.memfds, [space EXCEPT ![p] = c.as], holders, shrunk)
            BY <3>1, Moves
      <3> QED BY <1>2, <3>2, <3>3 DEF Become, IInv
   <2> QED BY <2>2, <2>3
<1> QED BY <1>4, <1>5, Zenon DEF VmMapFixed

-----------------------------------------------------------------------------
(* The actions on shared objects *)

LEMMA HolderCounts ==
    ASSUME IInv, NEW p \in Procs, NEW m \in Memfds, p \in holders[m]
    PROVE  RefsElsewhere(space, holders, p)[m] >= 1
<1>1. Cardinality(ViewsElsewhere(space, p, m)) \in Nat BY ViewsSplit
<1>2. RefsElsewhere(space, holders, p)[m]
        = (IF holders[m] = {} THEN 0 ELSE 1) + Cardinality(ViewsElsewhere(space, p, m))
      BY RefsType
<1> QED BY <1>1, <1>2

LEMMA MemfdWriteInv ==
    ASSUME IInv, NEW p \in Procs, NEW m \in Memfds, NEW n \in 0 .. MaxPages,
           p \in holders[m], Become(p, Grown(State(p), m, n)), UNCHANGED <<holders, shrunk>>
    PROVE  IInv'
<1> DEFINE t == Grown(State(p), m, n)
           O == PagesElsewhere(space, p)
           K == RefsElsewhere(space, holders, p)
<1>1. /\ Consistent(State(p), O, K, shrunk) /\ K \in [Memfds -> Nat]
      /\ State(p).memfds = memfds
      BY CallOf
<1>2. K[m] >= 1 BY HolderCounts
<1>3. Consistent(t, O, K, shrunk) /\ Undisturbed(K, memfds, t.memfds, shrunk, shrunk)
   <2> HIDE DEF O, K
   <2> QED BY <1>1, <1>2, GrownConsistent
<1>4. Become(p, t) OBVIOUS
<1> HIDE DEF t
<1>5. System(t.free, t.memfds, [space EXCEPT ![p] = t.as], holders, shrunk) BY <1>3, Moves
<1> QED BY <1>4, <1>5 DEF Become, IInv

LEMMA MemfdMapInv ==
    ASSUME IInv, NEW p \in Procs, NEW m \in Memfds, NEW start \in 0 .. MaxPages - 1,
           NEW n \in 1 .. VmSize, MemfdMap(p, m, start, n)
    PROVE  IInv'
<1> DEFINE u == Grown(State(p), m, start + n)
           v == WithView(u, m, start, n)
           t == IF CanView(u, m, start, n) THEN v ELSE u
           O == PagesElsewhere(space, p)
           K == RefsElsewhere(space, holders, p)
<1>1. /\ Consistent(State(p), O, K, shrunk) /\ K \in [Memfds -> Nat]
      /\ State(p).memfds = memfds
      BY CallOf
<1>2. p \in holders[m] /\ start + n <= MaxPages BY DEF MemfdMap
<1>3. K[m] >= 1 BY <1>2, HolderCounts
<1>4. start + n \in 0 .. MaxPages /\ start \in 0 .. MaxPages /\ n \in Nat \ {0}
      BY <1>2, Sizes
<1>5. Become(p, t) /\ UNCHANGED <<holders, shrunk>> BY DEF MemfdMap
<1>6. Consistent(u, O, K, shrunk) /\ Undisturbed(K, memfds, u.memfds, shrunk, shrunk)
   <2> DEFINE k == start + n
              w == Grown(State(p), m, k)
   <2>1. k \in 0 .. MaxPages /\ u = w BY <1>4
   <2> HIDE DEF O, K, k
   <2>2. Consistent(w, O, K, shrunk) /\ Undisturbed(K, memfds, w.memfds, shrunk, shrunk)
         BY <1>1, <1>3, <2>1, GrownConsistent
   <2> HIDE DEF u, w
   <2> QED BY <2>1, <2>2
<1>7. Consistent(t, O, K, shrunk) /\ Undisturbed(K, memfds, t.memfds, shrunk, shrunk)
   <2> HIDE DEF O, K, u
   <2>1. CASE CanView(u, m, start, n)
      <3>1. Consistent(v, O, K, shrunk) /\ Undisturbed(K, u.memfds, v.memfds, shrunk, shrunk)
            BY <1>1, <1>3, <1>4, <1>6, <2>1, ViewConsistent
      <3> HIDE DEF v
      <3>2. Undisturbed(K, memfds, v.memfds, shrunk, shrunk) BY <1>6, <3>1 DEF Undisturbed
      <3> QED BY <2>1, <3>1, <3>2
   <2>2. CASE ~CanView(u, m, start, n) BY <2>2, <1>6
   <2> QED BY <2>1, <2>2
<1> HIDE DEF t
<1>8. System(t.free, t.memfds, [space EXCEPT ![p] = t.as], holders, shrunk) BY <1>7, Moves
<1> QED BY <1>5, <1>8 DEF Become, IInv

(* No view of any process reaches the pages cut off. *)
LEMMA NoneViewed ==
    ASSUME IInv, NEW q \in Procs, NEW m \in Memfds, NEW n \in Nat,
           Viewed(m) \cap (n + 1 .. Len(memfds[m].pages)) = {}
    PROVE  Spared(space[q], m, n, Len(memfds[m].pages))
<1> SUFFICES ASSUME NEW r \in ViewsOf(space[q], m), NEW i \in 1 .. space[q].regions[r].size,
                    space[q].regions[r].start + i \in n + 1 .. Len(memfds[m].pages)
             PROVE  FALSE
    BY DEF Spared
<1> DEFINE g == space[q].regions[r]
           j == g.start + i
           l == Len(memfds[m].pages)
<1>1. /\ State(q) \in Call /\ memfds \in [Memfds -> Object] /\ State(q).memfds = memfds
      /\ space[q] \in Space
      /\ Consistent(State(q), PagesElsewhere(space, q), RefsElsewhere(space, holders, q), shrunk)
      BY CallOf
<1>2. l \in Nat BY <1>1, ObjectFields
<1>3. l <= MaxPages BY <1>1 DEF Consistent, Objects
<1>4. r \in Slots /\ g.active /\ g.memfd = m BY DEF ViewsOf, Live
<1>5. g \in Regions BY <1>1, <1>4, SpaceFields
<1>6. g.start \in Nat /\ g.size \in Nat BY <1>5, RegionFields
<1>7. j \in n + 1 .. l OBVIOUS
<1>8. j \in Span(g.start + 1, g.size)
   <2> DEFINE a == g.start
              b == g.size
   <2>1. a \in Nat /\ b \in Nat /\ i \in 1 .. b BY <1>6
   <2> HIDE DEF a, b
   <2>2. a + i \in a + 1 .. (a + 1) + b - 1 BY <2>1
   <2> QED BY <2>2 DEF a, b, Span
<1>9. j \in 1 .. MaxPages
   <2> HIDE DEF l, j
   <2> QED BY <1>2, <1>3, <1>7, Sizes
<1>10. j \in Viewed(m) BY <1>4, <1>8, <1>9 DEF Viewed
<1> QED BY <1>7, <1>10

LEMMA MemfdTruncateInv ==
    ASSUME IInv, NEW p \in Procs, NEW m \in Memfds, NEW n \in 0 .. MaxPages,
           MemfdTruncate(p, m, n)
    PROVE  IInv'
<1> DEFINE s == State(p)
           old == memfds[m].pages
           l == Len(old)
           c == [s EXCEPT !.free = @ \cup Range(SubSeq(memfds[m].pages, n + 1, l)),
                          !.memfds[m].pages = SubSeq(@, 1, n)]
           news == IF Viewed(m) \cap (n + 1 .. l) = {} THEN shrunk ELSE shrunk \cup {m}
           O == PagesElsewhere(space, p)
           K == RefsElsewhere(space, holders, p)
<1>1. /\ Consistent(s, O, K, shrunk) /\ K \in [Memfds -> Nat]
      /\ s.memfds = memfds /\ s.as = space[p] /\ memfds \in [Memfds -> Object]
      BY CallOf
<1>2. p \in holders[m] /\ UNCHANGED holders BY DEF MemfdTruncate
<1>3. K[m] >= 1 BY <1>2, HolderCounts
<1>4. l \in Nat /\ n \in Nat BY <1>1, ObjectFields, Sizes
<1>5. CASE n >= l
   <2>1. Become(p, Grown(s, m, n)) /\ UNCHANGED shrunk BY <1>5 DEF MemfdTruncate
   <2> QED BY <2>1, <1>2, MemfdWriteInv
<1>6. CASE ~(n >= l)
   <2>1. Become(p, c) /\ shrunk' = news BY <1>6, Zenon DEF MemfdTruncate
   <2>2. n < l
      <3> HIDE DEF l
      <3> QED BY <1>4, <1>6
   <2>3. /\ shrunk \subseteq Memfds /\ holders \in [Memfds -> SUBSET Procs]
         /\ System(free, memfds, space, holders, shrunk)
         BY DEF IInv, System
   <2>4. shrunk \subseteq news /\ news \in SUBSET Memfds BY <2>3
   <2>5. ASSUME NEW q \in Procs, m \notin news PROVE Spared(space[q], m, n, l)
      <3>1. Viewed(m) \cap (n + 1 .. l) = {} BY <2>5
      <3> QED BY <3>1, <1>4, NoneViewed
   <2> HIDE DEF news
   <2>6. /\ Consistent(c, O, K, news)
         /\ \A x \in Space : Sees(x, memfds, shrunk) /\ (m \notin news => Spared(x, m, n, l))
                => Sees(x, c.memfds, news)
      <3> HIDE DEF O, K, s
      <3>1. /\ n < Len(s.memfds[m].pages)
            /\ m \notin news => Spared(s.as, m, n, Len(s.memfds[m].pages))
            BY <2>2, <2>5, <1>1
      <3> DEFINE d == [s EXCEPT !.free = @ \cup Range(SubSeq(s.memfds[m].pages, n + 1,
                                                             Len(s.memfds[m].pages))),
                                !.memfds[m].pages = SubSeq(@, 1, n)]
      <3>2. /\ Consistent(d, O, K, news)
            /\ \A x \in Space : Sees(x, s.memfds, shrunk)
                     /\ (m \notin news => Spared(x, m, n, Len(s.memfds[m].pages)))
                   => Sees(x, d.memfds, news)
            BY <3>1, <2>4, <1>1, <1>3, <1>4, TruncatedConsistent
      <3>3. d = c BY <1>1
      <3> HIDE DEF c, d
      <3> QED BY <3>2, <3>3, <1>1
   <2> HIDE DEF c
   <2>7. ASSUME NEW q \in Procs \ {p} PROVE Sees(space[q], c.memfds, news)
      <3>1. /\ Consistent(State(q), PagesElsewhere(space, q), RefsElsewhere(space, holders, q), shrunk)
            /\ State(q).as = space[q] /\ State(q).memfds = memfds /\ space[q] \in Space
            BY CallOf
      <3>2. Sees(space[q], memfds, shrunk) BY <3>1 DEF Consistent
      <3> QED BY <3>1, <3>2, <2>5, <2>6
   <2>8. System(c.free, c.memfds, [space EXCEPT ![p] = c.as], holders, news)
         BY <2>3, <2>4, <2>6, <2>7, OneSpaceMoves
   <2> QED BY <2>1, <2>8, <1>2 DEF Become, IInv
<1> QED BY <1>5, <1>6

LEMMA MemfdCreateInv ==
    ASSUME IInv, NEW p \in Procs, MemfdCreate(p)
    PROVE  IInv'
<1> DEFINE idle == {i \in Memfds : memfds[i].refs = 0}
           m == Min(idle)
           G == [holders EXCEPT ![m] = {p}]
           mf == [memfds EXCEPT ![m] = [refs |-> 1, pages |-> <<>>]]
           t == [free |-> free, memfds |-> mf, as |-> space[p]]
           O == PagesElsewhere(space, p)
           K == RefsElsewhere(space, holders, p)
           L == RefsElsewhere(space, G, p)
<1>1. /\ Consistent(State(p), O, K, shrunk) /\ K \in [Memfds -> Nat]
      /\ State(p).free = free /\ State(p).memfds = memfds /\ State(p).as = space[p]
      /\ State(p) \in Call /\ memfds \in [Memfds -> Object] /\ space[p] \in Space
      BY CallOf
<1>2. /\ holders \in [Memfds -> SUBSET Procs] /\ shrunk \subseteq Memfds
      /\ System(free, memfds, space, holders, shrunk) /\ space \in [Procs -> Space]
      BY DEF IInv, System
<1>3. m \in Memfds /\ memfds[m].refs = 0
   <2>1. idle \subseteq Nat BY Sizes DEF Memfds
   <2>2. idle # {} BY DEF MemfdCreate
   <2>3. m \in idle
      <3> HIDE DEF idle
      <3> QED BY <2>1, <2>2, MinIsLeast
   <2> QED BY <2>3
<1>4. /\ memfds' = mf /\ holders' = G /\ shrunk' = shrunk \ {m} /\ UNCHANGED <<free, space>>
      BY DEF MemfdCreate
<1> HIDE DEF m
<1>5. G \in [Memfds -> SUBSET Procs] /\ G[m] = {p} /\ \A j \in Memfds : j # m => G[j] = holders[j]
      BY <1>2, <1>3
<1>6. free \in SUBSET Pages BY <1>1, CallFields
<1>7. mf \in [Memfds -> Object]
   <2>1. [refs |-> 1, pages |-> <<>>] \in Object BY DEF Object
   <2> QED BY <2>1, <1>1, <1>3
<1>8. t \in Call /\ t.free = State(p).free /\ t.as = State(p).as /\ t.memfds = mf
      BY <1>1, <1>6, <1>7 DEF Call
<1>9. L \in [Memfds -> Nat] /\ L[m] = 1 /\ \A j \in Memfds : j # m => L[j] = K[j]
   <2> DEFINE e == Cardinality(ViewsElsewhere(space, p, m))
   <2>1. e \in Nat BY ViewsSplit
   <2>2. Cardinality(ViewsOf(space[p], m)) \in Nat BY ViewsFinite
   <2>3. 0 = K[m] + Cardinality(ViewsOf(space[p], m)) BY <1>1, <1>3 DEF Consistent, Counted
   <2>4. K[m] = (IF holders[m] = {} THEN 0 ELSE 1) + e BY <1>3, RefsType
   <2>5. L[m] = (IF G[m] = {} THEN 0 ELSE 1) + e BY <1>3, RefsType
   <2>6. ASSUME NEW j \in Memfds, j # m PROVE L[j] = K[j]
      <3>1. K[j] = (IF holders[j] = {} THEN 0 ELSE 1) + Cardinality(ViewsElsewhere(space, p, j))
            BY RefsType
      <3>2. L[j] = (IF G[j] = {} THEN 0 ELSE 1) + Cardinality(ViewsElsewhere(space, p, j))
            BY RefsType
      <3>3. G[j] = holders[j] BY <1>5, <2>6
      <3> HIDE DEF K, L, G
      <3> QED BY <3>1, <3>2, <3>3
   <2>7. L \in [Memfds -> Nat] BY RefsType
   <2>8. K[m] \in Nat BY <1>1, <1>3
   <2> HIDE DEF e, K, L
   <2>9. e = 0 BY <2>1, <2>2, <2>3, <2>4, <2>8
   <2>10. L[m] = 1 BY <2>5, <2>9, <1>5
   <2> QED BY <2>6, <2>7, <2>10
<1>10. /\ Consistent(t, O, L, shrunk \ {m})
       /\ Undisturbed(K, memfds, t.memfds, shrunk, shrunk \ {m})
   <2> HIDE DEF t, O, K, L
   <2>1. State(p).memfds[m].refs = 0 BY <1>1, <1>3
   <2>2. t.memfds = [State(p).memfds EXCEPT ![m] = [refs |-> 1, pages |-> <<>>]]
         BY <1>1, <1>8
   <2>3. /\ Consistent(t, O, L, shrunk \ {m})
         /\ Undisturbed(K, State(p).memfds, t.memfds, shrunk, shrunk \ {m})
         BY <2>1, <2>2, <1>1, <1>3, <1>8, <1>9, CreatedConsistent
   <2> QED BY <2>3, <1>1
<1>11. shrunk \ {m} \in SUBSET Memfds BY <1>2
<1>12. [space EXCEPT ![p] = t.as] = space BY <1>1, <1>2, <1>8
<1> HIDE DEF t, G, mf
<1>13. System(t.free, t.memfds, [space EXCEPT ![p] = t.as], G, shrunk \ {m})
       BY <1>2, <1>5, <1>10, <1>11, SystemMoves
<1> QED BY <1>1, <1>4, <1>8, <1>12, <1>13 DEF IInv

LEMMA ShareInv ==
    ASSUME IInv, NEW p \in Procs, NEW q \in Procs, NEW m \in Memfds, Share(p, q, m)
    PROVE  IInv'
<1> DEFINE G == [holders EXCEPT ![m] = @ \cup {q}]
<1>1. /\ holders \in [Memfds -> SUBSET Procs] /\ shrunk \subseteq Memfds
      /\ space \in [Procs -> Space]
      /\ \A i \in Procs : Consistent([free |-> free, memfds |-> memfds, as |-> space[i]],
                                     PagesElsewhere(space, i), RefsElsewhere(space, holders, i), shrunk)
      BY DEF IInv, System
<1>2. /\ holders' = G /\ UNCHANGED <<free, space, memfds, shrunk>> /\ p \in holders[m]
      BY DEF Share
<1>3. G \in [Memfds -> SUBSET Procs] BY <1>1
<1>4. \A j \in Memfds : G[j] = {} <=> holders[j] = {} BY <1>1, <1>2
<1> HIDE DEF G
<1>5. \A i \in Procs : RefsElsewhere(space, G, i) = RefsElsewhere(space, holders, i)
      BY <1>4 DEF RefsElsewhere
<1>6. System(free, memfds, space, G, shrunk) BY <1>1, <1>3, <1>5 DEF System
<1> QED BY <1>2, <1>6 DEF IInv

(* Closing descriptors: an object loses the reference of its file with the  *)
(* last of them.                                                            *)
LEMMA ClosedConsistent ==
    ASSUME IInv, NEW p \in Procs, NEW ms \in SUBSET Memfds, \A m \in ms : p \in holders[m],
           NEW G \in [Memfds -> SUBSET Procs],
           \A m \in Memfds : G[m] = IF m \in ms THEN holders[m] \ {p} ELSE holders[m]
    PROVE  LET t == Dropped(State(p), p, ms)
               L == RefsElsewhere(space, G, p)
           IN  /\ Consistent(t, PagesElsewhere(space, p), L, shrunk) /\ t.as = space[p]
               /\ Undisturbed(L, memfds, t.memfds, shrunk, shrunk)
               /\ L \in [Memfds -> Nat]
<1> DEFINE t == Dropped(State(p), p, ms)
           O == PagesElsewhere(space, p)
           K == RefsElsewhere(space, holders, p)
           L == RefsElsewhere(space, G, p)
<1>1. /\ Consistent(State(p), O, K, shrunk) /\ K \in [Memfds -> Nat]
      /\ State(p).memfds = memfds /\ State(p).as = space[p]
      BY CallOf
<1>2. holders \in [Memfds -> SUBSET Procs] BY DEF IInv, System
<1>3. L \in [Memfds -> Nat] BY RefsType
<1>4. \A m \in LastCloses(p, ms) : K[m] >= 1 BY HolderCounts DEF LastCloses
<1>5. ASSUME NEW m \in Memfds
      PROVE  L[m] = IF m \in LastCloses(p, ms) THEN K[m] - 1 ELSE K[m]
   <2> DEFINE e == Cardinality(ViewsElsewhere(space, p, m))
   <2>1. e \in Nat BY ViewsSplit
   <2>2. K[m] = (IF holders[m] = {} THEN 0 ELSE 1) + e BY RefsType
   <2>3. L[m] = (IF G[m] = {} THEN 0 ELSE 1) + e BY RefsType
   <2>4. m \in LastCloses(p, ms) => holders[m] # {} /\ G[m] = {} BY DEF LastCloses
   <2>5. m \notin LastCloses(p, ms) => (G[m] = {} <=> holders[m] = {}) BY <1>2 DEF LastCloses
   <2> HIDE DEF e, K, L
   <2> QED BY <2>1, <2>2, <2>3, <2>4, <2>5
<1> HIDE DEF O, K, L
<1>6. /\ Consistent(t, O, L, shrunk) /\ t.as = State(p).as
      /\ Undisturbed(L, State(p).memfds, t.memfds, shrunk, shrunk)
      BY <1>1, <1>3, <1>4, <1>5, DroppedConsistent
<1> HIDE DEF t
<1> QED BY <1>1, <1>3, <1>6 DEF t, O, L

LEMMA MemfdCloseInv ==
    ASSUME IInv, NEW p \in Procs, NEW m \in Memfds, MemfdClose(p, m)
    PROVE  IInv'
<1> DEFINE t == Dropped(State(p), p, {m})
           G == [holders EXCEPT ![m] = @ \ {p}]
<1>1. /\ holders \in [Memfds -> SUBSET Procs] /\ shrunk \in SUBSET Memfds
      /\ System(free, memfds, space, holders, shrunk)
      BY DEF IInv, System
<1>2. /\ p \in holders[m] /\ Become(p, t) /\ holders' = G /\ UNCHANGED shrunk
      BY DEF MemfdClose
<1>3. /\ G \in [Memfds -> SUBSET Procs]
      /\ \A j \in Memfds : G[j] = IF j \in {m} THEN holders[j] \ {p} ELSE holders[j]
      BY <1>1
<1>4. {m} \in SUBSET Memfds /\ \A j \in {m} : p \in holders[j] BY <1>2
<1> HIDE DEF G
<1>5. /\ Consistent(t, PagesElsewhere(space, p), RefsElsewhere(space, G, p), shrunk)
      /\ Undisturbed(RefsElsewhere(space, G, p), memfds, t.memfds, shrunk, shrunk)
      BY <1>3, <1>4, ClosedConsistent
<1> HIDE DEF t
<1>6. System(t.free, t.memfds, [space EXCEPT ![p] = t.as], G, shrunk)
      BY <1>1, <1>3, <1>5, SystemMoves
<1> QED BY <1>2, <1>6 DEF Become, IInv

LEMMA ExitInv ==
    ASSUME IInv, NEW p \in Procs, Exit(p)
    PROVE  IInv'
<1> DEFINE ms == {m \in Memfds : p \in holders[m]}
           u == Dropped(State(p), p, ms)
           t == ResourcesReleased(u)
           G == [m \in Memfds |-> holders[m] \ {p}]
           O == PagesElsewhere(space, p)
           L == RefsElsewhere(space, G, p)
<1>1. /\ holders \in [Memfds -> SUBSET Procs] /\ shrunk \in SUBSET Memfds
      /\ System(free, memfds, space, holders, shrunk)
      BY DEF IInv, System
<1>2. Become(p, t) /\ holders' = G /\ UNCHANGED shrunk BY DEF Exit
<1>3. /\ G \in [Memfds -> SUBSET Procs]
      /\ \A j \in Memfds : G[j] = IF j \in ms THEN holders[j] \ {p} ELSE holders[j]
      BY <1>1
<1>4. ms \in SUBSET Memfds /\ \A j \in ms : p \in holders[j] OBVIOUS
<1> HIDE DEF G, ms
<1>5. /\ Consistent(u, O, L, shrunk) /\ L \in [Memfds -> Nat]
      /\ Undisturbed(L, memfds, u.memfds, shrunk, shrunk)
      BY <1>3, <1>4, ClosedConsistent
<1> HIDE DEF u
<1>6. Consistent(t, O, L, shrunk) /\ Undisturbed(L, u.memfds, t.memfds, shrunk, shrunk)
   <2> HIDE DEF O, L
   <2> QED BY <1>5, ResourcesReleasedConsistent
<1> HIDE DEF t
<1>7. Undisturbed(L, memfds, t.memfds, shrunk, shrunk)
   <2> HIDE DEF L
   <2> QED BY <1>5, <1>6 DEF Undisturbed
<1>8. System(t.free, t.memfds, [space EXCEPT ![p] = t.as], G, shrunk)
      BY <1>1, <1>3, <1>6, <1>7, SystemMoves
<1> QED BY <1>2, <1>8 DEF Become, IInv

-----------------------------------------------------------------------------
(* The invariant holds *)

LEMMA InitInv == Init => IInv
<1> SUFFICES ASSUME Init PROVE IInv
    OBVIOUS
<1>1. /\ free = Pages /\ space = [p \in Procs |-> Blank]
      /\ memfds = [m \in Memfds |-> [refs |-> 0, pages |-> <<>>]]
      /\ holders = [m \in Memfds |-> {}] /\ shrunk = {}
      BY DEF Init
<1>2. space \in [Procs -> Space] /\ \A q \in Procs : space[q] = Blank BY <1>1, BlankFacts
<1>3. \A m \in Memfds : /\ memfds[m].refs = 0 /\ memfds[m].pages = <<>>
      BY <1>1
<1>4. memfds \in [Memfds -> Object]
   <2>1. [refs |-> 0, pages |-> <<>>] \in Object BY DEF Object
   <2> QED BY <2>1, <1>1
<1>5. ObjectPages(memfds) = {} /\ Distinct(memfds)
   <2>1. \A m \in Memfds : \A x : ~InObject(memfds[m], x) BY <1>3, EmptyObject DEF InObject
   <2>2. ObjectPages(memfds) = {} BY <2>1 DEF ObjectPages
   <2>3. Distinct(memfds) BY <2>1, <1>3, EmptyObject DEF Distinct
   <2> QED BY <2>2, <2>3
<1>6. Objects(memfds)
   <2>1. Len(<<>>) <= MaxPages BY EmptyObject, Sizes
   <2> QED BY <2>1, <1>3 DEF Objects
<1>7. ASSUME NEW p \in Procs
      PROVE  Consistent([free |-> free, memfds |-> memfds, as |-> space[p]],
                        PagesElsewhere(space, p), RefsElsewhere(space, holders, p), shrunk)
   <2> DEFINE s == [free |-> free, memfds |-> memfds, as |-> space[p]]
   <2>1. s \in Call /\ s.free = Pages /\ s.memfds = memfds /\ s.as = Blank
         BY <1>1, <1>2, <1>4 DEF Call
   <2>2. PagesElsewhere(space, p) = {} BY <1>2, BlankFacts DEF PagesElsewhere
   <2>3. ASSUME NEW m \in Memfds PROVE RefsElsewhere(space, holders, p)[m] = 0
      <3>1. ViewsElsewhere(space, p, m) = {} BY <1>2, BlankFacts DEF ViewsElsewhere
      <3>2. Cardinality(ViewsElsewhere(space, p, m)) = 0 BY <3>1, FS_EmptySet
      <3>3. holders[m] = {} BY <1>1
      <3>4. RefsElsewhere(space, holders, p)[m]
              = (IF holders[m] = {} THEN 0 ELSE 1) + Cardinality(ViewsElsewhere(space, p, m))
            BY RefsType
      <3> QED BY <3>2, <3>3, <3>4
   <2> HIDE DEF s
   <2>4. Parts(s.free, Held(s.as, Seen(s.as)), ObjectPages(s.memfds), PagesElsewhere(space, p))
         BY <2>1, <2>2, <1>5, BlankFacts DEF Parts
   <2>5. Accounted(s, Seen(s.as), PagesElsewhere(space, p))
         BY <2>1, <2>4, <1>5, BlankFacts DEF Accounted
   <2>6. Counted(s, RefsElsewhere(space, holders, p))
      <3> SUFFICES ASSUME NEW m \in Memfds
                   PROVE  s.memfds[m].refs
                            = RefsElsewhere(space, holders, p)[m] + Cardinality(ViewsOf(s.as, m))
          BY DEF Counted
      <3>1. ViewsOf(s.as, m) = {} BY <2>1, BlankFacts
      <3>2. Cardinality(ViewsOf(s.as, m)) = 0 BY <3>1, FS_EmptySet
      <3> QED BY <3>2, <2>1, <2>3, <1>3
   <2>7. Shaped(s.as) /\ Sees(s.as, s.memfds, shrunk) /\ Objects(s.memfds)
         BY <2>1, <1>6, BlankFacts
   <2>8. Consistent(s, PagesElsewhere(space, p), RefsElsewhere(space, holders, p), shrunk)
         BY <2>1, <2>5, <2>6, <2>7 DEF Consistent
   <2> QED BY <2>8 DEF s
<1>8. holders \in [Memfds -> SUBSET Procs] /\ shrunk \subseteq Memfds BY <1>1
<1> QED BY <1>2, <1>7, <1>8 DEF IInv, System

LEMMA NextInv == IInv /\ [Next]_vars => IInv'
<1> SUFFICES ASSUME IInv, [Next]_vars PROVE IInv'
    OBVIOUS
<1>1. ASSUME NEW p \in Allocators, Anonymous(p) PROVE IInv'
   <2>0. p \in Procs BY Sizes
   <2>1. CASE \E n \in 1 .. VmSize : VmMap(p, n) BY <2>0, <2>1, VmMapInv
   <2>2. CASE \E base, n \in Virt : base + n - 1 \in Virt /\ VmMapFixed(p, base, n)
         BY <2>0, <2>2, VmMapFixedInv
   <2>3. CASE \E n \in 0 .. HeapSize : Brk(p, n) BY <2>0, <2>3, BrkInv
   <2>4. CASE \E base, old \in Virt : \E n \in 1 .. VmSize : \E keep \in BOOLEAN :
                 base + old - 1 \in Virt /\ Mremap(p, base, old, n, keep)
         BY <2>0, <2>4, MremapInv
   <2>5. CASE ThreadStart(p) BY <2>0, <2>5, ThreadStartInv
   <2>6. CASE ThreadStop(p) BY <2>0, <2>6, ThreadStopInv
   <2> QED BY <1>1, <2>1, <2>2, <2>3, <2>4, <2>5, <2>6 DEF Anonymous
<1>2. ASSUME NEW p \in Procs, NEW m \in Memfds, Shared(p, m) PROVE IInv'
   <2>1. CASE \E n \in 0 .. MaxPages : MemfdTruncate(p, m, n) BY <2>1, MemfdTruncateInv
   <2>2. ASSUME NEW n \in 1 .. MaxPages, MemfdWrite(p, m, n) PROVE IInv'
      <3>1. n \in 0 .. MaxPages BY Sizes
      <3> QED BY <3>1, <2>2, MemfdWriteInv DEF MemfdWrite
   <2>3. CASE \E start \in 0 .. MaxPages - 1 : \E n \in 1 .. VmSize : MemfdMap(p, m, start, n)
         BY <2>3, MemfdMapInv
   <2>4. CASE \E q \in Procs : Share(p, q, m) BY <2>4, ShareInv
   <2>5. CASE MemfdClose(p, m) BY <2>5, MemfdCloseInv
   <2> QED BY <1>2, <2>1, <2>2, <2>3, <2>4, <2>5 DEF Shared
<1>3. ASSUME NEW p \in Procs, NEW r \in Slots, VmUnmap(p, r) PROVE IInv'
      BY <1>3, VmUnmapInv
<1>4. ASSUME NEW p \in Procs, MemfdCreate(p) PROVE IInv' BY <1>4, MemfdCreateInv
<1>5. ASSUME NEW p \in Procs, Exit(p) PROVE IInv' BY <1>5, ExitInv
<1>6. CASE UNCHANGED vars BY <1>6 DEF vars, IInv
<1> QED BY <1>1, <1>2, <1>3, <1>4, <1>5, <1>6 DEF Next

(* The inductive invariant holds in every reachable state, whichever of the *)
(* free pages SomeOf stands for.                                            *)
THEOREM Invariance == Spec => []IInv
<1>1. Init => IInv BY InitInv
<1>2. IInv /\ [Next]_vars => IInv' BY NextInv
<1> QED BY <1>1, <1>2, PTL DEF Spec

-----------------------------------------------------------------------------
(* What the invariant means *)

LEMMA SpaceOf ==
    ASSUME IInv, NEW p \in Procs
    PROVE  /\ space[p] \in Space /\ Shaped(space[p]) /\ Sees(space[p], memfds, shrunk)
           /\ Separate(space[p], Seen(space[p]))
           /\ Distinct(memfds) /\ Objects(memfds) /\ memfds \in [Memfds -> Object]
           /\ Parts(free, Held(space[p], Seen(space[p])), ObjectPages(memfds),
                    PagesElsewhere(space, p))
           /\ free \subseteq Pages
<1>1. /\ Consistent(State(p), PagesElsewhere(space, p), RefsElsewhere(space, holders, p), shrunk)
      /\ State(p).free = free /\ State(p).memfds = memfds /\ State(p).as = space[p]
      /\ State(p) \in Call /\ space[p] \in Space /\ memfds \in [Memfds -> Object]
      BY CallOf
<1>2. free \subseteq Pages BY <1>1, CallFields
<1> QED BY <1>1, <1>2 DEF Consistent, Accounted

(* There is at least one process. *)
LEMMA FirstProcess == 0 \in Procs
BY Sizes DEF Procs

LEMMA RefsAreViews ==
    ASSUME IInv, NEW m \in Memfds
    PROVE  memfds[m].refs = (IF holders[m] = {} THEN 0 ELSE 1) + Cardinality(AllViews(space, m))
<1>0. PICK p \in Procs : TRUE BY FirstProcess
<1> DEFINE e == Cardinality(ViewsElsewhere(space, p, m))
           v == Cardinality(ViewsOf(space[p], m))
<1>1. /\ Consistent(State(p), PagesElsewhere(space, p), RefsElsewhere(space, holders, p), shrunk)
      /\ State(p).memfds = memfds /\ State(p).as = space[p]
      BY CallOf
<1>2. memfds[m].refs = RefsElsewhere(space, holders, p)[m] + v BY <1>1 DEF Consistent, Counted
<1>3. RefsElsewhere(space, holders, p)[m] = (IF holders[m] = {} THEN 0 ELSE 1) + e
      BY RefsType
<1>4. Cardinality(AllViews(space, m)) = e + v /\ e \in Nat BY ViewsSplit
<1>5. v \in Nat BY ViewsFinite
<1> HIDE DEF e, v
<1> QED BY <1>2, <1>3, <1>4, <1>5

(* No address is in two regions, and a region has a page at each of its     *)
(* addresses in the area of mapped regions, whatever was mapped over what   *)
(* and whatever brk and ending threads took below it.                       *)
THEOREM RegionsWholeHolds == Spec => []RegionsWhole
<1>1. IInv => RegionsWhole
   <2> SUFFICES ASSUME IInv, NEW p \in Procs, NEW r \in Slots, space[p].regions[r].active
                PROVE  /\ \A q \in Slots \ {r} : space[p].regions[q].active =>
                             RegionSpan(space[p].regions[r]) \cap RegionSpan(space[p].regions[q]) = {}
                       /\ \A va \in RegionSpan(space[p].regions[r]) :
                             va > Low => space[p].pt[va] # Absent
       BY DEF RegionsWhole
   <2>1. Shaped(space[p]) BY SpaceOf
   <2>2. Apart(space[p]) /\ GoodRegion(space[p], r) BY <2>1 DEF Shaped, Live
   <2> QED BY <2>2 DEF Apart, Live, GoodRegion
<1> QED BY <1>1, Invariance, PTL

(* A page of a process is below its break, in one of its regions or under a *)
(* thread's stack, also after a mapping that failed halfway.                *)
THEOREM NothingStrayHolds == Spec => []NothingStray
<1>1. IInv => NothingStray
   <2> SUFFICES ASSUME IInv, NEW p \in Procs, NEW va \in Virt, space[p].pt[va] # Absent
                PROVE  \/ va <= space[p].heap
                       \/ va \in StackSpan /\ space[p].stack
                       \/ \E r \in Slots : /\ space[p].regions[r].active
                                           /\ va \in RegionSpan(space[p].regions[r])
       BY DEF NothingStray
   <2>1. Covered(space[p]) BY SpaceOf DEF Shaped
   <2> QED BY <2>1 DEF Covered, Reserved, Live
<1> QED BY <1>1, Invariance, PTL

(* A view of a shared object shows the object's own pages unless a          *)
(* truncation took one of them, whoever closed, unmapped or died.           *)
THEOREM SeesObjectHolds == Spec => []SeesObject
<1>1. IInv => SeesObject
   <2> SUFFICES ASSUME IInv PROVE SeesObject
       OBVIOUS
   <2>1. \A p \in Procs : Sees(space[p], memfds, shrunk) BY SpaceOf
   <2> QED BY <2>1 DEF SeesObject, Sees, Views
<1> QED BY <1>1, Invariance, PTL

(* The references of an object are its open file and the regions that show  *)
(* it, in whichever order unix_memfd_retain and _release run.               *)
THEOREM MemfdRefsHolds == Spec => []MemfdRefs
<1>1. IInv => MemfdRefs
   <2> SUFFICES ASSUME IInv, NEW m \in Memfds
                PROVE  memfds[m].refs =
                         (IF holders[m] = {} THEN 0 ELSE 1)
                           + Cardinality({pr \in Procs \X Slots :
                                 pr[2] \in Views(pr[1]) /\ space[pr[1]].regions[pr[2]].memfd = m})
       BY DEF MemfdRefs
   <2>1. {pr \in Procs \X Slots :
             pr[2] \in Views(pr[1]) /\ space[pr[1]].regions[pr[2]].memfd = m} = AllViews(space, m)
         BY NoObjectZero DEF AllViews, Views, ViewsOf, Live
   <2> QED BY <2>1, RefsAreViews
<1> QED BY <1>1, Invariance, PTL

LEMMA CountNone ==
    ASSUME NEW T, T = {}
    PROVE  Cardinality(T) = 0
BY FS_EmptySet

LEMMA CountOne ==
    ASSUME NEW T, NEW a \in T, \A b \in T : b = a
    PROVE  Cardinality(T) = 1
<1>1. T = {a} OBVIOUS
<1> QED BY <1>1, FS_Singleton

LEMMA TypeHolds == IInv => TypeOK
<1> SUFFICES ASSUME IInv PROVE TypeOK
    OBVIOUS
<1>1. /\ free \subseteq Pages /\ memfds \in [Memfds -> Object] /\ Objects(memfds)
      BY FirstProcess, SpaceOf
<1>2. ASSUME NEW p \in Procs
      PROVE  /\ space[p].pt \in [Virt -> Pages \cup {Absent}]
             /\ space[p].table \in Pages \cup {Absent}
             /\ space[p].regions \in [Slots -> Regions]
             /\ space[p].next \in Low + 1 .. Low + VmSize + 1
             /\ space[p].heap \in 0 .. HeapSize /\ space[p].stack \in BOOLEAN
   <2>1. space[p] \in Space BY SpaceOf
   <2> QED BY <2>1, SpaceFields
<1>3. ASSUME NEW m \in Memfds PROVE memfds[m].refs \in 0 .. 1 + NProcs * MaxRegions
   <2> DEFINE A == AllViews(space, m)
   <2>1. memfds[m].refs = (IF holders[m] = {} THEN 0 ELSE 1) + Cardinality(A) BY RefsAreViews
   <2>2. IsFiniteSet(Procs) /\ Cardinality(Procs) = NProcs
      <3>1. 0 \in Int /\ NProcs - 1 \in Int /\ NProcs \in Nat \ {0} BY Sizes
      <3>2. /\ IsFiniteSet(0 .. NProcs - 1)
            /\ Cardinality(0 .. NProcs - 1) = IF 0 > NProcs - 1 THEN 0 ELSE NProcs - 1 - 0 + 1
            BY <3>1, FS_Interval
      <3> QED BY <3>1, <3>2 DEF Procs
   <2>3. IsFiniteSet(Slots) /\ Cardinality(Slots) = MaxRegions
      <3>1. 1 \in Int /\ MaxRegions \in Nat \ {0} BY Sizes
      <3>2. /\ IsFiniteSet(1 .. MaxRegions)
            /\ Cardinality(1 .. MaxRegions) = IF 1 > MaxRegions THEN 0 ELSE MaxRegions - 1 + 1
            BY <3>1, FS_Interval
      <3> QED BY <3>1, <3>2 DEF Slots
   <2>4. IsFiniteSet(Procs \X Slots) /\ Cardinality(Procs \X Slots) = NProcs * MaxRegions
         BY <2>2, <2>3, FS_Product
   <2>5. A \subseteq Procs \X Slots BY DEF AllViews
   <2> HIDE DEF A
   <2>6. IsFiniteSet(A) /\ Cardinality(A) <= Cardinality(Procs \X Slots) BY <2>4, <2>5, FS_Subset
   <2>7. Cardinality(A) \in Nat BY <2>6, FS_CardinalityType
   <2> DEFINE N == NProcs * MaxRegions
              c == Cardinality(A)
   <2>8. c \in Nat /\ c <= N /\ N \in Int BY <2>4, <2>6, <2>7, Sizes
   <2>9. memfds[m].refs = (IF holders[m] = {} THEN 0 ELSE 1) + c BY <2>1
   <2> HIDE DEF N, c
   <2>10. memfds[m].refs \in 0 .. 1 + N BY <2>8, <2>9
   <2> QED BY <2>10 DEF N
<1>4. ASSUME NEW m \in Memfds PROVE memfds[m].pages \in BoundedSeq(Pages, MaxPages)
   <2> DEFINE s == memfds[m].pages
   <2>1. s \in Seq(Pages) /\ Len(s) \in Nat BY <1>1, ObjectFields
   <2>2. Len(s) <= MaxPages BY <1>1 DEF Objects
   <2> HIDE DEF s
   <2>3. Len(s) \in 0 .. MaxPages BY <2>1, <2>2, Sizes
   <2>4. s \in [1 .. Len(s) -> Pages] BY <2>1
   <2>5. s \in UNION {[1 .. k -> Pages] : k \in 0 .. MaxPages} BY <2>3, <2>4
   <2> QED BY <2>5 DEF BoundedSeq, SeqOf, s
<1>5. holders \in [Memfds -> SUBSET Procs] /\ shrunk \subseteq Memfds BY DEF IInv, System
<1> QED BY <1>1, <1>2, <1>3, <1>4, <1>5 DEF TypeOK

(* The owners a page can have. *)
InSpace(x)  == {pv \in Procs \X Virt : /\ space[pv[1]].pt[pv[2]] = x
                                       /\ pv[2] \notin SharedSpan(pv[1])}
InObjects(x) == {mi \in Memfds \X (1 .. MaxPages) :
                    mi[2] <= Len(memfds[mi[1]].pages) /\ memfds[mi[1]].pages[mi[2]] = x}
InTables(x) == {p \in Procs : space[p].table = x}

LEMMA SharedIsSeen ==
    ASSUME IInv, NEW p \in Procs, NEW va \in Virt
    PROVE  va \in SharedSpan(p) <=> va \in Seen(space[p])
BY DEF SharedSpan, Views, Seen, Live

(* Two processes hold no page in common. *)
LEMMA OneHolder ==
    ASSUME IInv, NEW p \in Procs, NEW q \in Procs, NEW x,
           x \in Held(space[p], Seen(space[p])), x \in Held(space[q], Seen(space[q]))
    PROVE  p = q
<1> SUFFICES ASSUME p # q PROVE FALSE
    OBVIOUS
<1>1. x \in PagesElsewhere(space, p) BY DEF PagesElsewhere
<1>2. Parts(free, Held(space[p], Seen(space[p])), ObjectPages(memfds), PagesElsewhere(space, p))
      BY SpaceOf
<1> QED BY <1>1, <1>2 DEF Parts

LEMMA InSpaceHeld ==
    ASSUME IInv, NEW x \in Pages
    PROVE  /\ \A z \in InSpace(x) : /\ z[1] \in Procs /\ z[2] \in Virt \ Seen(space[z[1]])
                                    /\ space[z[1]].pt[z[2]] = x
                                    /\ x \in Held(space[z[1]], Seen(space[z[1]]))
           /\ \A p \in InTables(x) : p \in Procs /\ x \in Held(space[p], Seen(space[p]))
           /\ \A p \in Procs : x \in Held(space[p], Seen(space[p])) =>
                 InSpace(x) # {} \/ InTables(x) # {}
<1>1. ASSUME NEW z \in InSpace(x)
      PROVE  /\ z[1] \in Procs /\ z[2] \in Virt \ Seen(space[z[1]])
             /\ space[z[1]].pt[z[2]] = x
             /\ x \in Held(space[z[1]], Seen(space[z[1]]))
   <2>1. /\ z[1] \in Procs /\ z[2] \in Virt /\ space[z[1]].pt[z[2]] = x
         /\ z[2] \notin SharedSpan(z[1])
         BY DEF InSpace
   <2>2. z[2] \notin Seen(space[z[1]]) BY <2>1, SharedIsSeen
   <2> QED BY <2>1, <2>2 DEF Held
<1>2. \A p \in InTables(x) : p \in Procs /\ x \in Held(space[p], Seen(space[p]))
      BY DEF InTables, Held
<1>3. ASSUME NEW p \in Procs, x \in Held(space[p], Seen(space[p]))
      PROVE  InSpace(x) # {} \/ InTables(x) # {}
   <2>1. CASE \E va \in Virt \ Seen(space[p]) : space[p].pt[va] = x
      <3>1. PICK va \in Virt \ Seen(space[p]) : space[p].pt[va] = x BY <2>1
      <3>2. va \notin SharedSpan(p) BY SharedIsSeen
      <3>3. <<p, va>> \in InSpace(x) BY <3>1, <3>2 DEF InSpace
      <3> QED BY <3>3
   <2>2. CASE space[p].table = x BY <2>2 DEF InTables
   <2> QED BY <1>3, <2>1, <2>2 DEF Held
<1> QED BY <1>1, <1>2, <1>3

(* What a process holds it holds once. *)
LEMMA HeldOnce ==
    ASSUME IInv, NEW x \in Pages, NEW p \in Procs, x \in Held(space[p], Seen(space[p]))
    PROVE  Cardinality(InSpace(x)) + Cardinality(InTables(x)) = 1
<1>1. Separate(space[p], Seen(space[p])) BY SpaceOf
<1>2. x # Absent BY PagesPositive
<1>3. \A z \in InSpace(x) : /\ z[1] = p /\ z[2] \in Virt \ Seen(space[p])
                            /\ space[p].pt[z[2]] = x /\ z = <<p, z[2]>>
   <2> TAKE z \in InSpace(x)
   <2>1. /\ z[1] \in Procs /\ z[2] \in Virt \ Seen(space[z[1]])
         /\ space[z[1]].pt[z[2]] = x
         /\ x \in Held(space[z[1]], Seen(space[z[1]]))
         BY InSpaceHeld
   <2>2. z[1] = p BY <2>1, OneHolder
   <2>3. z = <<z[1], z[2]>> BY DEF InSpace
   <2> QED BY <2>1, <2>2, <2>3
<1>4. \A q \in InTables(x) : q = p /\ space[p].table = x
      BY InSpaceHeld, OneHolder DEF InTables
<1>5. InSpace(x) # {} \/ InTables(x) # {} BY InSpaceHeld
<1>6. InSpace(x) = {} \/ InTables(x) = {} BY <1>1, <1>2, <1>3, <1>4 DEF Separate
<1>7. CASE InSpace(x) # {}
   <2>1. PICK a \in InSpace(x) : TRUE BY <1>7
   <2>2. \A b \in InSpace(x) : b[2] = a[2] BY <1>1, <1>2, <1>3 DEF Separate
   <2>3. \A b \in InSpace(x) : b = a BY <2>2, <1>3
   <2>4. Cardinality(InSpace(x)) = 1 BY <2>3, CountOne
   <2>5. Cardinality(InTables(x)) = 0 BY <1>6, <1>7, CountNone
   <2> QED BY <2>4, <2>5
<1>8. CASE InTables(x) # {}
   <2>1. PICK a \in InTables(x) : TRUE BY <1>8
   <2>2. \A b \in InTables(x) : b = a BY <1>4
   <2>3. Cardinality(InTables(x)) = 1 BY <2>2, CountOne
   <2>4. Cardinality(InSpace(x)) = 0 BY <1>6, <1>8, CountNone
   <2> QED BY <2>3, <2>4
<1> QED BY <1>5, <1>7, <1>8

LEMMA InObjectsOnce ==
    ASSUME IInv, NEW x \in Pages
    PROVE  /\ x \in ObjectPages(memfds) => Cardinality(InObjects(x)) = 1
           /\ x \notin ObjectPages(memfds) => InObjects(x) = {}
<1>1. Distinct(memfds) /\ Objects(memfds) /\ memfds \in [Memfds -> Object]
      BY FirstProcess, SpaceOf
<1>2. \A z \in InObjects(x) : /\ z[1] \in Memfds /\ z[2] \in 1 .. Len(memfds[z[1]].pages)
                              /\ memfds[z[1]].pages[z[2]] = x
                              /\ InObject(memfds[z[1]], x) /\ z = <<z[1], z[2]>>
   <2> TAKE z \in InObjects(x)
   <2>1. /\ z[1] \in Memfds /\ z[2] \in 1 .. MaxPages /\ z[2] <= Len(memfds[z[1]].pages)
         /\ memfds[z[1]].pages[z[2]] = x /\ z = <<z[1], z[2]>>
         BY DEF InObjects
   <2>2. Len(memfds[z[1]].pages) \in Nat BY <2>1, <1>1, ObjectFields
   <2> DEFINE i == z[2]
              l == Len(memfds[z[1]].pages)
   <2>3. i \in 1 .. MaxPages /\ i <= l /\ l \in Nat BY <2>1, <2>2
   <2> HIDE DEF i, l
   <2>4. i \in 1 .. l BY <2>3, Sizes
   <2> QED BY <2>1, <2>4 DEF i, l, InObject
<1>3. ASSUME x \notin ObjectPages(memfds) PROVE InObjects(x) = {}
      BY <1>2, <1>3 DEF ObjectPages
<1>4. ASSUME x \in ObjectPages(memfds) PROVE Cardinality(InObjects(x)) = 1
   <2>1. PICK m \in Memfds : InObject(memfds[m], x) BY <1>4 DEF ObjectPages
   <2>2. PICK i \in 1 .. Len(memfds[m].pages) : memfds[m].pages[i] = x BY <2>1 DEF InObject
   <2> DEFINE l == Len(memfds[m].pages)
   <2>3. l \in Nat /\ l <= MaxPages BY <1>1, ObjectFields DEF Objects
   <2>4. i \in 1 .. l OBVIOUS
   <2>5. i \in 1 .. MaxPages /\ i <= l
      <3> HIDE DEF l
      <3> QED BY <2>3, <2>4, Sizes
   <2>6. <<m, i>> \in InObjects(x) BY <2>2, <2>5 DEF InObjects
   <2>7. ASSUME NEW z \in InObjects(x) PROVE z = <<m, i>>
      <3>1. /\ z[1] \in Memfds /\ z[2] \in 1 .. Len(memfds[z[1]].pages)
            /\ memfds[z[1]].pages[z[2]] = x
            /\ InObject(memfds[z[1]], x) /\ z = <<z[1], z[2]>>
            BY <1>2
      <3>2. z[1] = m BY <3>1, <2>1, <1>1 DEF Distinct
      <3>3. z[2] = i BY <3>1, <3>2, <2>2, <1>1 DEF Distinct
      <3> QED BY <3>1, <3>2, <3>3
   <2> QED BY <2>6, <2>7, CountOne
<1> QED BY <1>3, <1>4

(* Every page has one owner: no sequence of calls of any processes leaks a  *)
(* page or gives it to two, and the state keeps its bounds.                 *)
THEOREM OneOwnerHolds == Spec => []OneOwner
<1>1. ASSUME IInv, NEW x \in Pages
      PROVE  Cardinality({0} \cap {IF x \in free THEN 0 ELSE 1})
               + Cardinality(InSpace(x)) + Cardinality(InObjects(x)) + Cardinality(InTables(x)) = 1
   <2> DEFINE a == Cardinality({0} \cap {IF x \in free THEN 0 ELSE 1})
              b == Cardinality(InSpace(x))
              c == Cardinality(InObjects(x))
              d == Cardinality(InTables(x))
              Somewhere == \E p \in Procs : x \in Held(space[p], Seen(space[p]))
   <2>1. x \in free => a = 1
      <3>1. x \in free => {0} \cap {IF x \in free THEN 0 ELSE 1} = {0} OBVIOUS
      <3> QED BY <3>1, FS_Singleton
   <2>2. x \notin free => a = 0
      <3>1. x \notin free => {0} \cap {IF x \in free THEN 0 ELSE 1} = {} OBVIOUS
      <3> QED BY <3>1, FS_EmptySet
   <2>3. x \in ObjectPages(memfds) => c = 1 BY <1>1, InObjectsOnce
   <2>4. x \notin ObjectPages(memfds) => c = 0 BY <1>1, InObjectsOnce, CountNone
   <2>5. Somewhere => b + d = 1 BY <1>1, HeldOnce
   <2>6. ~Somewhere => b = 0 /\ d = 0
      <3>1. ASSUME ~Somewhere PROVE InSpace(x) = {} /\ InTables(x) = {}
            BY <1>1, <3>1, InSpaceHeld
      <3> QED BY <3>1, CountNone
   <2>7. /\ Parts(free, Held(space[0], Seen(space[0])), ObjectPages(memfds), PagesElsewhere(space, 0))
         BY <1>1, FirstProcess, SpaceOf
   <2>8. Somewhere <=> x \in Held(space[0], Seen(space[0])) \cup PagesElsewhere(space, 0)
         BY FirstProcess DEF PagesElsewhere
   <2>9. /\ x \in free => x \notin ObjectPages(memfds) /\ ~Somewhere
         /\ x \in ObjectPages(memfds) => x \notin free /\ ~Somewhere
         /\ Somewhere \/ x \in free \/ x \in ObjectPages(memfds)
         BY <2>7, <2>8 DEF Parts
   <2>10. b \in Nat /\ d \in Nat
      <3>1. CASE ~Somewhere BY <3>1, <2>6
      <3>2. CASE Somewhere
         <4>1. IsFiniteSet(Procs \X Virt) /\ IsFiniteSet(Procs)
            <5>1. /\ 0 \in Int /\ NProcs - 1 \in Int /\ 1 \in Int /\ Low + VmSize \in Int
                  BY Sizes
            <5>2. IsFiniteSet(Procs) /\ IsFiniteSet(Virt) BY <5>1, FS_Interval DEF Procs, Virt
            <5> QED BY <5>2, FS_Product
         <4>2. InSpace(x) \subseteq Procs \X Virt /\ InTables(x) \subseteq Procs
               BY DEF InSpace, InTables
         <4>3. IsFiniteSet(InSpace(x)) /\ IsFiniteSet(InTables(x)) BY <4>1, <4>2, FS_Subset
         <4> QED BY <4>3, FS_CardinalityType
      <3> QED BY <3>1, <3>2
   <2> HIDE DEF a, b, c, d, Somewhere
   <2>11. a + b + c + d = 1
          BY <2>1, <2>2, <2>3, <2>4, <2>5, <2>6, <2>9, <2>10
   <2> QED BY <2>11 DEF a, b, c, d
<1>2. IInv => OneOwner
   <2> SUFFICES ASSUME IInv PROVE OneOwner
       OBVIOUS
   <2>1. TypeOK BY TypeHolds
   <2> QED BY <2>1, <1>1 DEF OneOwner, InSpace, InObjects, InTables
<1> QED BY <1>2, Invariance, PTL
=============================================================================
