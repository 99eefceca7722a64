------------------------------ MODULE PagePool ------------------------------
(***************************************************************************)
(* What physical memory management promises: a pool of free pages.  An     *)
(* allocation takes a block of consecutive free pages, of its caller's     *)
(* size, out of a run of free pages no longer than it has to be; a release *)
(* gives pages back that were not free.                                    *)
(***************************************************************************)
EXTENDS Integers

CONSTANTS Managed,      \* the pages of usable memory
          MaxBlock      \* the largest allocation explored

VARIABLE free           \* the free pages

Block(b, n) == b .. b + n - 1

(* A maximal run of free pages, at least n of them, from b to e. *)
Run(b, e, n) ==
    /\ b .. e \subseteq free
    /\ b - 1 \notin free /\ e + 1 \notin free
    /\ e - b + 1 >= n

PoolInit == free = Managed

PoolAlloc(b, n) ==
    /\ \E e \in free :
          /\ Run(b, e, n)
          /\ \A c, d \in free : Run(c, d, n) => e - b <= d - c
    /\ free' = free \ Block(b, n)

PoolFree(b, n) ==
    /\ Block(b, n) \subseteq Managed
    /\ Block(b, n) \intersect free = {}
    /\ free' = free \union Block(b, n)

PoolNext ==
    \E b \in Managed, n \in 1 .. MaxBlock : PoolAlloc(b, n) \/ PoolFree(b, n)

PoolSpec == PoolInit /\ [][PoolNext]_free
=============================================================================
