------------------------------ MODULE MCMemory ------------------------------
EXTENDS Memory

\* Pages differ only in who holds them, so two states that agree up to the
\* numbers of the pages are one: a page is the set of the places that name it.
\* What a region of a shrunk object still maps is nobody's to free and no
\* property reads it.
Stale(p, va) == \E r \in Views(p) : /\ space[p].regions[r].memfd \in shrunk
                                    /\ va \in RegionSpan(space[p].regions[r])
Places(x) == <<x \in free,
               {pv \in Procs \X Virt : space[pv[1]].pt[pv[2]] = x /\ ~Stale(pv[1], pv[2])},
               {p \in Procs : space[p].table = x},
               {mi \in Memfds \X (1 .. MaxPages) :
                    /\ mi[2] <= Len(memfds[mi[1]].pages)
                    /\ memfds[mi[1]].pages[mi[2]] = x}>>
UpToPages == <<{Places(x) : x \in Pages},
               [p \in Procs |-> <<space[p].regions, space[p].next, space[p].heap, space[p].stack>>],
               [m \in Memfds |-> memfds[m].refs], holders, shrunk>>

\* Bound: a process without anonymous memory of its own has one region at most.
OneView == \A p \in Procs \ Allocators : \A r \in Slots :
               space[p].regions[r].active => r = 1
=============================================================================
