----------------------------- MODULE Lifecycle -----------------------------
(***************************************************************************)
(* What the rest of the kernel may assume about processes: which PIDs      *)
(* exist, and how PIDs come and go.  A PID is a slot of the process table, *)
(* so it is reused; incarnation counts the programs a slot has held, and   *)
(* exists only to tell an old holder of a PID from the present one.        *)
(*                                                                         *)
(* Process implements this specification.  Ipc is built on it.             *)
(***************************************************************************)
EXTENDS Naturals

CONSTANT NProcs          \* MAX_PROCESSES
CONSTANT MaxSpawns       \* bound on the number of spawns explored

ASSUME LifecycleAssumption ==
    /\ NProcs \in Nat \ {0}
    /\ MaxSpawns \in Nat

VARIABLES live,          \* the PIDs process_exists() accepts
          incarnation    \* how many programs each PID has held

lifecycleVars == <<live, incarnation>>

Pids == 0 .. NProcs - 1

LifecycleTypeOK ==
    /\ live \in SUBSET Pids
    /\ incarnation \in [Pids -> 0 .. MaxSpawns]

LifecycleInit ==
    /\ live = {}
    /\ incarnation = [p \in Pids |-> 0]

(* The first slot that is UNUSED or EXITED takes the new program. *)
FirstFree(p) ==
    /\ p \in Pids \ live
    /\ \A q \in Pids \ live : p <= q

Begin(p) ==
    /\ FirstFree(p)
    /\ incarnation[p] < MaxSpawns
    /\ live' = live \union {p}
    /\ incarnation' = [incarnation EXCEPT ![p] = @ + 1]

(* One kernel entry may end several processes: a signal to a group. *)
End(S) ==
    /\ S \subseteq live
    /\ S # {}
    /\ live' = live \ S
    /\ UNCHANGED incarnation

LifecycleNext ==
    \/ \E p \in Pids : Begin(p)
    \/ \E S \in SUBSET Pids : End(S)

LifecycleSpec == LifecycleInit /\ [][LifecycleNext]_lifecycleVars
=============================================================================
