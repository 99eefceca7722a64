----------------------------- MODULE MCProcess -----------------------------
(* Model checking of Process on a process table of two slots. *)
EXTENDS Process

(* Slot 0 is reused, slot 1 holds one program, the only one that may be     *)
(* root.  Only KernelSpawn and Exec lead out of these states, and no        *)
(* fairness is assumed of them: the bound is the same as one in their       *)
(* guards.                                                                  *)
FewPrograms == incarnation[1] <= 1 /\ ~root[0]
=============================================================================
