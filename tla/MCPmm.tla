------------------------------- MODULE MCPmm -------------------------------
(* Model checking of Pmm on a few pages of memory. *)
EXTENDS Pmm

(* Three regions, out of order: two of them touch, and there is a hole. *)
ThreeRegions ==
    <<[base |-> 6, end |-> 8], [base |-> 9, end |-> 12], [base |-> 1, end |-> 6]>>

=============================================================================
