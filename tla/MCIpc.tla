------------------------------- MODULE MCIpc -------------------------------
(* Model checking of Ipc. *)
EXTENDS Ipc
=============================================================================
