----------------------------- MODULE MCService -----------------------------
(* Model checking of Service: a kernel service, and programs that depend on *)
(* it and on one another.                                                   *)
EXTENDS Service

(* A kernel service, a program on it, one on that program, and one of its own. *)
Tree == <<0, 1, 2, 1>>
Programs == {2, 3, 4}
OneRestart == <<0, 1, 1, 1>>
MixedRestarts == <<0, 2, 1, 1>>
ShortTimeouts == <<1, 1, 1, 1>>
MixedTimeouts == <<1, 2, 1, 1>>
=============================================================================
