---------------------------- MODULE MCUnixSocket ----------------------------
(* Model checking of UnixSocket. *)
EXTENDS UnixSocket

(* Nothing is claimed once a socket was connected twice or a pair failed:   *)
(* such states are reached and not continued.                               *)
StillClaimed == misuse \subseteq {"backlog"}
=============================================================================
