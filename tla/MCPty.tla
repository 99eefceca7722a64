------------------------------- MODULE MCPty -------------------------------
(* Model checking of Pty: one terminal carries bytes, or jobs move. *)
EXTENDS Pty

CookedOrRaw == {<<TRUE, TRUE>>, <<FALSE, FALSE>>}
BytesOrJobs == {{"bytes"}, {"jobs"}}
=============================================================================
