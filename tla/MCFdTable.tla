----------------------------- MODULE MCFdTable -----------------------------
(* Model checking of FdTable: what each process opens. *)
EXTENDS FdTable

PipesAndFiles == [p \in Pids |-> IF p = 0 THEN {"PIPE"} ELSE {"FILE"}]
TerminalsAndObjects == [p \in Pids |-> IF p = 0 THEN {"CUSTOM"} ELSE {"PTY"}]
MCWorkloads == {PipesAndFiles, TerminalsAndObjects}
=============================================================================
