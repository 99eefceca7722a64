------------------------------ MODULE FdTable ------------------------------
(***************************************************************************)
(* File descriptors, shared open files and pipes (kernel/fd.c).            *)
(*                                                                         *)
(* A descriptor of a process names an open file; dup, dup2, inheritance    *)
(* over SYS_EXEC and the three standard descriptors of a terminal share    *)
(* one open file, which counts its descriptors in references.  Closing the *)
(* last one releases what is behind the file: one end of a pipe, or an     *)
(* object of another subsystem (Unix socket, memfd, epoll, eventfd, ...).  *)
(*                                                                         *)
(* Processes come and go as in Lifecycle, and the end of a process closes  *)
(* its descriptors in the same step.  File paths, offsets and contents are *)
(* left to the VFS.                                                        *)
(***************************************************************************)
EXTENDS Lifecycle, Integers, FiniteSets, Sequences

CONSTANTS NFds,       \* FD_MAX_PER_PROCESS
          NPipes,     \* FD_PIPE_MAX
          PipeSize,   \* FD_PIPE_BUFFER
          Workloads,  \* what programs open, per PID: FILE, PTY, PIPE, CUSTOM
          Objects,    \* objects other subsystems put behind a descriptor
          MaxPipes    \* bound on the pipes created in one slot

ASSUME FdAssumption ==
    /\ NFds \in Nat /\ NFds >= 3
    /\ NPipes \in Nat
    /\ PipeSize \in Nat \ {0}
    /\ MaxPipes \in Nat

Fds == 0 .. NFds - 1
Entries == Pids \X Fds
FileIds == 0 .. NProcs * NFds - 1      \* FD_FILE_MAX
PipeIds == 0 .. NPipes - 1
None == -1

VARIABLES fds,        \* g_fds: the open file of each descriptor
          refs,       \* g_files[].references
          file,       \* g_files[]: kind and what is behind it
          pipe,       \* g_pipes
          held,       \* the objects not yet released
          kinds       \* the workload, chosen once

fdVars == <<fds, refs, file, pipe, held>>
vars == <<live, incarnation, fds, refs, file, pipe, held, kinds>>

NoFile == [kind |-> "NONE"]
PlainFile == [kind |-> "FILE"]
PtyFile == [kind |-> "PTY"]
PipeEnd(k, i) == [kind |-> k, pipe |-> i]
Custom(o) == [kind |-> "CUSTOM", object |-> o]

Files == {NoFile, PlainFile, PtyFile}
           \union {PipeEnd(k, i) : k \in {"PIPE_READ", "PIPE_WRITE"}, i \in PipeIds}
           \union {Custom(o) : o \in Objects}

(* bytes holds, for each byte in the buffer, the pipe it was written to: a  *)
(* slot of g_pipes is used for one pipe after another.                      *)
PipeType == [allocated : BOOLEAN, readers : 0 .. 1, writers : 0 .. 1,
             number : 0 .. MaxPipes, bytes : Seq(0 .. MaxPipes)]

TypeOK ==
    /\ LifecycleTypeOK
    /\ fds \in [Entries -> FileIds \union {None}]
    /\ refs \in [FileIds -> Nat]
    /\ file \in [FileIds -> Files]
    /\ pipe \in [PipeIds -> PipeType]
    /\ \A i \in PipeIds : Len(pipe[i].bytes) <= PipeSize
    /\ held \in SUBSET Objects
    /\ kinds \in Workloads

Init ==
    /\ LifecycleInit
    /\ fds = [e \in Entries |-> None]
    /\ refs = [f \in FileIds |-> 0]
    /\ file = [f \in FileIds |-> NoFile]
    /\ pipe = [i \in PipeIds |-> [allocated |-> FALSE, readers |-> 0, writers |-> 0,
                                  number |-> 0, bytes |-> <<>>]]
    /\ held = {}
    /\ kinds \in Workloads

-----------------------------------------------------------------------------
(* Slots: every search takes the lowest free index *)

Lowest(x, S) == x \in S /\ \A y \in S : x <= y

ClosedFds(p) == {d \in Fds : fds[<<p, d>>] = None}
FreeFiles == {f \in FileIds : refs[f] = 0}
FreePipes == {i \in PipeIds : ~pipe[i].allocated}

(* entry_for and file_for: the open file of a descriptor. *)
IsOpen(e) == fds[e] # None /\ refs[fds[e]] > 0

-----------------------------------------------------------------------------
(* Opening *)

(* One new open file behind the lowest closed descriptor: fd_open once the  *)
(* VFS has accepted the path, fd_bind_pty, fd_create_custom.                *)
OpenNew(p, d, f, content) ==
    /\ p \in live
    /\ Lowest(d, ClosedFds(p))
    /\ Lowest(f, FreeFiles)
    /\ fds' = [fds EXCEPT ![<<p, d>>] = f]
    /\ refs' = [refs EXCEPT ![f] = 1]
    /\ file' = [file EXCEPT ![f] = content]
    /\ UNCHANGED <<pipe, live, incarnation, kinds>>

OpenFile(p, d, f) == OpenNew(p, d, f, PlainFile) /\ UNCHANGED held
BindPty(p, d, f) == OpenNew(p, d, f, PtyFile) /\ UNCHANGED held

(* The caller has just allocated object o. *)
CreateCustom(p, d, f, o) ==
    /\ o \notin held
    /\ OpenNew(p, d, f, Custom(o))
    /\ held' = held \union {o}

Stdio == {0, 1, 2}

(* fd_bind_pty_stdio: descriptors 0, 1 and 2 of p share one terminal. *)
BindPtyStdio(p, f) ==
    /\ p \in live
    /\ Stdio \subseteq ClosedFds(p)
    /\ Lowest(f, FreeFiles)
    /\ fds' = [e \in Entries |-> IF e[1] = p /\ e[2] \in Stdio THEN f ELSE fds[e]]
    /\ refs' = [refs EXCEPT ![f] = 3]
    /\ file' = [file EXCEPT ![f] = PtyFile]
    /\ UNCHANGED <<pipe, held, live, incarnation, kinds>>

(* Mutant of PipeCreate: head, tail and used keep their old values. *)
PipeCreateKeepsBytes(p, rd, wd, rf, wf, i) ==
    /\ p \in live
    /\ Lowest(rd, ClosedFds(p)) /\ Lowest(wd, ClosedFds(p) \ {rd})
    /\ Lowest(rf, FreeFiles) /\ Lowest(wf, FreeFiles \ {rf})
    /\ Lowest(i, FreePipes)
    /\ pipe[i].number < MaxPipes
    /\ pipe' = [pipe EXCEPT ![i] = [allocated |-> TRUE, readers |-> 1, writers |-> 1,
                                    number |-> @.number + 1, bytes |-> @.bytes]]
    /\ fds' = [fds EXCEPT ![<<p, rd>>] = rf, ![<<p, wd>>] = wf]
    /\ refs' = [refs EXCEPT ![rf] = 1, ![wf] = 1]
    /\ file' = [file EXCEPT ![rf] = PipeEnd("PIPE_READ", i), ![wf] = PipeEnd("PIPE_WRITE", i)]
    /\ UNCHANGED <<held, live, incarnation, kinds>>

(* fd_pipe_create: two descriptors, two files, one pipe slot. *)
PipeCreate(p, rd, wd, rf, wf, i) ==
    /\ p \in live
    /\ Lowest(rd, ClosedFds(p)) /\ Lowest(wd, ClosedFds(p) \ {rd})
    /\ Lowest(rf, FreeFiles) /\ Lowest(wf, FreeFiles \ {rf})
    /\ Lowest(i, FreePipes)
    /\ pipe[i].number < MaxPipes
    /\ pipe' = [pipe EXCEPT ![i] = [allocated |-> TRUE, readers |-> 1, writers |-> 1,
                                    number |-> @.number + 1, bytes |-> <<>>]]
    /\ fds' = [fds EXCEPT ![<<p, rd>>] = rf, ![<<p, wd>>] = wf]
    /\ refs' = [refs EXCEPT ![rf] = 1, ![wf] = 1]
    /\ file' = [file EXCEPT ![rf] = PipeEnd("PIPE_READ", i), ![wf] = PipeEnd("PIPE_WRITE", i)]
    /\ UNCHANGED <<held, live, incarnation, kinds>>

-----------------------------------------------------------------------------
(* Sharing and closing *)

(* Mutant of Dup: the shared file is not counted. *)
DupUncounted(p, s, min, d) ==
    /\ p \in live
    /\ IsOpen(<<p, s>>)
    /\ Lowest(d, {c \in ClosedFds(p) : c >= min})
    /\ fds' = [fds EXCEPT ![<<p, d>>] = fds[<<p, s>>]]
    /\ UNCHANGED <<refs, file, pipe, held, live, incarnation, kinds>>

(* fd_dup_min *)
Dup(p, s, min, d) ==
    /\ p \in live
    /\ IsOpen(<<p, s>>)
    /\ Lowest(d, {c \in ClosedFds(p) : c >= min})
    /\ fds' = [fds EXCEPT ![<<p, d>>] = fds[<<p, s>>]]
    /\ refs' = [refs EXCEPT ![fds[<<p, s>>]] = @ + 1]
    /\ UNCHANGED <<file, pipe, held, live, incarnation, kinds>>

(* The descriptors of E that name f. *)
Naming(E, f) == {e \in E : fds[e] = f}

(* What closing the descriptors E one after the other leaves: a file whose  *)
(* last reference goes is released, and with it its end of the pipe (the    *)
(* pipe goes with its second end) or its object.                            *)
RefsAfter(E) == [f \in FileIds |-> refs[f] - Cardinality(Naming(E, f))]
Released(E) == {f \in FileIds : refs[f] > 0 /\ refs[f] = Cardinality(Naming(E, f))}

(* The pipe in slot i once the files R are gone: it goes with its second end. *)
Closes(R, k, i) == \E f \in R : file[f] = PipeEnd(k, i)

(* Mutant of PipeAfter: the slot is given up with the first end. *)
PipeAfterFirstEnd(R, i) ==
    LET r == IF Closes(R, "PIPE_READ", i) THEN 0 ELSE pipe[i].readers
        w == IF Closes(R, "PIPE_WRITE", i) THEN 0 ELSE pipe[i].writers
    IN  IF r = pipe[i].readers /\ w = pipe[i].writers THEN pipe[i]
        ELSE [pipe[i] EXCEPT !.readers = r, !.writers = w, !.allocated = r = 1 /\ w = 1]

PipeAfter(R, i) ==
    LET r == IF Closes(R, "PIPE_READ", i) THEN 0 ELSE pipe[i].readers
        w == IF Closes(R, "PIPE_WRITE", i) THEN 0 ELSE pipe[i].writers
    IN  IF r = pipe[i].readers /\ w = pipe[i].writers THEN pipe[i]
        ELSE [pipe[i] EXCEPT !.readers = r, !.writers = w, !.allocated = r = 1 \/ w = 1]

(* Mutant of CloseEffect: an object goes with any of its descriptors. *)
CloseEffectEveryTime(E) ==
    LET R == Released(E)
    IN  /\ file' = [f \in FileIds |-> IF f \in R THEN NoFile ELSE file[f]]
        /\ pipe' = [i \in PipeIds |-> PipeAfter(R, i)]
        /\ held' = {o \in held : \A e \in E : file[fds[e]] # Custom(o)}

CloseEffect(E) ==
    LET R == Released(E)
    IN  /\ file' = [f \in FileIds |-> IF f \in R THEN NoFile ELSE file[f]]
        /\ pipe' = [i \in PipeIds |-> PipeAfter(R, i)]
        /\ held' = {o \in held : \A f \in R : file[f] # Custom(o)}

(* fd_close *)
Close(p, d) ==
    LET E == {<<p, d>>}
    IN  /\ p \in live
        /\ IsOpen(<<p, d>>)
        /\ fds' = [fds EXCEPT ![<<p, d>>] = None]
        /\ refs' = RefsAfter(E)
        /\ CloseEffect(E)
        /\ UNCHANGED <<live, incarnation, kinds>>

(* fd_dup2: the target is closed first, then the source gains a reference. *)
Dup2(p, s, d) ==
    LET E == IF fds[<<p, d>>] = None THEN {} ELSE {<<p, d>>}
    IN  /\ p \in live
        /\ IsOpen(<<p, s>>)
        /\ s # d
        /\ fds' = [fds EXCEPT ![<<p, d>>] = fds[<<p, s>>]]
        /\ refs' = [RefsAfter(E) EXCEPT ![fds[<<p, s>>]] = @ + 1]
        /\ CloseEffect(E)
        /\ UNCHANGED <<live, incarnation, kinds>>

(* The end of the processes S: fd_close_owner for each. *)
Exit(S) ==
    LET E == {e \in Entries : e[1] \in S /\ IsOpen(e)}
    IN  /\ End(S)
        /\ UNCHANGED kinds
        /\ fds' = [e \in Entries |-> IF e \in E THEN None ELSE fds[e]]
        /\ refs' = RefsAfter(E)
        /\ CloseEffect(E)

(* A program started by the kernel has no descriptors of its own yet. *)
KernelSpawn(p) == Begin(p) /\ UNCHANGED <<fdVars, kinds>>

(* The descriptors fd_inherit copies: all open ones but terminals. *)
Inherited(q) == {e \in Entries : e[1] = q /\ IsOpen(e) /\ file[fds[e]] # PtyFile}

(* Mutant of Exec: inherited descriptors are not counted. *)
ExecUncounted(q, p) ==
    /\ q \in live
    /\ Begin(p)
    /\ ClosedFds(p) = Fds
    /\ fds' = [e \in Entries |-> IF e[1] = p /\ <<q, e[2]>> \in Inherited(q)
                                 THEN fds[<<q, e[2]>>] ELSE fds[e]]
    /\ UNCHANGED <<refs, file, pipe, held, kinds>>

(* SYS_EXEC: spawn, then fd_inherit; when the child's table is not empty    *)
(* fd_inherit fails and the child would be killed.                          *)
Exec(q, p) ==
    /\ q \in live
    /\ Begin(p)
    /\ ClosedFds(p) = Fds
    /\ fds' = [e \in Entries |-> IF e[1] = p /\ <<q, e[2]>> \in Inherited(q)
                                 THEN fds[<<q, e[2]>>] ELSE fds[e]]
    /\ refs' = [f \in FileIds |-> refs[f] + Cardinality(Naming(Inherited(q), f))]
    /\ UNCHANGED <<file, pipe, held, kinds>>

-----------------------------------------------------------------------------
(* Pipe transfer: one byte at a time stands for any partial count *)

PipeWrite(p, d, i) ==
    /\ p \in live
    /\ IsOpen(<<p, d>>)
    /\ file[fds[<<p, d>>]] = PipeEnd("PIPE_WRITE", i)
    /\ pipe[i].allocated
    /\ pipe[i].readers > 0               \* otherwise -2
    /\ Len(pipe[i].bytes) < PipeSize     \* otherwise 0 bytes written
    /\ pipe' = [pipe EXCEPT ![i].bytes = Append(@, pipe[i].number)]
    /\ UNCHANGED <<fds, refs, file, held, live, incarnation, kinds>>

PipeRead(p, d, i) ==
    /\ p \in live
    /\ IsOpen(<<p, d>>)
    /\ file[fds[<<p, d>>]] = PipeEnd("PIPE_READ", i)
    /\ pipe[i].allocated
    /\ pipe[i].bytes # <<>>              \* otherwise 0 bytes read
    /\ pipe' = [pipe EXCEPT ![i].bytes = Tail(@)]
    /\ UNCHANGED <<fds, refs, file, held, live, incarnation, kinds>>

-----------------------------------------------------------------------------
Opening(p) ==
    \/ /\ "FILE" \in kinds[p]
       /\ \E d \in Fds, f \in FileIds : OpenFile(p, d, f)
    \/ /\ "PTY" \in kinds[p]
       /\ \E f \in FileIds : BindPtyStdio(p, f) \/ \E d \in Fds : BindPty(p, d, f)
    \/ /\ "CUSTOM" \in kinds[p]
       /\ \E d \in Fds, f \in FileIds, o \in Objects : CreateCustom(p, d, f, o)
    \/ /\ "PIPE" \in kinds[p]
       /\ \E rd, wd \in Fds, rf, wf \in FileIds, i \in PipeIds : PipeCreate(p, rd, wd, rf, wf, i)

(* Whatever the minimum of fd_dup_min, the descriptor it yields is also the *)
(* one it yields with itself as the minimum.                                *)
Sharing(p) ==
    \/ \E s, d \in Fds : Dup(p, s, d, d)
    \/ \E s, d \in Fds : Dup2(p, s, d)
    \/ \E d \in Fds : Close(p, d)

Transfer(p) == \E d \in Fds, i \in PipeIds : PipeWrite(p, d, i) \/ PipeRead(p, d, i)

Next ==
    \/ \E p \in Pids : Opening(p) \/ Sharing(p) \/ Transfer(p) \/ KernelSpawn(p)
    \/ \E p, q \in Pids : Exec(q, p)
    \/ \E S \in SUBSET Pids : Exit(S)

Spec == Init /\ [][Next]_vars

-----------------------------------------------------------------------------
(* Properties *)

Users(f) == {e \in Naming(Entries, f) : e[1] \in live}

(* references counts the descriptors of living processes that name the      *)
(* file, through every mixture of dup, dup2 onto an open target,            *)
(* inheritance and process ends.  So a dead PID leaves none behind for the  *)
(* next program in its slot (fd_inherit would fail), FD_FILE_MAX files      *)
(* suffice for all descriptors, and rings stay within their size.           *)
RefsMatch ==
    /\ TypeOK
    /\ \A f \in FileIds : refs[f] = Cardinality(Users(f))

EndsOpen(k, i) == \E f \in FileIds : refs[f] > 0 /\ file[f] = PipeEnd(k, i)

(* A pipe is allocated while a descriptor of either end exists, and its     *)
(* reader and writer counts say which ends do: hang-up and broken-pipe      *)
(* answers are right, and no descriptor outlives its pipe's slot.           *)
PipeEndsMatch ==
    \A i \in PipeIds :
        /\ pipe[i].readers = IF EndsOpen("PIPE_READ", i) THEN 1 ELSE 0
        /\ pipe[i].writers = IF EndsOpen("PIPE_WRITE", i) THEN 1 ELSE 0
        /\ pipe[i].allocated <=> EndsOpen("PIPE_READ", i) \/ EndsOpen("PIPE_WRITE", i)

(* A pipe that takes over a slot never delivers bytes of the one before. *)
NoStaleBytes ==
    \A i \in PipeIds : pipe[i].allocated =>
        \A k \in 1 .. Len(pipe[i].bytes) : pipe[i].bytes[k] = pipe[i].number

(* An object is released exactly when its last descriptor is closed, and    *)
(* never reached through two open files.                                    *)
ObjectsMatch ==
    \A o \in Objects :
        LET F == {f \in FileIds : refs[f] > 0 /\ file[f] = Custom(o)}
        IN  /\ o \in held <=> F # {}
            /\ \A f, g \in F : f = g

(* No step, of whichever process, changes what an open descriptor that the  *)
(* step does not redirect stands for.                                       *)
StableDescriptors ==
    [][\A e \in Entries : fds[e] # None /\ fds'[e] = fds[e]
          => file'[fds[e]] = file[fds[e]]]_vars
=============================================================================
