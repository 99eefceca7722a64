------------------------------ MODULE Process ------------------------------
(***************************************************************************)
(* The process table and the cooperative scheduler of kernel/process.c.    *)
(*                                                                         *)
(* One CPU executes either the kernel (the compositor loop, which calls    *)
(* process_step_active over and over) or one user thread.  A user thread   *)
(* keeps the CPU until a system call asks to yield (1) or to exit (2), or  *)
(* until it faults; a system call runs with interrupts masked, so a whole  *)
(* handler is one step.                                                    *)
(*                                                                         *)
(* There is one way out that does not come back to process_step_active:    *)
(* the Linux exit_group call (and exit by a main thread) jumps into the    *)
(* frame that the boot-time ring 3 test saved, ExitGroup below.            *)
(*                                                                         *)
(* A thread whose process died under it (a kill aimed at itself, Ctrl-C to *)
(* its own group) is still the one on the CPU: vmm_destroy_user_pml4 has   *)
(* loaded the kernel's page table, so its next instruction faults.         *)
(***************************************************************************)
EXTENDS Integers, FiniteSets

CONSTANTS NProcs,        \* MAX_PROCESSES
          NThreads,      \* MAX_THREADS_PER_PROCESS
          MaxSleep,      \* longest sleep, in ticks
          MaxSpawns      \* bound on the spawns into one slot

ASSUME ProcessAssumption ==
    /\ NProcs \in Nat \ {0}
    /\ NThreads \in Nat \ {0}
    /\ MaxSleep \in Nat
    /\ MaxSpawns \in Nat

Pids == 0 .. NProcs - 1
Tids == 0 .. NThreads - 1

VARIABLES
    pstate,       \* process_t.state
    tstate,       \* thread_t.state
    pml4,         \* process_t.pml4_phys is not 0
    cr3,          \* thread_t.ctx.cr3 is not 0
    stackBase,    \* thread_t.stack_base is not 0
    stackMapped,  \* the pages of the thread's own stack are in the page table
    wake,         \* ticks until thread_t.wake_at_ms
    group,        \* process_t.process_group
    root,         \* credentials.uid = KESH_UID_ROOT
    nextThread,   \* process_t.active_thread_idx
    proc,         \* g_active_proc_idx
    thread,       \* g_active_thread_idx
    mode,         \* who has the CPU
    incarnation,  \* history: programs each slot has held
    left          \* history: processes that exit_group left as they were,
                  \* until something else ends or stops them

tableVars == <<pstate, tstate, pml4, cr3, stackBase, stackMapped, wake, group,
               root, nextThread>>
cpuVars == <<proc, thread, mode>>
history == <<incarnation, left>>
vars == <<pstate, tstate, pml4, cr3, stackBase, stackMapped, wake, group, root,
          nextThread, proc, thread, mode, incarnation, left>>

PStates == {"UNUSED", "READY", "RUNNING", "EXITED", "STOPPED"}
TStates == {"UNUSED", "READY", "RUNNING", "EXITED"}

TypeOK ==
    /\ pstate \in [Pids -> PStates]
    /\ tstate \in [Pids -> [Tids -> TStates]]
    /\ pml4 \in [Pids -> BOOLEAN]
    /\ cr3 \in [Pids -> [Tids -> BOOLEAN]]
    /\ stackBase \in [Pids -> [Tids -> BOOLEAN]]
    /\ stackMapped \in [Pids -> [Tids -> BOOLEAN]]
    /\ wake \in [Pids -> [Tids -> 0 .. MaxSleep]]
    /\ group \in [Pids -> Pids]
    /\ root \in [Pids -> BOOLEAN]
    /\ nextThread \in [Pids -> Tids]
    /\ proc \in Pids \union {-1}
    /\ thread \in Tids
    /\ mode \in {"kernel", "user", "halted"}
    /\ incarnation \in [Pids -> 0 .. MaxSpawns]
    /\ left \subseteq Pids

All(x) == [t \in Tids |-> x]

Init ==
    /\ pstate = [p \in Pids |-> "UNUSED"]
    /\ tstate = [p \in Pids |-> All("UNUSED")]
    /\ pml4 = [p \in Pids |-> FALSE]
    /\ cr3 = [p \in Pids |-> All(FALSE)]
    /\ stackBase = [p \in Pids |-> All(FALSE)]
    /\ stackMapped = [p \in Pids |-> All(FALSE)]
    /\ wake = [p \in Pids |-> All(0)]
    /\ group = [p \in Pids |-> p]
    /\ root = [p \in Pids |-> FALSE]
    /\ nextThread = [p \in Pids |-> 0]
    /\ proc = -1
    /\ thread = 0
    /\ mode = "kernel"
    /\ incarnation = [p \in Pids |-> 0]
    /\ left = {}

-----------------------------------------------------------------------------
(* Lookups *)

Exists(p) == pstate[p] \notin {"UNUSED", "EXITED"}
Killable(p) == pstate[p] \in {"READY", "RUNNING", "STOPPED"}
AliveThreads(ts) == {t \in Tids : ts[t] \in {"READY", "RUNNING"}}

(* A user thread that still has an address space to execute in. *)
InUser == mode = "user" /\ proc \in Pids /\ pml4[proc]

(* How far the round-robin scan is from slot x when it starts at slot s. *)
Ahead(s, x, n) == (x - s) % n

-----------------------------------------------------------------------------
(* The scheduler: process_step_active *)

Runnable(p, t) ==
    /\ tstate[p][t] = "READY"
    /\ cr3[p][t]
    /\ cr3[p][0]
    /\ t # 0 => tstate[p][0] # "UNUSED"
    /\ wake[p][t] = 0

Schedulable(p) == pstate[p] = "READY" /\ \E t \in Tids : Runnable(p, t)

(* The scan stops at the first schedulable process after g_active_proc_idx *)
(* and, in it, at the first runnable thread from active_thread_idx on.     *)
NextProc(p) ==
    /\ p \in Pids /\ Schedulable(p)
    /\ \A q \in Pids : Schedulable(q) =>
          Ahead(proc + 1, p, NProcs) <= Ahead(proc + 1, q, NProcs)

NextThread(p, t) ==
    /\ t \in Tids /\ Runnable(p, t)
    /\ \A u \in Tids : Runnable(p, u) =>
          Ahead(nextThread[p], t, NThreads) <= Ahead(nextThread[p], u, NThreads)

Dispatch(p, t) ==
    /\ mode = "kernel"
    /\ NextProc(p)
    /\ NextThread(p, t)
    /\ pstate' = [pstate EXCEPT ![p] = "RUNNING"]
    /\ tstate' = [tstate EXCEPT ![p][t] = "RUNNING"]
    /\ nextThread' = [nextThread EXCEPT ![p] = t]
    /\ proc' = p
    /\ thread' = t
    /\ mode' = "user"
    /\ UNCHANGED <<pml4, cr3, stackBase, stackMapped, wake, group, root, history>>

(* Nothing to run: the scan goes once round and ends where it began, or at  *)
(* the last slot when it began at -1.                                       *)
IdleScan ==
    /\ mode = "kernel"
    /\ \A p \in Pids : ~Schedulable(p)
    /\ proc' = (proc + NProcs) % NProcs
    /\ UNCHANGED <<tableVars, thread, mode, history>>

(* Mutant of Return: the scan starts again at the thread that just ran. *)
ReturnToSameThread(nt) ==
    /\ mode' = "kernel"
    /\ nextThread' = [nt EXCEPT ![proc] = thread]
    /\ UNCHANGED <<proc, thread>>

(* The end of process_step_active, with nt the active_thread_idx of every   *)
(* process so far: control is back in the kernel loop.                      *)
Return(nt) ==
    /\ mode' = "kernel"
    /\ nextThread' = [nt EXCEPT ![proc] = (thread + 1) % NThreads]
    /\ UNCHANGED <<proc, thread>>

(* Mutant of ReturnYield: only the thread is made READY again. *)
ReturnYieldThreadOnly(ps, ts, nt) ==
    /\ pstate' = ps
    /\ tstate' = IF ts[proc][thread] = "RUNNING"
                 THEN [ts EXCEPT ![proc][thread] = "READY"] ELSE ts
    /\ Return(nt)

(* The outcome of a yield, with ps, ts and nt what the system call left:    *)
(* only a thread still RUNNING goes back to READY, so a process that was    *)
(* stopped while it ran stays STOPPED.                                      *)
ReturnYield(ps, ts, nt) ==
    /\ pstate' = IF ts[proc][thread] = "RUNNING"
                 THEN [ps EXCEPT ![proc] = "READY"] ELSE ps
    /\ tstate' = IF ts[proc][thread] = "RUNNING"
                 THEN [ts EXCEPT ![proc][thread] = "READY"] ELSE ts
    /\ Return(nt)

Tick ==
    /\ mode # "halted"
    /\ \E p \in Pids, t \in Tids : wake[p][t] > 0
    /\ wake' = [p \in Pids |-> [t \in Tids |->
                   IF wake[p][t] > 0 THEN wake[p][t] - 1 ELSE 0]]
    /\ UNCHANGED <<pstate, tstate, pml4, cr3, stackBase, stackMapped, group, root,
                   nextThread, cpuVars, history>>

-----------------------------------------------------------------------------
(* Ending processes: process_kill and process_release_resources *)

Clear(S, f, x) == [p \in Pids |-> IF p \in S THEN x ELSE f[p]]

(* Mutant of Release: the credentials stay in the slot. *)
ReleaseKeepsRoot(S) ==
    /\ pml4' = Clear(S, pml4, FALSE)
    /\ left' = left \ S
    /\ cr3' = Clear(S, cr3, All(FALSE))
    /\ stackBase' = Clear(S, stackBase, All(FALSE))
    /\ stackMapped' = Clear(S, stackMapped, All(FALSE))
    /\ wake' = Clear(S, wake, All(0))
    /\ UNCHANGED <<root, group, incarnation>>

(* Mutant of Release: the wake-up times stay in the thread slots. *)
ReleaseKeepsTimers(S) ==
    /\ pml4' = Clear(S, pml4, FALSE)
    /\ left' = left \ S
    /\ cr3' = Clear(S, cr3, All(FALSE))
    /\ stackBase' = Clear(S, stackBase, All(FALSE))
    /\ stackMapped' = Clear(S, stackMapped, All(FALSE))
    /\ root' = Clear(S, root, FALSE)
    /\ UNCHANGED <<wake, group, incarnation>>

(* process_release_resources of every process in S, apart from the thread   *)
(* states and active_thread_idx, which the caller may still change.         *)
Release(S) ==
    /\ pml4' = Clear(S, pml4, FALSE)
    /\ left' = left \ S
    /\ cr3' = Clear(S, cr3, All(FALSE))
    /\ stackBase' = Clear(S, stackBase, All(FALSE))
    /\ stackMapped' = Clear(S, stackMapped, All(FALSE))
    /\ wake' = Clear(S, wake, All(0))
    /\ root' = Clear(S, root, FALSE)
    /\ UNCHANGED <<group, incarnation>>

Kill(S) ==
    /\ pstate' = Clear(S, pstate, "EXITED")
    /\ tstate' = Clear(S, tstate, All("UNUSED"))
    /\ Release(S)

(* service_poll ends a daemon that missed its heartbeat. *)
KernelKill(p) ==
    /\ mode = "kernel"
    /\ Killable(p)
    /\ Kill({p})
    /\ nextThread' = [nextThread EXCEPT ![p] = 0]
    /\ UNCHANGED cpuVars

(* SYS_KILL.  After a process has killed itself process_current_id() is -1, *)
(* so the handler never asks for the exit: the dead thread stays on the CPU *)
(* until it faults.                                                         *)
SysKill(p) ==
    /\ InUser
    /\ p = proc \/ root[proc]
    /\ Killable(p)
    /\ Kill({p})
    /\ nextThread' = [nextThread EXCEPT ![p] = 0]
    /\ UNCHANGED cpuVars

(* A fault in user mode: the process is killed if it is not dead already,   *)
(* and the scheduler sees an exit (2) of a thread that is UNUSED by now.    *)
Fault ==
    /\ mode = "user"
    /\ LET S == IF Killable(proc) THEN {proc} ELSE {}
       IN  Kill(S) /\ Return(Clear(S, nextThread, 0))

-----------------------------------------------------------------------------
(* Threads *)

(* Mutant of FreeThread: the stack's pages stay mapped. *)
FreeThreadLeaksStack ==
    /\ stackBase' = [stackBase EXCEPT ![proc][thread] = FALSE]
    /\ wake' = [wake EXCEPT ![proc][thread] = 0]
    /\ UNCHANGED stackMapped

(* The calling thread's slot is given up: the stack that                    *)
(* process_create_thread mapped for it goes.                                *)
FreeThread ==
    /\ stackBase' = [stackBase EXCEPT ![proc][thread] = FALSE]
    /\ stackMapped' = [stackMapped EXCEPT ![proc][thread] =
                          @ /\ (thread = 0 \/ ~stackBase[proc][thread])]
    /\ wake' = [wake EXCEPT ![proc][thread] = 0]

(* process_exit_current_thread, reached by SYS_EXIT, SYS_THREAD_EXIT, the   *)
(* Linux tkill and the Linux exit of a thread other than the main one.      *)
ThreadExit ==
    /\ InUser
    /\ tstate[proc][thread] \in {"READY", "RUNNING"}
    /\ LET ts == [tstate EXCEPT ![proc][thread] = "EXITED"]
       IN  \/ /\ AliveThreads(ts[proc]) = {}
              /\ pstate' = [pstate EXCEPT ![proc] = "EXITED"]
              /\ tstate' = [tstate EXCEPT ![proc] = All("UNUSED")]
              /\ Release({proc})
              /\ Return(Clear({proc}, nextThread, 0))
           \/ /\ AliveThreads(ts[proc]) # {}
              /\ pstate' = [pstate EXCEPT ![proc] = "READY"]
              /\ tstate' = ts
              /\ FreeThread
              /\ Return(nextThread)
              /\ UNCHANGED <<pml4, cr3, group, root, history>>

(* The Linux exit_group, and exit by a main thread.  The number is past the *)
(* kernel's own, so any program may make the call.  The yield request is    *)
(* taken back and process_return_to_kernel jumps into the frame saved by    *)
(* process_run_test_ring3, whose return address kernel_main's later calls   *)
(* have overwritten: from the desktop it lands in halt(), from the text     *)
(* console boot goes on into the desktop, a new kernel loop.  Which of the  *)
(* two is running is not in the model.  The table is left as it is.         *)
ExitGroup ==
    /\ InUser
    /\ mode' \in {"kernel", "halted"}
    /\ left' = IF pstate[proc] = "RUNNING" THEN left \union {proc} ELSE left
    /\ UNCHANGED <<tableVars, proc, thread, incarnation>>

(* halt(): interrupts off, for ever. *)
Halt == mode = "halted" /\ UNCHANGED vars

(* The first slot after the main thread's that holds no live thread. *)
FirstFreeThread(t) ==
    /\ t \in Tids \ ({0} \union AliveThreads(tstate[proc]))
    /\ \A u \in Tids \ ({0} \union AliveThreads(tstate[proc])) : t <= u

(* Mutant of CreateThread: the new context gets no page table. *)
CreateThreadWithoutCr3(t) ==
    /\ InUser
    /\ FirstFreeThread(t)
    /\ ~stackMapped[proc][t]
    /\ stackBase' = [stackBase EXCEPT ![proc][t] = TRUE]
    /\ stackMapped' = [stackMapped EXCEPT ![proc][t] = TRUE]
    /\ ReturnYield(pstate, [tstate EXCEPT ![proc][t] = "READY"], nextThread)
    /\ UNCHANGED <<pml4, cr3, wake, group, root, history>>

(* SYS_THREAD_CREATE.  vmm_map_page refuses a page that is present, so a    *)
(* stack left behind by an earlier thread of the slot makes the call fail.  *)
(* wake_at_ms keeps the value the slot had.                                 *)
CreateThread(t) ==
    /\ InUser
    /\ FirstFreeThread(t)
    /\ ~stackMapped[proc][t]
    /\ cr3' = [cr3 EXCEPT ![proc][t] = cr3[proc][0]]
    /\ stackBase' = [stackBase EXCEPT ![proc][t] = TRUE]
    /\ stackMapped' = [stackMapped EXCEPT ![proc][t] = TRUE]
    /\ ReturnYield(pstate, [tstate EXCEPT ![proc][t] = "READY"], nextThread)
    /\ UNCHANGED <<pml4, wake, group, root, history>>

(* The Linux clone call: the program brings the stack. *)
CreateLinuxThread(t) ==
    /\ InUser
    /\ FirstFreeThread(t)
    /\ cr3' = [cr3 EXCEPT ![proc][t] = pml4[proc]]
    /\ stackBase' = [stackBase EXCEPT ![proc][t] = FALSE]
    /\ wake' = [wake EXCEPT ![proc][t] = 0]
    /\ ReturnYield(pstate, [tstate EXCEPT ![proc][t] = "READY"], nextThread)
    /\ UNCHANGED <<pml4, stackMapped, group, root, history>>

Yield ==
    /\ InUser
    /\ ReturnYield(pstate, tstate, nextThread)
    /\ UNCHANGED <<pml4, cr3, stackBase, stackMapped, wake, group, root, history>>

(* SYS_SLEEP: a stopped process only yields. *)
Sleep(d) ==
    /\ InUser
    /\ wake' = IF pstate[proc] \in {"RUNNING", "READY"}
               THEN [wake EXCEPT ![proc][thread] = d] ELSE wake
    /\ ReturnYield(pstate, tstate, nextThread)
    /\ UNCHANGED <<pml4, cr3, stackBase, stackMapped, group, root, history>>

(* The Linux nanosleep, clock_nanosleep and pselect6: the wake-up time is   *)
(* set but the call returns to the program, which sleeps at its next yield. *)
LinuxSleep(d) ==
    /\ InUser
    /\ pstate[proc] \in {"RUNNING", "READY"}
    /\ wake' = [wake EXCEPT ![proc][thread] = d]
    /\ UNCHANGED <<pstate, tstate, pml4, cr3, stackBase, stackMapped, group, root,
                   nextThread, cpuVars, history>>

-----------------------------------------------------------------------------
(* Spawning: process_spawn_elf_with_permissions, once the image has loaded *)

(* Mutant of FreeSlot: a process that is only waiting is overwritten. *)
FirstNotRunning(p) ==
    /\ p \in Pids /\ pstate[p] # "RUNNING"
    /\ \A q \in Pids : pstate[q] # "RUNNING" => p <= q

FreeSlot(p) ==
    /\ p \in Pids /\ ~Exists(p)
    /\ \A q \in Pids : ~Exists(q) => p <= q

(* The slot's new contents, apart from what a yielding caller also changes. *)
Spawn(p, isRoot) ==
    /\ FreeSlot(p)
    /\ incarnation[p] < MaxSpawns
    /\ incarnation' = [incarnation EXCEPT ![p] = @ + 1]
    /\ pml4' = [pml4 EXCEPT ![p] = TRUE]
    /\ cr3' = [cr3 EXCEPT ![p][0] = TRUE]
    /\ stackBase' = [stackBase EXCEPT ![p] = All(FALSE)]
    /\ wake' = [wake EXCEPT ![p] = All(0)]
    /\ group' = [group EXCEPT ![p] = p]
    /\ root' = [root EXCEPT ![p] = isRoot]
    /\ UNCHANGED <<stackMapped, left>>

FirstThread == [t \in Tids |-> IF t = 0 THEN "READY" ELSE "UNUSED"]

(* The desktop or the service manager starts a program. *)
KernelSpawn(p, isRoot) ==
    /\ mode = "kernel"
    /\ Spawn(p, isRoot)
    /\ pstate' = [pstate EXCEPT ![p] = "READY"]
    /\ tstate' = [tstate EXCEPT ![p] = FirstThread]
    /\ nextThread' = [nextThread EXCEPT ![p] = 0]
    /\ UNCHANGED cpuVars

(* SYS_EXEC: a program starts another one beside itself, and yields. *)
Exec(p, isRoot) ==
    /\ InUser
    /\ Spawn(p, isRoot)
    /\ ReturnYield([pstate EXCEPT ![p] = "READY"],
                   [tstate EXCEPT ![p] = FirstThread],
                   [nextThread EXCEPT ![p] = 0])

-----------------------------------------------------------------------------
(* Process groups and signals *)

(* SYS_SET_PGID: 0 stands for the caller's own PID. *)
SetGroup(g) ==
    /\ InUser
    /\ group' = [group EXCEPT ![proc] = IF g = 0 THEN proc ELSE g]
    /\ UNCHANGED <<pstate, tstate, pml4, cr3, stackBase, stackMapped, wake, root,
                   nextThread, cpuVars, history>>

Members(g) == {p \in Pids : Exists(p) /\ group[p] = g}

(* process_signal_group(-1, g, ...): what a PTY master's Ctrl-C, Ctrl-Z or  *)
(* SYS_PTY_SIGNAL does.  The master's own group is no exception.            *)
SignalKill(g) ==
    /\ InUser
    /\ Members(g) # {}
    /\ Kill(Members(g))
    /\ nextThread' = Clear(Members(g), nextThread, 0)
    /\ UNCHANGED cpuVars

SignalStop(g) ==
    /\ InUser
    /\ \E p \in Members(g) : pstate[p] # "STOPPED"
    /\ pstate' = Clear(Members(g), pstate, "STOPPED")
    /\ tstate' = [p \in Pids |-> [t \in Tids |->
                    IF p \in Members(g) /\ pstate[p] # "STOPPED" /\ tstate[p][t] = "RUNNING"
                    THEN "READY" ELSE tstate[p][t]]]
    /\ left' = left \ Members(g)
    /\ UNCHANGED <<pml4, cr3, stackBase, stackMapped, wake, group, root, nextThread,
                   cpuVars, incarnation>>

SignalCont(g) ==
    /\ InUser
    /\ \E p \in Members(g) : pstate[p] = "STOPPED"
    /\ pstate' = [p \in Pids |-> IF p \in Members(g) /\ pstate[p] = "STOPPED"
                                 THEN "READY" ELSE pstate[p]]
    /\ UNCHANGED <<tstate, pml4, cr3, stackBase, stackMapped, wake, group, root,
                   nextThread, cpuVars, history>>

-----------------------------------------------------------------------------
Next ==
    \/ \E p \in Pids, t \in Tids : Dispatch(p, t)
    \/ IdleScan
    \/ Tick
    \/ \E p \in Pids : KernelKill(p)
    \/ \E p \in Pids, r \in BOOLEAN : KernelSpawn(p, r)
    \/ \E p \in Pids : SysKill(p)
    \/ Fault
    \/ ThreadExit
    \/ ExitGroup
    \/ Halt
    \/ \E t \in Tids : CreateThread(t)
    \/ \E t \in Tids : CreateLinuxThread(t)
    \/ Yield
    \/ \E d \in 1 .. MaxSleep : Sleep(d)
    \/ \E d \in 1 .. MaxSleep : LinuxSleep(d)
    \/ \E p \in Pids, r \in BOOLEAN : Exec(p, r)
    \/ \E g \in Pids : SetGroup(g)
    \/ \E g \in Pids : SignalKill(g)
    \/ \E g \in Pids : SignalStop(g)
    \/ \E g \in Pids : SignalCont(g)

Spec == Init /\ [][Next]_vars

(* The kernel loop calls process_step_active over and over until an         *)
(* exit_group from the desktop halts the machine; timer interrupts keep     *)
(* coming, and programs are cooperative: a thread on the CPU comes back to  *)
(* the kernel in the end.  Nothing else is assumed.                         *)
Fairness ==
    /\ WF_vars(\E p \in Pids, t \in Tids : Dispatch(p, t))
    /\ WF_vars(Tick)
    /\ WF_vars(Yield \/ Fault)

FairSpec == Spec /\ Fairness

-----------------------------------------------------------------------------
(* Properties *)

Alive(p, t) == t \in AliveThreads(tstate[p])

(* Every path back to the scheduler (yield, exit, fault, being stopped or   *)
(* killed while running) takes RUNNING away again, because the scan never   *)
(* looks at a RUNNING process: RUNNING means on the CPU, one thread at a    *)
(* time.  The only processes left RUNNING off the CPU are those whose       *)
(* program called exit_group, which never comes back to the scheduler.      *)
OneRunner ==
    \A p \in Pids :
        /\ pstate[p] = "RUNNING" => \E t \in Tids : tstate[p][t] = "RUNNING"
        /\ \A t \in Tids : tstate[p][t] = "RUNNING" =>
              /\ pstate[p] = "RUNNING"
              /\ \A u \in Tids : tstate[p][u] = "RUNNING" => u = t
              /\ p \in left \/ (mode = "user" /\ p = proc /\ t = thread)

(* An existing process has an address space and a live thread, and none of  *)
(* its live threads fails the scheduler's context checks for ever.          *)
ExistingCanRun ==
    \A p \in Pids : Exists(p) =>
        /\ pml4[p]
        /\ AliveThreads(tstate[p]) # {}
        /\ tstate[p][0] # "UNUSED" /\ cr3[p][0]
        /\ \A t \in Tids : Alive(p, t) => cr3[p][t]

(* A slot whose process is gone keeps no address space, thread, stack,      *)
(* timer or privilege for the next program: the single cleanup path of      *)
(* exit and kill.                                                           *)
DeadHoldsNothing ==
    \A p \in Pids : ~Exists(p) =>
        /\ ~pml4[p] /\ ~root[p]
        /\ \A t \in Tids : /\ tstate[p][t] = "UNUSED" /\ wake[p][t] = 0
                          /\ ~cr3[p][t] /\ ~stackBase[p][t] /\ ~stackMapped[p][t]

(* Exactly the live threads that were given a stack have one mapped, so a   *)
(* thread slot can always be used again and no stack leaks.                 *)
StackOwned ==
    \A p \in Pids, t \in Tids :
        /\ stackMapped[p][t] <=> stackBase[p][t]
        /\ stackBase[p][t] => Alive(p, t) /\ t # 0

(* process_create_thread relies on the slot's last holder having cleared    *)
(* wake_at_ms: a new thread never starts asleep.                            *)
NoInheritedSleep ==
    \A p \in Pids, t \in Tids : ~Alive(p, t) => wake[p][t] = 0

(* A stopped process stays so until SIGCONT or its death. *)
StopHolds ==
    [][\A p \in Pids : pstate[p] = "STOPPED" /\ pstate'[p] = "READY"
                          => \E g \in Pids : SignalCont(g)]_vars

(* Round robin starves nobody: a thread that is ready and awake gets the    *)
(* CPU, or it or its process is stopped or ends, or a program called        *)
(* exit_group: its own, which is then never scheduled again, or one whose   *)
(* call halted the machine.                                                 *)
NoStarvation ==
    \A p \in Pids, t \in Tids :
        (pstate[p] \in {"READY", "RUNNING"} /\ tstate[p][t] = "READY" /\ wake[p][t] = 0)
            ~> \/ mode = "user" /\ proc = p /\ thread = t
               \/ pstate[p] \in {"STOPPED", "EXITED"}
               \/ ~Alive(p, t)
               \/ p \in left
               \/ mode = "halted"

(* To the rest of the kernel the process table is the abstract life cycle:  *)
(* a PID begins only when it is free and the lowest such, and ends once.    *)
Abstract == INSTANCE Lifecycle WITH live <- {p \in Pids : Exists(p)}

ImplementsLifecycle == Abstract!LifecycleSpec
=============================================================================
