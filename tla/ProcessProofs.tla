--------------------------- MODULE ProcessProofs ---------------------------
(***************************************************************************)
(* Proofs about Process, for every size of the process and thread tables.  *)
(***************************************************************************)
EXTENDS Process, TLAPS

(* The thread on the CPU: while its process exists it is one of its live    *)
(* threads.  Without it a sleep could be recorded in, or an exit taken by,  *)
(* a slot that belongs to nobody.  A process that exit_group left stays     *)
(* RUNNING, so the scan cannot give it the CPU a second time.               *)
OnCpu ==
    /\ mode = "user" => /\ proc \in Pids \ left
                        /\ Exists(proc) => Alive(proc, thread)
    /\ \A p \in left : pstate[p] = "RUNNING"

IInv ==
    /\ TypeOK
    /\ OneRunner
    /\ ExistingCanRun
    /\ DeadHoldsNothing
    /\ StackOwned
    /\ NoInheritedSleep
    /\ OnCpu

-----------------------------------------------------------------------------
(* The indices the scheduler computes stay inside the tables. *)
LEMMA ModRange == ASSUME NEW k \in Int, NEW n \in Nat \ {0} PROVE k % n \in 0 .. n - 1
  OBVIOUS

(* Thread 0 exists. *)
LEMMA ZeroTid == 0 \in Tids
  BY ProcessAssumption DEF Tids

(* The initial process table satisfies the inductive invariant. *)
LEMMA InitIInv == Init => IInv
  <1> SUFFICES ASSUME Init PROVE IInv
    OBVIOUS
  <1> USE ProcessAssumption DEF Init, All, Exists, AliveThreads, Alive
  <1>1. TypeOK
    BY DEF TypeOK, PStates, TStates, Pids, Tids
  <1>2. OneRunner
    BY DEF OneRunner
  <1>3. ExistingCanRun
    BY DEF ExistingCanRun
  <1>4. DeadHoldsNothing
    BY DEF DeadHoldsNothing
  <1>5. StackOwned
    BY DEF StackOwned
  <1>6. NoInheritedSleep
    BY DEF NoInheritedSleep
  <1>7. OnCpu
    BY DEF OnCpu, OneRunner
  <1> QED
    BY <1>1, <1>2, <1>3, <1>4, <1>5, <1>6, <1>7 DEF IInv

(* A thread in user mode with an address space belongs to an existing       *)
(* process and is one of its live threads.                                  *)
LEMMA InUserFacts ==
  ASSUME IInv, InUser
  PROVE  proc \in Pids /\ thread \in Tids /\ Exists(proc) /\ Alive(proc, thread)
  BY DEF IInv, InUser, DeadHoldsNothing, OnCpu, TypeOK

(* The process on the CPU was not left by exit_group, so no other thread of *)
(* it is RUNNING.                                                           *)
LEMMA RunnerFacts ==
  ASSUME IInv, InUser
  PROVE  /\ proc \notin left
         /\ \A u \in Tids : tstate[proc][u] = "RUNNING" => u = thread
         /\ pstate[proc] = "RUNNING" => tstate[proc][thread] = "RUNNING"
  BY DEF IInv, InUser, OnCpu, OneRunner, TypeOK

(* The active_thread_idx left after a burst is a thread slot. *)
LEMMA NextTid == ASSUME thread \in Tids PROVE (thread + 1) % NThreads \in Tids
  BY ProcessAssumption, ModRange DEF Tids

(* Every delay starts and ends at 0. *)
LEMMA ZeroDelay == 0 \in 0 .. MaxSleep
  BY ProcessAssumption

(* The scheduler hands the CPU to a thread. *)
LEMMA DispatchStep ==
  ASSUME IInv, NEW p \in Pids, NEW t \in Tids, Dispatch(p, t)
  PROVE  IInv'
  <1> USE ZeroTid DEF IInv, TypeOK, history, Dispatch, NextProc, NextThread,
      Schedulable, Runnable
  <1>1. TypeOK'
    BY DEF PStates, TStates
  <1>2. OneRunner'
    BY DEF OneRunner, Exists, OnCpu
  <1>3. ExistingCanRun'
    BY DEF ExistingCanRun, Exists, Alive, AliveThreads
  <1>4. DeadHoldsNothing'
    BY DEF DeadHoldsNothing, Exists
  <1>5. StackOwned'
    BY DEF StackOwned, Alive, AliveThreads
  <1>6. NoInheritedSleep'
    BY DEF NoInheritedSleep, Alive, AliveThreads
  <1>7. OnCpu'
    BY DEF OnCpu, OneRunner, Exists, Alive, AliveThreads
  <1> QED
    BY <1>1, <1>2, <1>3, <1>4, <1>5, <1>6, <1>7 DEF IInv

(* The scan that finds nothing to run. *)
LEMMA IdleScanStep ==
  ASSUME IInv, IdleScan
  PROVE  IInv'
  <1> USE DEF IInv, TypeOK, history, IdleScan, tableVars
  <1>1. TypeOK'
    <2>1. proc + NProcs \in Int /\ NProcs \in Nat \ {0}
      BY ProcessAssumption DEF Pids
    <2>2. proc' \in Pids
      BY <2>1, ModRange DEF Pids
    <2> QED
      BY <2>2 DEF PStates, TStates
  <1>2. OneRunner'
    BY DEF OneRunner, Exists, OnCpu
  <1>3. ExistingCanRun'
    BY DEF ExistingCanRun, Exists, Alive, AliveThreads
  <1>4. DeadHoldsNothing'
    BY DEF DeadHoldsNothing, Exists
  <1>5. StackOwned'
    BY DEF StackOwned, Alive, AliveThreads
  <1>6. NoInheritedSleep'
    BY DEF NoInheritedSleep, Alive, AliveThreads
  <1>7. OnCpu'
    BY DEF OnCpu, OneRunner, Exists, Alive, AliveThreads
  <1> QED
    BY <1>1, <1>2, <1>3, <1>4, <1>5, <1>6, <1>7 DEF IInv

(* A timer interrupt. *)
LEMMA TickStep ==
  ASSUME IInv, Tick
  PROVE  IInv'
  <1> USE DEF IInv, TypeOK, history, Tick, cpuVars
  <1>1. TypeOK'
    <2>1. ASSUME NEW p \in Pids, NEW t \in Tids
          PROVE  (IF wake[p][t] > 0 THEN wake[p][t] - 1 ELSE 0) \in 0 .. MaxSleep
      BY ZeroDelay, ProcessAssumption
    <2> QED
      BY <2>1
  <1>2. OneRunner'
    BY DEF OneRunner, Exists, OnCpu
  <1>3. ExistingCanRun'
    BY DEF ExistingCanRun, Exists, Alive, AliveThreads
  <1>4. DeadHoldsNothing'
    BY DEF DeadHoldsNothing, Exists
  <1>5. StackOwned'
    BY DEF StackOwned, Alive, AliveThreads
  <1>6. NoInheritedSleep'
    BY DEF NoInheritedSleep, Alive, AliveThreads
  <1>7. OnCpu'
    BY DEF OnCpu, OneRunner, Exists, Alive, AliveThreads
  <1> QED
    BY <1>1, <1>2, <1>3, <1>4, <1>5, <1>6, <1>7 DEF IInv

(* The service manager ends a process. *)
LEMMA KernelKillStep ==
  ASSUME IInv, NEW p \in Pids, KernelKill(p)
  PROVE  IInv'
  <1> USE ZeroTid, ZeroDelay DEF IInv, TypeOK, history, KernelKill, Killable, Kill,
      Release, Clear, All, cpuVars
  <1>1. TypeOK'
    BY DEF PStates, TStates
  <1>2. OneRunner'
    BY DEF OneRunner, Exists, OnCpu
  <1>3. ExistingCanRun'
    BY DEF ExistingCanRun, Exists, Alive, AliveThreads
  <1>4. DeadHoldsNothing'
    BY DEF DeadHoldsNothing, Exists
  <1>5. StackOwned'
    BY DEF StackOwned, Alive, AliveThreads
  <1>6. NoInheritedSleep'
    BY DEF NoInheritedSleep, Alive, AliveThreads
  <1>7. OnCpu'
    BY DEF OnCpu, OneRunner, Exists, Alive, AliveThreads
  <1> QED
    BY <1>1, <1>2, <1>3, <1>4, <1>5, <1>6, <1>7 DEF IInv

(* The kernel starts a program. *)
LEMMA KernelSpawnStep ==
  ASSUME IInv, NEW p \in Pids, NEW r \in BOOLEAN, KernelSpawn(p, r)
  PROVE  IInv'
  <1> USE ZeroTid, ZeroDelay DEF IInv, TypeOK, history, KernelSpawn, Spawn, FreeSlot,
      FirstThread, All, cpuVars
  <1>1. TypeOK'
    <2>1. incarnation' \in [Pids -> 0 .. MaxSpawns]
      BY ProcessAssumption
    <2> QED
      BY <2>1 DEF PStates, TStates
  <1>2. OneRunner'
    BY DEF OneRunner, Exists, OnCpu
  <1>3. ExistingCanRun'
    BY DEF ExistingCanRun, Exists, Alive, AliveThreads
  <1>4. DeadHoldsNothing'
    BY DEF DeadHoldsNothing, Exists
  <1>5. StackOwned'
    BY DEF StackOwned, Alive, AliveThreads, DeadHoldsNothing, Exists
  <1>6. NoInheritedSleep'
    BY DEF NoInheritedSleep, Alive, AliveThreads
  <1>7. OnCpu'
    BY DEF OnCpu, OneRunner, Exists, Alive, AliveThreads
  <1> QED
    BY <1>1, <1>2, <1>3, <1>4, <1>5, <1>6, <1>7 DEF IInv

(* A process kills itself or, as root, another. *)
LEMMA SysKillStep ==
  ASSUME IInv, NEW p \in Pids, SysKill(p)
  PROVE  IInv'
  <1>0. InUser /\ proc \in Pids /\ thread \in Tids /\ Exists(proc) /\
      Alive(proc, thread)
    BY InUserFacts DEF SysKill
  <1> USE <1>0, NextTid, ZeroTid, ZeroDelay DEF IInv, TypeOK, history, SysKill,
      Killable, Kill, Release, Clear, All, cpuVars
  <1>1. TypeOK'
    BY DEF PStates, TStates
  <1>2. OneRunner'
    BY DEF OneRunner, Exists, OnCpu
  <1>3. ExistingCanRun'
    BY DEF ExistingCanRun, Exists, Alive, AliveThreads
  <1>4. DeadHoldsNothing'
    BY DEF DeadHoldsNothing, Exists
  <1>5. StackOwned'
    BY DEF StackOwned, Alive, AliveThreads
  <1>6. NoInheritedSleep'
    BY DEF NoInheritedSleep, Alive, AliveThreads
  <1>7. OnCpu'
    BY DEF OnCpu, OneRunner, Exists, Alive, AliveThreads
  <1> QED
    BY <1>1, <1>2, <1>3, <1>4, <1>5, <1>6, <1>7 DEF IInv

(* A fault in user mode. *)
LEMMA FaultStep ==
  ASSUME IInv, Fault
  PROVE  IInv'
  <1> USE NextTid, ZeroTid, ZeroDelay DEF IInv, TypeOK, history, Fault, Killable, Kill,
      Release, Return, Clear, All
  <1>1. TypeOK'
    BY DEF PStates, TStates
  <1>2. OneRunner'
    BY DEF OneRunner, Exists, OnCpu
  <1>3. ExistingCanRun'
    BY DEF ExistingCanRun, Exists, Alive, AliveThreads
  <1>4. DeadHoldsNothing'
    BY DEF DeadHoldsNothing, Exists
  <1>5. StackOwned'
    BY DEF StackOwned, Alive, AliveThreads
  <1>6. NoInheritedSleep'
    BY DEF NoInheritedSleep, Alive, AliveThreads
  <1>7. OnCpu'
    BY DEF OnCpu, OneRunner, Exists, Alive, AliveThreads
  <1> QED
    BY <1>1, <1>2, <1>3, <1>4, <1>5, <1>6, <1>7 DEF IInv

(* A thread exits, perhaps the last of its process. *)
LEMMA ThreadExitStep ==
  ASSUME IInv, ThreadExit
  PROVE  IInv'
  <1>0. InUser /\ proc \in Pids /\ thread \in Tids /\ Exists(proc) /\ Alive(proc, thread)
    BY InUserFacts DEF ThreadExit
  <1> DEFINE ts == [tstate EXCEPT ![proc][thread] = "EXITED"]
  <1> USE <1>0, NextTid, ZeroTid, ZeroDelay DEF IInv, TypeOK, history
  <1>1. CASE AliveThreads(ts[proc]) = {}
    <2>1. /\ pstate' = [pstate EXCEPT ![proc] = "EXITED"]
          /\ tstate' = [tstate EXCEPT ![proc] = All("UNUSED")]
          /\ Release({proc})
          /\ Return(Clear({proc}, nextThread, 0))
      BY <1>1 DEF ThreadExit
    <2> USE <2>1 DEF Release, Return, Clear, All
    <2>2. TypeOK'
      BY DEF PStates, TStates
    <2>3. OneRunner'
      BY DEF OneRunner, Exists, OnCpu
    <2>4. ExistingCanRun'
      BY DEF ExistingCanRun, Exists, Alive, AliveThreads
    <2>5. DeadHoldsNothing'
      BY DEF DeadHoldsNothing, Exists
    <2>6. StackOwned'
      BY DEF StackOwned, Alive, AliveThreads
    <2>7. NoInheritedSleep'
      BY DEF NoInheritedSleep, Alive, AliveThreads
    <2>8. OnCpu'
      BY RunnerFacts DEF OnCpu, OneRunner
    <2> QED
      BY <2>2, <2>3, <2>4, <2>5, <2>6, <2>7, <2>8 DEF IInv
  <1>2. CASE AliveThreads(ts[proc]) # {}
    <2>1. /\ pstate' = [pstate EXCEPT ![proc] = "READY"]
          /\ tstate' = ts
          /\ FreeThread
          /\ Return(nextThread)
          /\ UNCHANGED <<pml4, cr3, group, root, history>>
      BY <1>2 DEF ThreadExit
    <2>a. stackMapped[proc][thread] <=> stackBase[proc][thread]
      BY DEF StackOwned
    <2>b. stackMapped' = [stackMapped EXCEPT ![proc][thread] = FALSE]
      BY <2>1, <2>a DEF StackOwned, FreeThread
    <2>c. PICK u \in Tids : ts[proc][u] \in {"READY", "RUNNING"}
      BY <1>2 DEF AliveThreads
    <2> USE <2>1, <2>b DEF Return, FreeThread
    <2>2. TypeOK'
      BY DEF PStates, TStates
    <2>d. \A p \in Pids, t \in Tids : tstate'[p][t] = "RUNNING" => p # proc
      BY RunnerFacts DEF OneRunner
    <2>3. OneRunner'
      BY <2>d DEF OneRunner
    <2>4. ExistingCanRun'
      BY <2>c DEF ExistingCanRun, Exists, Alive, AliveThreads
    <2>5. DeadHoldsNothing'
      BY DEF DeadHoldsNothing, Exists
    <2>6. StackOwned'
      BY DEF StackOwned, Alive, AliveThreads
    <2>7. NoInheritedSleep'
      BY DEF NoInheritedSleep, Alive, AliveThreads
    <2>8. OnCpu'
      BY RunnerFacts DEF OnCpu, OneRunner
    <2> QED
      BY <2>2, <2>3, <2>4, <2>5, <2>6, <2>7, <2>8 DEF IInv
  <1> QED
    BY <1>1, <1>2

(* A program leaves through exit_group. *)
LEMMA ExitGroupStep ==
  ASSUME IInv, ExitGroup
  PROVE  IInv'
  <1>0. InUser /\ proc \in Pids /\ thread \in Tids /\ Exists(proc) /\
      Alive(proc, thread)
    BY InUserFacts DEF ExitGroup
  <1> USE <1>0, NextTid, ZeroTid, ZeroDelay DEF IInv, TypeOK, history, ExitGroup, tableVars
  <1>1. TypeOK'
    BY DEF PStates, TStates
  <1>2. OneRunner'
    BY DEF OneRunner, Exists, OnCpu
  <1>3. ExistingCanRun'
    BY DEF ExistingCanRun, Exists, Alive, AliveThreads
  <1>4. DeadHoldsNothing'
    BY DEF DeadHoldsNothing, Exists
  <1>5. StackOwned'
    BY DEF StackOwned, Alive, AliveThreads
  <1>6. NoInheritedSleep'
    BY DEF NoInheritedSleep, Alive, AliveThreads
  <1>7. OnCpu'
    BY DEF OnCpu, OneRunner, Exists, Alive, AliveThreads
  <1> QED
    BY <1>1, <1>2, <1>3, <1>4, <1>5, <1>6, <1>7 DEF IInv

(* A native thread is created. *)
LEMMA CreateThreadStep ==
  ASSUME IInv, NEW t \in Tids, CreateThread(t)
  PROVE  IInv'
  <1>0. InUser /\ proc \in Pids /\ thread \in Tids /\ Exists(proc) /\
      Alive(proc, thread)
    BY InUserFacts DEF CreateThread
  <1> USE <1>0, NextTid, ZeroTid, ZeroDelay DEF IInv, TypeOK, history, CreateThread,
      FirstFreeThread, ReturnYield, Return
  <1>1. TypeOK'
    BY DEF PStates, TStates
  <1>2. OneRunner'
    BY DEF OneRunner, Exists, OnCpu, AliveThreads, Alive
  <1>3. ExistingCanRun'
    BY DEF ExistingCanRun, Exists, Alive, AliveThreads
  <1>4. DeadHoldsNothing'
    BY DEF DeadHoldsNothing, Exists
  <1>5. StackOwned'
    BY DEF StackOwned, Alive, AliveThreads
  <1>6. NoInheritedSleep'
    BY DEF NoInheritedSleep, Alive, AliveThreads
  <1>7. OnCpu'
    BY RunnerFacts DEF OnCpu, Exists, Alive, AliveThreads
  <1> QED
    BY <1>1, <1>2, <1>3, <1>4, <1>5, <1>6, <1>7 DEF IInv

(* A Linux thread is cloned. *)
LEMMA CreateLinuxThreadStep ==
  ASSUME IInv, NEW t \in Tids, CreateLinuxThread(t)
  PROVE  IInv'
  <1>0. InUser /\ proc \in Pids /\ thread \in Tids /\ Exists(proc) /\
      Alive(proc, thread)
    BY InUserFacts DEF CreateLinuxThread
  <1> USE <1>0, NextTid, ZeroTid, ZeroDelay DEF IInv, TypeOK, history,
      CreateLinuxThread, FirstFreeThread, ReturnYield, Return
  <1>1. TypeOK'
    <2>1. [tstate EXCEPT ![proc][t] = "READY"] \in [Pids -> [Tids -> TStates]]
      BY DEF TStates
    <2>2. pstate' \in [Pids -> PStates] /\ tstate' \in [Pids -> [Tids -> TStates]]
      BY <2>1 DEF PStates, TStates
    <2> QED
      BY <2>2
  <1>a. tstate[proc][t] # "RUNNING" /\ t # thread
    BY DEF AliveThreads, Alive
  <1>b. \A p \in Pids, u \in Tids : tstate'[p][u] = "RUNNING" =>
           p # proc /\ tstate[p][u] = "RUNNING"
    BY <1>a, RunnerFacts DEF OneRunner
  <1>c. \A p \in Pids \ {proc} : pstate'[p] = pstate[p] /\ tstate'[p] = tstate[p]
    OBVIOUS
  <1>d. pstate'[proc] # "RUNNING"
    BY <1>a, RunnerFacts DEF OneRunner
  <1>2. OneRunner'
    BY <1>b, <1>c, <1>d DEF OneRunner
  <1>3. ExistingCanRun'
    BY DEF ExistingCanRun, Exists, Alive, AliveThreads
  <1>4. DeadHoldsNothing'
    BY DEF DeadHoldsNothing, Exists
  <1>5. StackOwned'
    BY DEF StackOwned, Alive, AliveThreads
  <1>6. NoInheritedSleep'
    BY DEF NoInheritedSleep, Alive, AliveThreads
  <1>7. OnCpu'
    BY RunnerFacts DEF OnCpu, Exists, Alive, AliveThreads
  <1> QED
    BY <1>1, <1>2, <1>3, <1>4, <1>5, <1>6, <1>7 DEF IInv

(* A thread yields. *)
LEMMA YieldStep ==
  ASSUME IInv, Yield
  PROVE  IInv'
  <1>0. InUser /\ proc \in Pids /\ thread \in Tids /\ Exists(proc) /\
      Alive(proc, thread)
    BY InUserFacts DEF Yield
  <1> USE <1>0, NextTid, ZeroTid, ZeroDelay DEF IInv, TypeOK, history, Yield,
      ReturnYield, Return
  <1>1. TypeOK'
    BY DEF PStates, TStates
  <1>2. OneRunner'
    BY DEF OneRunner, Exists, OnCpu
  <1>3. ExistingCanRun'
    BY DEF ExistingCanRun, Exists, Alive, AliveThreads
  <1>4. DeadHoldsNothing'
    BY DEF DeadHoldsNothing, Exists
  <1>5. StackOwned'
    BY DEF StackOwned, Alive, AliveThreads
  <1>6. NoInheritedSleep'
    BY DEF NoInheritedSleep, Alive, AliveThreads
  <1>7. OnCpu'
    BY RunnerFacts DEF OnCpu, Exists, Alive, AliveThreads
  <1> QED
    BY <1>1, <1>2, <1>3, <1>4, <1>5, <1>6, <1>7 DEF IInv

(* A thread goes to sleep. *)
LEMMA SleepStep ==
  ASSUME IInv, NEW d \in 1 .. MaxSleep, Sleep(d)
  PROVE  IInv'
  <1>0. InUser /\ proc \in Pids /\ thread \in Tids /\ Exists(proc) /\
      Alive(proc, thread)
    BY InUserFacts DEF Sleep
  <1> USE <1>0, NextTid, ZeroTid, ZeroDelay DEF IInv, TypeOK, history, Sleep,
      ReturnYield, Return
  <1>1. TypeOK'
    BY DEF PStates, TStates
  <1>2. OneRunner'
    BY DEF OneRunner, Exists, OnCpu
  <1>3. ExistingCanRun'
    BY DEF ExistingCanRun, Exists, Alive, AliveThreads
  <1>4. DeadHoldsNothing'
    BY DEF DeadHoldsNothing, Exists
  <1>5. StackOwned'
    BY DEF StackOwned, Alive, AliveThreads
  <1>6. NoInheritedSleep'
    BY DEF NoInheritedSleep, Alive, AliveThreads
  <1>7. OnCpu'
    BY RunnerFacts DEF OnCpu, Exists, Alive, AliveThreads
  <1> QED
    BY <1>1, <1>2, <1>3, <1>4, <1>5, <1>6, <1>7 DEF IInv

(* A Linux thread sets its wake-up time and goes on. *)
LEMMA LinuxSleepStep ==
  ASSUME IInv, NEW d \in 1 .. MaxSleep, LinuxSleep(d)
  PROVE  IInv'
  <1>0. InUser /\ proc \in Pids /\ thread \in Tids /\ Exists(proc) /\
      Alive(proc, thread)
    BY InUserFacts DEF LinuxSleep
  <1> USE <1>0, NextTid, ZeroTid, ZeroDelay DEF IInv, TypeOK, history, LinuxSleep, cpuVars
  <1>1. TypeOK'
    BY DEF PStates, TStates
  <1>2. OneRunner'
    BY DEF OneRunner, Exists, OnCpu
  <1>3. ExistingCanRun'
    BY DEF ExistingCanRun, Exists, Alive, AliveThreads
  <1>4. DeadHoldsNothing'
    BY DEF DeadHoldsNothing, Exists
  <1>5. StackOwned'
    BY DEF StackOwned, Alive, AliveThreads
  <1>6. NoInheritedSleep'
    BY DEF NoInheritedSleep, Alive, AliveThreads
  <1>7. OnCpu'
    BY DEF OnCpu, OneRunner, Exists, Alive, AliveThreads
  <1> QED
    BY <1>1, <1>2, <1>3, <1>4, <1>5, <1>6, <1>7 DEF IInv

(* A program starts another. *)
LEMMA ExecStep ==
  ASSUME IInv, NEW p \in Pids, NEW r \in BOOLEAN, Exec(p, r)
  PROVE  IInv'
  <1>0. InUser /\ proc \in Pids /\ thread \in Tids /\ Exists(proc) /\
      Alive(proc, thread)
    BY InUserFacts DEF Exec
  <1> USE <1>0, NextTid, ZeroTid, ZeroDelay DEF IInv, TypeOK, history, Exec, Spawn,
      FreeSlot, FirstThread, All, ReturnYield, Return
  <1>1. TypeOK'
    <2>1. incarnation' \in [Pids -> 0 .. MaxSpawns]
      BY ProcessAssumption
    <2> QED
      BY <2>1 DEF PStates, TStates
  <1>2. OneRunner'
    BY DEF OneRunner, Exists, OnCpu
  <1>3. ExistingCanRun'
    BY DEF ExistingCanRun, Exists, Alive, AliveThreads
  <1>4. DeadHoldsNothing'
    BY DEF DeadHoldsNothing, Exists
  <1>5. StackOwned'
    BY DEF StackOwned, Alive, AliveThreads, DeadHoldsNothing, Exists
  <1>6. NoInheritedSleep'
    BY DEF NoInheritedSleep, Alive, AliveThreads
  <1>7. OnCpu'
    BY RunnerFacts DEF OnCpu, Exists, Alive, AliveThreads
  <1> QED
    BY <1>1, <1>2, <1>3, <1>4, <1>5, <1>6, <1>7 DEF IInv

(* A process changes its group. *)
LEMMA SetGroupStep ==
  ASSUME IInv, NEW g \in Pids, SetGroup(g)
  PROVE  IInv'
  <1>0. InUser /\ proc \in Pids /\ thread \in Tids /\ Exists(proc) /\
      Alive(proc, thread)
    BY InUserFacts DEF SetGroup
  <1> USE <1>0, NextTid, ZeroTid, ZeroDelay DEF IInv, TypeOK, history, SetGroup,
      cpuVars
  <1>1. TypeOK'
    BY DEF PStates, TStates
  <1>2. OneRunner'
    BY DEF OneRunner, Exists, OnCpu
  <1>3. ExistingCanRun'
    BY DEF ExistingCanRun, Exists, Alive, AliveThreads
  <1>4. DeadHoldsNothing'
    BY DEF DeadHoldsNothing, Exists
  <1>5. StackOwned'
    BY DEF StackOwned, Alive, AliveThreads
  <1>6. NoInheritedSleep'
    BY DEF NoInheritedSleep, Alive, AliveThreads
  <1>7. OnCpu'
    BY DEF OnCpu, OneRunner, Exists, Alive, AliveThreads
  <1> QED
    BY <1>1, <1>2, <1>3, <1>4, <1>5, <1>6, <1>7 DEF IInv

(* A terminal signal ends a group. *)
LEMMA SignalKillStep ==
  ASSUME IInv, NEW g \in Pids, SignalKill(g)
  PROVE  IInv'
  <1>0. InUser /\ proc \in Pids /\ thread \in Tids /\ Exists(proc) /\
      Alive(proc, thread)
    BY InUserFacts DEF SignalKill
  <1> USE <1>0, NextTid, ZeroTid, ZeroDelay DEF IInv, TypeOK, history, SignalKill,
      Members, Kill, Release, Clear, All, cpuVars
  <1>1. TypeOK'
    BY DEF PStates, TStates
  <1>2. OneRunner'
    BY DEF OneRunner, Exists, OnCpu
  <1>3. ExistingCanRun'
    BY DEF ExistingCanRun, Exists, Alive, AliveThreads
  <1>4. DeadHoldsNothing'
    BY DEF DeadHoldsNothing, Exists
  <1>5. StackOwned'
    BY DEF StackOwned, Alive, AliveThreads
  <1>6. NoInheritedSleep'
    BY DEF NoInheritedSleep, Alive, AliveThreads
  <1>7. OnCpu'
    BY DEF OnCpu, OneRunner, Exists, Alive, AliveThreads
  <1> QED
    BY <1>1, <1>2, <1>3, <1>4, <1>5, <1>6, <1>7 DEF IInv

(* A terminal signal stops a group. *)
LEMMA SignalStopStep ==
  ASSUME IInv, NEW g \in Pids, SignalStop(g)
  PROVE  IInv'
  <1>0. InUser /\ proc \in Pids /\ thread \in Tids /\ Exists(proc) /\
      Alive(proc, thread)
    BY InUserFacts DEF SignalStop
  <1> USE <1>0, NextTid, ZeroTid, ZeroDelay DEF IInv, TypeOK, history, SignalStop,
      Members, Clear, cpuVars
  <1>1. TypeOK'
    BY DEF PStates, TStates
  <1>2. OneRunner'
    BY DEF OneRunner, Exists, OnCpu
  <1>3. ExistingCanRun'
    BY DEF ExistingCanRun, Exists, Alive, AliveThreads
  <1>4. DeadHoldsNothing'
    BY DEF DeadHoldsNothing, Exists
  <1>5. StackOwned'
    BY DEF StackOwned, Alive, AliveThreads
  <1>6. NoInheritedSleep'
    BY DEF NoInheritedSleep, Alive, AliveThreads
  <1>7. OnCpu'
    BY DEF OnCpu, OneRunner, Exists, Alive, AliveThreads
  <1> QED
    BY <1>1, <1>2, <1>3, <1>4, <1>5, <1>6, <1>7 DEF IInv

(* A terminal signal continues a group. *)
LEMMA SignalContStep ==
  ASSUME IInv, NEW g \in Pids, SignalCont(g)
  PROVE  IInv'
  <1>0. InUser /\ proc \in Pids /\ thread \in Tids /\ Exists(proc) /\
      Alive(proc, thread)
    BY InUserFacts DEF SignalCont
  <1> USE <1>0, NextTid, ZeroTid, ZeroDelay DEF IInv, TypeOK, history, SignalCont,
      Members, cpuVars
  <1>1. TypeOK'
    BY DEF PStates, TStates
  <1>2. OneRunner'
    BY DEF OneRunner, Exists, OnCpu
  <1>3. ExistingCanRun'
    BY DEF ExistingCanRun, Exists, Alive, AliveThreads
  <1>4. DeadHoldsNothing'
    BY DEF DeadHoldsNothing, Exists
  <1>5. StackOwned'
    BY DEF StackOwned, Alive, AliveThreads
  <1>6. NoInheritedSleep'
    BY DEF NoInheritedSleep, Alive, AliveThreads
  <1>7. OnCpu'
    BY DEF OnCpu, OneRunner, Exists, Alive, AliveThreads
  <1> QED
    BY <1>1, <1>2, <1>3, <1>4, <1>5, <1>6, <1>7 DEF IInv

-----------------------------------------------------------------------------
(* The inductive invariant is preserved by every step. *)
LEMMA StepIInv == IInv /\ [Next]_vars => IInv'
  <1> SUFFICES ASSUME IInv, [Next]_vars PROVE IInv'
    OBVIOUS
  <1>1. CASE UNCHANGED vars
    BY <1>1 DEF vars, IInv, TypeOK, OneRunner, ExistingCanRun, DeadHoldsNothing,
                StackOwned, NoInheritedSleep, OnCpu, Exists, Alive, AliveThreads
  <1>2. CASE Next
    BY <1>1, <1>2, DispatchStep, IdleScanStep, TickStep, KernelKillStep, KernelSpawnStep,
       SysKillStep, FaultStep, ThreadExitStep, ExitGroupStep, CreateThreadStep,
       CreateLinuxThreadStep, YieldStep, SleepStep, LinuxSleepStep, ExecStep, SetGroupStep,
       SignalKillStep, SignalStopStep, SignalContStep
       DEF Next, Halt
  <1> QED
    BY <1>1, <1>2

(* Every reachable state of the process table satisfies the invariant. *)
THEOREM Invariance == Spec => []IInv
  <1> QED
    BY InitIInv, StepIInv, PTL DEF Spec

(* The process table and the scheduler's indices keep their types: in       *)
(* particular no index the round-robin scan computes leaves its array.      *)
THEOREM TypeCorrect == Spec => []TypeOK
  <1>1. IInv => TypeOK
    BY DEF IInv
  <1> QED
    BY <1>1, Invariance, PTL

(* RUNNING means on the CPU, except for a process that exit_group left. *)
THEOREM OneRunnerHolds == Spec => []OneRunner
  <1>1. IInv => OneRunner
    BY DEF IInv
  <1> QED
    BY <1>1, Invariance, PTL

(* An existing process always has what the scheduler needs to run it. *)
THEOREM ExistingCanRunHolds == Spec => []ExistingCanRun
  <1>1. IInv => ExistingCanRun
    BY DEF IInv
  <1> QED
    BY <1>1, Invariance, PTL

(* Every way a process ends frees all that its slot held. *)
THEOREM DeadHoldsNothingHolds == Spec => []DeadHoldsNothing
  <1>1. IInv => DeadHoldsNothing
    BY DEF IInv
  <1> QED
    BY <1>1, Invariance, PTL

(* Thread stacks neither leak nor outlive their thread. *)
THEOREM StackOwnedHolds == Spec => []StackOwned
  <1>1. IInv => StackOwned
    BY DEF IInv
  <1> QED
    BY <1>1, Invariance, PTL

(* A reused thread slot never carries an old wake-up time. *)
THEOREM NoInheritedSleepHolds == Spec => []NoInheritedSleep
  <1>1. IInv => NoInheritedSleep
    BY DEF IInv
  <1> QED
    BY <1>1, Invariance, PTL

-----------------------------------------------------------------------------
(* Refinement of the abstract life cycle *)

Live == {p \in Pids : Exists(p)}

(* A step that changes no process's existence is invisible. *)
LEMMA Stutter ==
  ASSUME Live' = Live, UNCHANGED incarnation
  PROVE  UNCHANGED Abstract!lifecycleVars
  BY DEF Live, Abstract!lifecycleVars

(* A step that takes some existing processes away ends them. *)
LEMMA Ending ==
  ASSUME NEW S, S \subseteq Live, Live' = Live \ S, UNCHANGED incarnation
  PROVE  [Abstract!LifecycleNext]_(Abstract!lifecycleVars)
  <1>1. CASE S = {}
    BY <1>1, Stutter
  <1>2. CASE S # {}
    <2>1. Abstract!End(S)
      BY <1>2 DEF Abstract!End, Live
    <2>2. S \in SUBSET Abstract!Pids
      BY DEF Live, Abstract!Pids, Pids
    <2> QED
      BY <2>1, <2>2 DEF Abstract!LifecycleNext
  <1> QED
    BY <1>1, <1>2

(* A step that spawns into the first free slot begins that PID. *)
LEMMA Beginning ==
  ASSUME NEW p \in Pids, FreeSlot(p), incarnation[p] < MaxSpawns,
         incarnation' = [incarnation EXCEPT ![p] = @ + 1],
         Live' = Live \union {p}
  PROVE  [Abstract!LifecycleNext]_(Abstract!lifecycleVars)
  <1>1. Abstract!FirstFree(p)
    BY DEF Abstract!FirstFree, FreeSlot, Abstract!Pids, Pids
  <1>2. Abstract!Begin(p)
    BY <1>1 DEF Abstract!Begin, Live
  <1> QED
    BY <1>2 DEF Abstract!LifecycleNext, Abstract!Pids, Pids

(* Every step of the process table is a step of the life cycle, or          *)
(* invisible to it.                                                         *)
LEMMA StepRefines ==
  ASSUME IInv, [Next]_vars
  PROVE  [Abstract!LifecycleNext]_(Abstract!lifecycleVars)
  <1> USE DEF IInv, TypeOK
  <1>1. ASSUME UNCHANGED <<pstate, incarnation>>
        PROVE  [Abstract!LifecycleNext]_(Abstract!lifecycleVars)
    BY <1>1, Stutter DEF Live, Exists
  <1>2. ASSUME NEW S, S \subseteq Live, Kill(S)
        PROVE  [Abstract!LifecycleNext]_(Abstract!lifecycleVars)
    <2>1. Live' = Live \ S
      BY <1>2 DEF Kill, Clear, Live, Exists
    <2>2. UNCHANGED incarnation
      BY <1>2 DEF Kill, Release
    <2> QED
      BY <1>2, <2>1, <2>2, Ending
  <1>3. ASSUME NEW ps, NEW ts, NEW nt, ReturnYield(ps, ts, nt), InUser,
               ps \in [Pids -> PStates], ps[proc] \notin {"UNUSED", "EXITED"}
        PROVE  Live' = {p \in Pids : ps[p] \notin {"UNUSED", "EXITED"}}
    BY <1>3 DEF ReturnYield, Live, Exists, InUser
  <1>4. ASSUME NEW p \in Pids, NEW t \in Tids, Dispatch(p, t)
        PROVE  [Abstract!LifecycleNext]_(Abstract!lifecycleVars)
    BY <1>4, Stutter DEF history, Dispatch, NextProc, Schedulable, Live, Exists
  <1>5. ASSUME NEW p \in Pids, KernelKill(p) \/ SysKill(p)
        PROVE  [Abstract!LifecycleNext]_(Abstract!lifecycleVars)
    <2>1. {p} \subseteq Live /\ Kill({p})
      BY <1>5 DEF KernelKill, SysKill, Killable, Live, Exists
    <2> QED
      BY <2>1, <1>2
  <1>6. CASE Fault
    <2> DEFINE S == IF Killable(proc) THEN {proc} ELSE {}
    <2>1. S \subseteq Live /\ Kill(S)
      BY <1>6 DEF Fault, Killable, Live, Exists, OnCpu
    <2> QED
      BY <2>1, <1>2
  <1>7. CASE ThreadExit
    <2>0. proc \in Live
      BY <1>7, InUserFacts DEF ThreadExit, Live
    <2>1. CASE /\ pstate' = [pstate EXCEPT ![proc] = "EXITED"]
               /\ UNCHANGED incarnation
      <3>1. Live' = Live \ {proc}
        BY <2>0, <2>1 DEF Live, Exists
      <3>2. {proc} \subseteq Live /\ UNCHANGED incarnation
        BY <2>0, <2>1
      <3> HIDE DEF IInv, TypeOK
      <3> QED
        BY <3>1, <3>2, Ending
    <2>2. CASE /\ pstate' = [pstate EXCEPT ![proc] = "READY"]
               /\ UNCHANGED incarnation
      BY <2>0, <2>2, Stutter DEF Live, Exists
    <2> QED
      BY <1>7, <2>1, <2>2 DEF ThreadExit, Release, history
  <1>8. ASSUME NEW p \in Pids, NEW r \in BOOLEAN, KernelSpawn(p, r)
        PROVE  [Abstract!LifecycleNext]_(Abstract!lifecycleVars)
    <2>1. Live' = Live \union {p}
      BY <1>8 DEF KernelSpawn, Live, Exists
    <2> QED
      BY <1>8, <2>1, Beginning DEF KernelSpawn, Spawn
  <1>9. ASSUME NEW p \in Pids, NEW r \in BOOLEAN, Exec(p, r)
        PROVE  [Abstract!LifecycleNext]_(Abstract!lifecycleVars)
    <2> DEFINE ps == [pstate EXCEPT ![p] = "READY"]
    <2>1. InUser /\ proc \in Pids /\ Exists(proc)
      BY <1>9, InUserFacts DEF Exec
    <2>2. ps \in [Pids -> PStates] /\ ps[proc] \notin {"UNUSED", "EXITED"}
      BY <2>1 DEF PStates, Exists
    <2>3. Live' = {q \in Pids : ps[q] \notin {"UNUSED", "EXITED"}}
      BY <1>3, <1>9, <2>1, <2>2 DEF Exec
    <2>4. Live' = Live \union {p}
      BY <2>3 DEF Live, Exists
    <2> QED
      BY <1>9, <2>4, Beginning DEF Exec, Spawn
  <1>10. ASSUME NEW ts, NEW nt, ReturnYield(pstate, ts, nt), InUser,
                UNCHANGED incarnation
         PROVE  [Abstract!LifecycleNext]_(Abstract!lifecycleVars)
    <2>1. pstate[proc] \notin {"UNUSED", "EXITED"}
      BY <1>10, InUserFacts DEF Exists
    <2>2. Live' = Live
      BY <1>3, <1>10, <2>1 DEF Live, Exists
    <2> QED
      BY <1>10, <2>2, Stutter
  <1>11. ASSUME NEW g \in Pids, SignalKill(g)
         PROVE  [Abstract!LifecycleNext]_(Abstract!lifecycleVars)
    BY <1>2, <1>11 DEF SignalKill, Members, Live
  <1>12. ASSUME NEW g \in Pids, SignalStop(g) \/ SignalCont(g)
         PROVE  [Abstract!LifecycleNext]_(Abstract!lifecycleVars)
    <2>1. Live' = Live /\ UNCHANGED incarnation
      BY <1>12 DEF SignalStop, SignalCont, Members, Clear, Live, Exists, history
    <2> QED
      BY <2>1, Stutter
  <1>13. CASE Next
    BY <1>1, <1>4, <1>5, <1>6, <1>7, <1>8, <1>9, <1>10, <1>11, <1>12, <1>13
       DEF Next, IdleScan, tableVars, Tick, CreateThread, CreateLinuxThread, Yield,
           Sleep, LinuxSleep, SetGroup, ExitGroup, Halt, vars, history
  <1> QED
    BY <1>1, <1>13 DEF vars

(* The process table implements the abstract life cycle that the other      *)
(* components are built on.                                                 *)
THEOREM Refinement == Spec => ImplementsLifecycle
  <1>1. Init => Abstract!LifecycleInit
    BY DEF Init, Abstract!LifecycleInit, Exists, Abstract!Pids, Pids
  <1>2. IInv /\ [Next]_vars => [Abstract!LifecycleNext]_(Abstract!lifecycleVars)
    BY StepRefines
  <1> QED
    BY <1>1, <1>2, Invariance, PTL DEF Spec, ImplementsLifecycle, Abstract!LifecycleSpec
=============================================================================
