------------------------------ MODULE Service ------------------------------
(***************************************************************************)
(* The service manager (kernel/service.c): it starts the registered        *)
(* services in order of dependency, watches the programs of the userspace  *)
(* ones from the desktop loop, and restarts them with a growing delay.     *)
(*                                                                         *)
(* A service knows its program only by PID, and PIDs are reused.  What the *)
(* manager cannot see is kept in holder: whose program each PID runs.      *)
(* Other programs come and go, take the lowest free PID as in Lifecycle,   *)
(* and may call the heartbeat too.                                         *)
(*                                                                         *)
(* Time is counted in poll intervals (250 ms).  The time stamps of the     *)
(* code are kept as distances from now, which are bounded.                 *)
(***************************************************************************)
EXTENDS Integers, FiniteSetsExt

CONSTANTS NProcs,      \* MAX_PROCESSES
          NServices,   \* g_service_count, once the manifest is loaded
          Dependency,  \* dependency of each service; 0 is SERVICE_NO_DEPENDENCY
          Userspace,   \* the services that are programs
          Limit,       \* restart_limit of each service
          Timeout      \* heartbeat_timeout_ms of each, in poll intervals

Services == 1 .. NServices
Pids == 0 .. NProcs - 1

(* service_register and service_register_userspace accept a dependency only *)
(* on a service registered before, the manifest a limit of at most 16.      *)
ASSUME ServiceAssumption ==
    /\ NProcs \in Nat \ {0} /\ NServices \in Nat \ {0}
    /\ \A i \in Services : Dependency[i] \in 0 .. i - 1
    /\ Userspace \subseteq Services
    /\ Limit \in [Services -> 0 .. 16]
    /\ Timeout \in [Services -> Nat \ {0}]

VARIABLES state,     \* state of each service
          count,     \* restart_count
          starts,    \* start_count
          pid,       \* process_id
          age,       \* now - last_heartbeat_ms, up to just over the timeout
          wait,      \* restart_at_ms - now, or 0 when that has passed
          holder,    \* what runs at each PID: a service's program or another
          pause,     \* next_poll_ms - now, or 0 when that has passed
          boot,      \* the service service_start_all is at, or NServices + 1
          retrying   \* service_start_all is in its inner loop

vars == <<state, count, starts, pid, age, wait, holder, pause, boot, retrying>>

None  == -1          \* no process
Free  == 0           \* nothing runs at this PID
Other == -1          \* a program the manager did not start

States == {"STOPPED", "READY", "FAILED"}   \* STARTING never outlasts a call

(* A service and those it depends on, directly or not. *)
Ancestors[i \in 0 .. NServices] ==
    IF i = 0 THEN {} ELSE {i} \union Ancestors[Dependency[i]]

PartialSums(f) ==
    LET Sum[k \in 0 .. NServices] == IF k = 0 THEN 0 ELSE Sum[k - 1] + f[k]
    IN  Sum

Total(f) == PartialSums(f)[NServices]

(* The tries a service can get: its own, and one with each try of a service *)
(* that depends on it.                                                      *)
MaxStarts(i) ==
    Total([j \in Services |-> IF i \in Ancestors[j] THEN 1 + Limit[j] ELSE 0])

Backoff(n) == 2 ^ (IF n < 5 THEN n ELSE 5)

TypeOK ==
    /\ state \in [Services -> States]
    /\ \A i \in Services : /\ count[i] \in 0 .. Limit[i]
                           /\ starts[i] \in Nat
                           /\ age[i] \in 0 .. Timeout[i] + 1
                           /\ wait[i] \in 0 .. Backoff(Limit[i])
    /\ pid \in [Services -> Pids \union {None}]
    /\ holder \in [Pids -> Services \union {Free, Other}]
    /\ pause \in 0 .. 1
    /\ boot \in 1 .. NServices + 1
    /\ retrying \in BOOLEAN

Init ==
    /\ state = [i \in Services |-> "STOPPED"]
    /\ count = [i \in Services |-> 0]
    /\ starts = [i \in Services |-> 0]
    /\ pid = [i \in Services |-> None]
    /\ age = [i \in Services |-> 0]
    /\ wait = [i \in Services |-> 0]
    /\ holder = [p \in Pids |-> Free]
    /\ pause = 0
    /\ boot = 1
    /\ retrying = FALSE

(* The manager's tables and the process table, as one value that a call     *)
(* works on, and the state they become when it returns.                     *)
Tables == [state |-> state, count |-> count, starts |-> starts, pid |-> pid,
           age |-> age, wait |-> wait, holder |-> holder]

Become(S) ==
    /\ state' = S.state /\ count' = S.count /\ starts' = S.starts
    /\ pid' = S.pid /\ age' = S.age /\ wait' = S.wait /\ holder' = S.holder

-----------------------------------------------------------------------------
(* service_start_one *)

FreePids(S) == {p \in Pids : S.holder[p] = Free}

(* Starts service i, whose dependency is READY.  A program's start may fail *)
(* (fails), and does when no PID is free.                                   *)
Launch(S, i, fails) ==
    LET spawned == i \in Userspace /\ i \notin fails /\ FreePids(S) # {}
        p       == IF spawned THEN Min(FreePids(S)) ELSE None
        ready   == i \in Userspace => spawned
    IN  [S EXCEPT !.state[i] = IF ready THEN "READY" ELSE "FAILED",
                  !.starts[i] = @ + 1,
                  !.pid[i] = p,
                  !.age[i] = 0,
                  !.holder = [q \in Pids |-> IF q = p THEN i ELSE @[q]]]

DependencyReady(S, i) ==
    Dependency[i] # 0 => S.state[Dependency[i]] = "READY"

(* One level of the recursion, after the levels above. *)
StartLevel(S, i, fails) ==
    IF DependencyReady(S, i) THEN Launch(S, i, fails)
                             ELSE [S EXCEPT !.state[i] = "FAILED"]

(* The tables after the recursion for each service.  It ends at a READY     *)
(* service or above the first (0); no level changes the state that a level  *)
(* above it sees.                                                           *)
Started(S, fails) ==
    LET T[j \in 0 .. NServices] ==
            IF j = 0 \/ S.state[j] = "READY" THEN S
            ELSE StartLevel(T[Dependency[j]], j, fails)
    IN  T

StartOne(S, i, fails) == Started(S, fails)[i]

(* One try of service_start_all, at boot, before any program runs. *)
BootStart(fails) ==
    LET S == IF retrying THEN [Tables EXCEPT !.count[boot] = @ + 1] ELSE Tables
        T == StartOne(S, boot, fails)
        again == T.state[boot] = "FAILED" /\ T.count[boot] < Limit[boot]
    IN  /\ boot <= NServices
        /\ Become(T)
        /\ retrying' = again
        /\ boot' = IF again THEN boot ELSE boot + 1
        /\ UNCHANGED pause

Running == boot > NServices

-----------------------------------------------------------------------------
(* service_poll *)

Exists(S, p) == p # None /\ S.holder[p] # Free

(* process_kill of a service's PID, if a process has it. *)
KillProgram(S, i) ==
    IF Exists(S, S.pid[i]) THEN [S EXCEPT !.holder[S.pid[i]] = Free] ELSE S

(* Mutant of LoseDependency: the program of the service is left running. *)
LoseDependencyOnly(S, i) ==
    [S EXCEPT !.state[i] = "FAILED", !.wait[i] = 1]

(* The dependency is not READY. *)
LoseDependency(S, i) ==
    [(IF i \in Userspace THEN KillProgram(S, i) ELSE S)
        EXCEPT !.state[i] = "FAILED", !.wait[i] = 1]

Lost(S, i) == ~Exists(S, S.pid[i]) \/ S.age[i] > Timeout[i]

(* Mutant of DetectLoss: a service that is down is found lost again, and    *)
(* its delay begins anew.                                                   *)
DetectLossAgain(S, i) ==
    IF S.state[i] \in {"READY", "FAILED"} /\ Lost(S, i)
    THEN [KillProgram(S, i) EXCEPT !.state[i] = "FAILED",
                                   !.wait[i] = Backoff(S.count[i])]
    ELSE S

DetectLoss(S, i) ==
    IF S.state[i] = "READY" /\ Lost(S, i)
    THEN [KillProgram(S, i) EXCEPT !.state[i] = "FAILED",
                                   !.wait[i] = Backoff(S.count[i])]
    ELSE S

(* Mutant of RestartDue: only failed starts count. *)
RestartUncounted(S, i, fails) ==
    IF S.state[i] = "FAILED" /\ S.count[i] < Limit[i] /\ S.wait[i] = 0
    THEN LET T == StartOne([S EXCEPT !.state[i] = "STOPPED"], i, fails)
         IN  IF T.state[i] = "READY" THEN T ELSE [T EXCEPT !.count[i] = @ + 1]
    ELSE S

RestartDue(S, i, fails) ==
    IF S.state[i] = "FAILED" /\ S.count[i] < Limit[i] /\ S.wait[i] = 0
    THEN StartOne([S EXCEPT !.count[i] = @ + 1, !.state[i] = "STOPPED"], i, fails)
    ELSE S

(* Mutant of PollOne: dependencies are looked at when a service starts only. *)
PollOneAlone(S, i, fails) ==
    IF i \in Userspace THEN RestartDue(DetectLoss(S, i), i, fails) ELSE S

PollOne(S, i, fails) ==
    IF ~DependencyReady(S, i) THEN LoseDependency(S, i)
    ELSE IF i \in Userspace THEN RestartDue(DetectLoss(S, i), i, fails)
    ELSE S

(* The tables after the first k services have been looked at. *)
Polled(S, fails) ==
    LET T[k \in 0 .. NServices] ==
            IF k = 0 THEN S ELSE PollOne(T[k - 1], k, fails)
    IN  T

Poll(fails) ==
    /\ Running
    /\ pause = 0
    /\ pause' = 1
    /\ Become(Polled(Tables, fails)[NServices])
    /\ UNCHANGED <<boot, retrying>>

-----------------------------------------------------------------------------
(* service_heartbeat: the first READY service with the caller's PID. *)
HeartbeatOf(p, i) ==
    LET claims == {j \in Userspace : pid[j] = p /\ state[j] = "READY"}
    IN  i \in claims /\ \A j \in claims : i <= j

Heartbeat(p) ==
    /\ Running
    /\ holder[p] # Free
    /\ \E i \in Services : HeartbeatOf(p, i) /\ age' = [age EXCEPT ![i] = 0]
    /\ UNCHANGED <<state, count, starts, pid, wait, holder, pause, boot, retrying>>

(* Another program starts or any program ends, as in Lifecycle. *)
Begin ==
    /\ Running
    /\ FreePids(Tables) # {}
    /\ holder' = [holder EXCEPT ![Min(FreePids(Tables))] = Other]
    /\ UNCHANGED <<state, count, starts, pid, age, wait, pause, boot, retrying>>

End(p) ==
    /\ Running
    /\ holder[p] # Free
    /\ holder' = [holder EXCEPT ![p] = Free]
    /\ UNCHANGED <<state, count, starts, pid, age, wait, pause, boot, retrying>>

Less(n) == IF n = 0 THEN 0 ELSE n - 1

Tick ==
    /\ age' = [i \in Services |-> IF age[i] > Timeout[i] THEN age[i] ELSE age[i] + 1]
    /\ wait' = [i \in Services |-> Less(wait[i])]
    /\ pause' = Less(pause)
    /\ UNCHANGED <<state, count, starts, pid, holder, boot, retrying>>

Boot == \E fails \in SUBSET Userspace : BootStart(fails)
Supervise == \E fails \in SUBSET Userspace : Poll(fails)

Next ==
    \/ Boot
    \/ Supervise
    \/ \E p \in Pids : Heartbeat(p) \/ End(p)
    \/ Begin
    \/ Tick

Spec == Init /\ [][Next]_vars

(* The steps that raise pause are exactly those of Supervise. *)
PollHappens == Running /\ pause = 0 /\ pause' = 1

(* The desktop loop polls in every frame and the timer goes on; no program  *)
(* has to do anything.                                                      *)
FairSpec == Spec /\ WF_pause(PollHappens) /\ WF_vars(Tick)

-----------------------------------------------------------------------------
(* Properties *)

(* A service is READY only while the service it depends on is: the start    *)
(* order respects dependencies, and one poll takes down a whole chain.      *)
DependenciesFirst ==
    \A i \in Services : state[i] = "READY" => DependencyReady(Tables, i)

(* No service ever has two programs, and one that is not READY has none:    *)
(* what fails or loses its dependency is stopped before it is started       *)
(* again.  No service is restarted beyond its limit.                        *)
OneProgram ==
    /\ TypeOK
    /\ \A i \in Services :
        Cardinality({p \in Pids : holder[p] = i}) <= (IF state[i] = "READY" THEN 1 ELSE 0)

(* Restarts are bounded: however failures at boot and at run time, of a     *)
(* service and of those it depends on, follow each other, no service is     *)
(* started more often than its own and its dependents' limits allow.        *)
BoundedRestarts == \A i \in Services : starts[i] <= MaxStarts(i)

(* Only programs the manager started are killed by it.                      *)
KillsOwnProgram ==
    [][\A p \in Pids : Supervise /\ holder[p] = Other => holder'[p] = Other]_vars

(* A failed userspace service with restarts left is started again, unless   *)
(* its dependency fails: the growing delay, renewed while a dependency is   *)
(* down, never keeps it waiting for ever.                                   *)
Restarts ==
    \A i \in Userspace :
        (Running /\ state[i] = "FAILED" /\ count[i] < Limit[i])
            ~> \/ state[i] = "READY" \/ count[i] = Limit[i]
               \/ ~DependencyReady(Tables, i)
=============================================================================
