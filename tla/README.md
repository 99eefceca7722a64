# KeshOS kernel: TLA+ models and proofs

KeshOS is a small 64-bit desktop operating system written in C. Its kernel
(`kernel/`) runs user programs (`.kea` packages and static Linux ELF binaries)
under a cooperative scheduler on one CPU and gives them message queues, file
descriptors, pipes, terminals, Unix sockets, shared memory, services and a file
system. This directory models the parts that keep state on behalf of several
programs, or across a power failure, checks them with TLC on small instances, and
proves eight of them (processes, messages, descriptors, terminals, Unix sockets,
physical memory, address spaces with shared memory, services) with TLAPS for tables of
any size.

Paths below are relative to the repository root; `PROJECT.json` uses the prefix
`src/`.

## 1. Inventory

### How the system runs

The desktop loop (`src/desktop.c`, or `cmd_mode.c` for the text console) calls
`process_step_active()` over and over. Each call picks one READY thread, switches
to it, and returns when that thread comes back: a system call asked to yield (1)
or to exit (2), or the thread faulted (2). One call does not come back this way: the
Linux `exit_group`, and `exit` by a main thread, jump out of the loop and leave the
process RUNNING (section 6). There is no preemption: a timer interrupt only advances
the clock. A system call runs with interrupts masked, so a
whole handler is one atomic step; what interleaves are system calls of different
threads, faults, and what the kernel loop does between two bursts (the service
manager's poll, the desktop starting programs).

A PID is an index into a table of 16 slots and is reused as soon as the slot is
free. Everything else in the kernel is keyed by PID (message queues, descriptor
tables, sockets, terminals, service records), so the correctness of most components
is about what happens when a process ends in the middle of something and another
program takes its PID.

### Components

| Component | State | Operations | Interacts with | What is hard | What makes it correct |
|---|---|---|---|---|---|
| Process table and scheduler (`process.c`, `isr_stubs.S`, `panic.c`) | 16 slots with state, page table, credentials, group, 32 threads; the running process and thread | dispatch, yield, sleep, spawn, thread create/clone/exit, kill, fault, stop/continue | calls `*_close_owner` of sockets, terminals, descriptors, messages when a process ends | a process stopped or killed while on the CPU; slot and thread-slot reuse; fairness of the scan | one runner; existing processes can run; a dead slot holds nothing; no starvation; a stop holds until SIGCONT |
| Message queues (`ipc.c`) | one queue of 16 per PID, last sender per PID | send, filtered receive, purge at process end | `process_exists`; called from process end | PID reuse, removal from the middle | order, no loss, no letters from or to an earlier holder of a PID |
| Descriptors and pipes (`fd.c`) | descriptor tables, shared open files with counts, 16 pipes | open, dup, dup2, inherit, close, read, write | releases pipes, PTYs, Unix sockets, memfds, epolls, eventfds | counts through every mixture of sharing and closing; slot reuse | counts exact; object lives as long as its last descriptor; no stale bytes |
| Physical memory (`memory.c`) | sorted list of free ranges, bounded | allocate, free with coalescing | everything | full table, double free | free list disjoint and equal to the pages not in use |
| Virtual memory (`process_vm_*`, page tables of `memory.c`, `mremap`) | page tables, regions, heap end and next free base of each process | map, map at an address, map a memfd, unmap, brk, mremap, end of the process | physical memory, memfd | a call that fails halfway for want of a page; regions replaced or moved, fixed mappings over heap and stacks; a shared page unmapped by one of two | every page has one owner; regions whole and disjoint; nothing stray |
| Shared memory (`unix_ipc.c` section 1) | pages and reference count of each memfd | create, truncate, map, dup, close, release | descriptors, virtual memory | object outlives its file; truncation under a mapping | references exact; a mapping shows the object's own pages |
| Terminals and PTYs (`tty.c`) | 2 rings, mode, line buffer, foreground group and two owners per PTY | create, attach, read, write, mode, signals, close | descriptors, process groups | editing against a full ring, slot reuse, hand-over while the old job is closing | an end belongs to the program it was given to; no byte lost, reordered or resurrected |
| Unix sockets (`unix_ipc.c` section 2) | sockets with peer, ring, backlog, queued descriptors | socket, pair, bind, listen, connect, accept, send, receive, sendmsg, recvmsg, close | descriptors | half-open connections, reused slots, descriptors in flight | peers mutual; every socket can still be closed; no stranger's bytes |
| epoll, eventfd (`unix_ipc.c` sections 3, 4) | interest lists, counters | create, control, wait, read, write | descriptors | a watched descriptor that is closed | lives as long as its descriptor |
| Service manager (`service.c`) | services with state, PID, heartbeat, back-off | start with dependencies, heartbeat, poll, restart | spawns and kills processes | late heartbeat against PID reuse, restart limits | dependencies first; only its own process is killed |
| FAT32 (`src/drivers/system/fat32.c`) | allocation table, directories, data, FSInfo count, clean mark; in memory the mount state and free count | write, delete, rename, make directory, repair, mount, shut down | block layer | power failure between any two writes, a refused write, which may have been made all the same, a repair that gives up, a full volume | visible chains sound; calls atomic; the clean mark means nothing is lost; repair complete |
| Network sockets and stack (`socket.c`, `src/drivers/net`) | one TCP connection, UDP ports | open, connect, send, receive, close owner | device drivers | ownership at process end, duplicated segments | one owner |
| Linux system calls (`linux_syscall.c`) | thread pointers | clone, futex, exit, exit_group, mmap, file calls | all of the above | exit of a group, which leaves it RUNNING (section 6) | a group ends together |
| VFS, block layer (`vfs.c`, `block.c`) | list of nodes rebuilt from the volumes | lookup, read, write, flush | FAT32, drivers | names stale after a change | shows what FAT32 holds |
| Log ring, random pool, timer | rings and counters | append, read | everywhere | wrap-around, monotonic clock | no torn entries; time does not go back |
| Desktop, drivers, TLS, boot loader, packages, user programs, ports | - | - | - | - | not modelled, see section 7 |

## 2. Plan

1. `Lifecycle`, `Process` (+ `ProcessProofs`): the process table and scheduler, the
   abstract life cycle of PIDs, and the proof that the first implements the second.
   *Done.*
2. `Ipc`, `FdTable`, built on `Lifecycle` rather than on `Process`: what they may
   assume about PIDs is exactly what `Process` is proved to guarantee. *Done.*
3. `Pmm`: the free-range list of `memory.c` against a set of free pages
   (`PagePool`), with the refinement checked and proved. *Done.*
4. `Memory`: address spaces and shared memory objects over that pool. *Done.*
5. `Pty`: line discipline, modes, foreground group, hand-over and hang-up, on
   `Lifecycle`. *Done.*
6. `UnixSocket`: connections, backlog, descriptors in flight, on `Lifecycle`. *Done.*
7. `Service`: dependencies, heartbeats, restarts, on `Lifecycle`. *Done.*
8. `Fat32`: the file system under power failures and refused writes. *Done.*
9. Proofs: `Process` and its refinement of `Lifecycle`; the invariants and action
   properties of `Ipc`, `FdTable`, `Pty` and `UnixSocket`; `Pmm` and its refinement of
   `PagePool`; the invariants of `Service` and of `Memory`. *Done.* Left: `Fat32`, whose
   chains and repair need inductions over data.
10. Left to model: the TCP connection of `socket.c`, epoll's interest list against
   closed descriptors, and the node list of the VFS.

## 3. Modules

| Module | Models | State and actions |
|---|---|---|
| `Lifecycle` | what other components may assume about processes | `live`, the PIDs `process_exists` accepts, and `incarnation`, a history variable that counts the programs a PID has held. `Begin(p)`: a program takes the lowest free PID. `End(S)`: one kernel entry ends the processes `S` (several when a signal goes to a group). |
| `Process` | `process.c`, with the entry and exit paths of `isr_stubs.S`, the user-fault path of `panic.c` and the handlers of `syscall.c` that reach it | every field of `process_t` and `thread_t` that decides control (see the comments at `VARIABLES`); page tables and stacks are "there or not"; `wake` is the time left until `wake_at_ms`. |
| `Ipc` | `ipc.c` | queues of message headers; `number`, `from` and `to` are history. `Compact` is the loop of `ipc_close_owner` that moves the kept messages to the front: each goes to the slot that is its rank among them. |
| `FdTable` | `fd.c` | descriptor tables, open files with reference counts, pipes as sequences of bytes tagged by the pipe they were written to, objects of other subsystems as model values. A closed file's slot is set to `NoFile`. |
| `PagePool` | what physical memory management promises | `free`, the set of free pages. `PoolAlloc`: a block out of a smallest run of free pages that is large enough. `PoolFree`: pages that were not free. |
| `Pmm` | `pmm_*` of `memory.c` | the sorted array of free ranges, the statistics counter, and `held`, the pages the rest of the kernel holds (history). `AddRegion`: one round of the loop of `pmm_init`, before which nothing else runs. `Alloc`, `Free`; the caller may free parts of what it holds, several blocks at once, or what is already free. |
| `Service` | `service.c` | the fields of `service_info_t`, time stamps as distances from now, and `holder`, whose program each PID really runs (history). `BootStart`: one try of `service_start_all`. `Poll`: the whole of `service_poll`, its sweep a recursive function of the services seen so far (`Polled`). `Heartbeat`, `Tick`; `Begin` and `End` of other programs. |
| `Pty` | `tty.c`, with the terminal calls of `syscall.c` | the ends of each PTY, its rings, line, mode and foreground group, the descriptors that name it, the owners of the plain terminals. Typed bytes are numbered; `lastRead`, `kept`, `gone`, `session` and `holders` are history. |
| `UnixSocket` | `unix_ipc.c` section 2, `fd_bind_file_id` | sockets, open files and how many descriptors of each process name them; `conn`, the connection a socket and a byte belong to, and `misuse` are history. |
| `Memory` | `process_vm_*` of `process.c`, page tables of `memory.c`, `unix_ipc.c` section 1, `mremap` | free pages, page table, regions and heap of each process, pages and references of each object; `holders` stands for the descriptors, `shrunk` is history. |
| `Fat32` | `src/drivers/system/fat32.c` | the disk, the mount state and free count in memory, and `pending`, the writes the running call has still to make. |
| `ProcessProofs`, `IpcProofs`, `FdTableProofs`, `PtyProofs`, `UnixSocketProofs`, `PmmProofs`, `MemoryProofs`, `ServiceProofs` | - | the inductive invariant of each component and the theorems (section 5). |
| `MCProcess`, `MCIpc`, `MCFdTable`, `MCPmm`, `MCService`, `MCPty`, `MCUnixSocket`, `MCMemory`, `MCFat32` | - | the roots of the TLC runs. |

`Process` in detail. `mode = "user"` means that thread `thread` of process `proc` is
on the CPU. `Dispatch` is `process_step_active` up to `process_switch_to_user`;
`Return` and `ReturnYield` are its tail, and are part of every action that ends a
burst (`Yield`, `Sleep`, `CreateThread`, `CreateLinuxThread`, `Exec`, `ThreadExit`,
`Fault`). System calls that do not yield (`SysKill`, `SetGroup`, the three signal
actions) leave the thread on the CPU. A process that dies while on the CPU has had
the kernel's page table loaded by `vmm_destroy_user_pml4`: the only thing its thread
can do is fault, so every system call requires `InUser`. `ThreadExit` is `SYS_EXIT`,
`SYS_THREAD_EXIT`, `tkill` and the Linux `exit` of a thread other than the main one;
`ExitGroup` is the Linux `exit_group` and the main thread's `exit`, which change nothing
in the tables. Where `process_return_to_kernel` then lands depends on who called the
loop: in `halt()` from the desktop (mode `"halted"`), in the rest of the boot and a new
loop from the text console (mode `"kernel"`); `ExitGroup` allows both. `left` (history)
holds the processes it left RUNNING, until they are killed or stopped. `LinuxSleep` is
the Linux sleeping calls, which set the wake-up time and go on in the program. `SIGINT`, `SIGTERM` and
`SIGKILL` act alike in `process_send_signal`. Group signals are sent with caller -1
(by a PTY master), so no permission check applies. Failures of allocation and image
loading are calls that change nothing and need no action of their own.

`Service` in detail. `service_start_one` is recursive over the dependency; since a
dependency is registered before its dependents, the calls on the way climb to the
nearest READY service and start what is below it from the top: `Started` gives, for
each service, the tables after the call for it, from those after the call for its
dependency. `fails` is the set of services whose program cannot be started in
this call. The kernel's own start functions always return 0. The manifest is read
once, at boot; the services it registers are the constants. `service_restart` has no
caller and is left out.

`Pty` in detail. A write of several bytes is several steps, since the code handles a
byte at a time and nothing ties them together. A byte is `kept` once the call has
reported it as consumed, `gone` once it was erased or thrown away by a change of
mode. In canonical mode a newline is stored in the line before the ring is asked for
room; when there is none the byte is reported as refused and stays in the line. Stop
and continue signals change nothing kept here and are `Process`'s.

`UnixSocket` in detail. Three calls of programs lead the code into states it cannot
leave, and `misuse` remembers them: `reconnect` (a socket that is connected, or
listens, connects again, and its old peer keeps pointing at it), `pair` (a socketpair
whose second descriptor fails gives up a socket that a file still names) and
`backlog` (a listener with waiting connections goes away, or an accept fails after
taking one, and those sockets are lost). Each is listed as a hazard; every property
says what holds while the calls that spoil it have not happened.

`Memory` in detail. Pages are told apart only by who holds them: the model allocates
some free ones (`SomeOf`, a `CHOOSE`), and the lowest of the rest for a table. This
stands for any choice, since the properties do not change when the pages are
renumbered; the proof uses only that the pages were free and differ. The loops over
descriptors and regions are the recursive functions `DroppedUpTo` and `ReleasedUpTo`.
The page tables of an address space are one table, so that a mapping can fail both
for a page and for a table. Heap, the stack of one further thread and the area where the
kernel places regions lie side by side, and a fixed mapping may cover any range of
them, as `process_vm_map_fixed` accepts any user address: one over the heap or the stack
loses its pages to `brk` or to the thread's exit. `ThreadStart` and `ThreadStop` are the
part of thread creation and exit that concerns the stack's pages. Freeing a table when its last page is unmapped, roll-back
of partial mappings, and the holes that `brk` and `mremap` leave are the code's.
`shrunk` is set when a truncation frees pages that are still mapped, which the code
does not prevent (a hazard): from then on the mapping may show pages of others, and
`SeesObject` says so.

`Fat32` in detail. Calls do not overlap, so a call is computed from the disk it finds
as a list of writes; each carries the writes the code makes instead of the rest when
the device refuses it (the roll-backs). `WriteDone` makes the first of them,
`WriteFails` refuses it, `PowerOff` drops all. A refused write may be on the disk or
not: `block_write` sends a cluster in pieces and `fat_set_entry` writes two tables, and
either returns an error after the first. A write counts as durable when `block_write`
returns. Every read is assumed to succeed. `lapses` (history) remembers two things the
code does not recover from: `torn`, the refused write of an entry was made and the
roll-back gives up the chain the entry names; `unrepaired`, the last repair gave up, for
want of memory or because `repair_dir_queue` was full (`MaxDirs`). The free count kept in memory, FSInfo and the clean bit are
updated where the code updates them. `Foreign` gives the volume a directory that
another system made, with the two dot entries `fat32_make_dir` does not write.

Definitions introduced by "Mutant of ..." are deliberately wrong versions of the
definition that follows; they are used only to confirm that the properties can fail.

## 4. Runs

| Run | Instance | Distinct states | Checks |
|---|---|---|---|
| `process` | 2 processes x 2 threads, sleeps of 1 tick, 2 programs per slot, with fairness | 355,669 | `OneRunner`, `ExistingCanRun`, `DeadHoldsNothing`, `StackOwned`, `NoInheritedSleep`, refinement of `Lifecycle`, `NoStarvation`, absence of deadlock |
| `process_stop` | 1 x 2, with fairness | - | `StopHolds`, which the code violates (section 6) |
| `ipc` | 2 PIDs, 2 programs each, queues of 3, 2 types, 4 sends | 303,731 | `NoDeadLetters`, `InOrder`, `NoLoss` |
| `fd` | 2 processes x 3 descriptors; pipes (one slot used twice) and files, or terminals and objects | 100,381 | `RefsMatch`, `PipeEndsMatch`, `ObjectsMatch`, `NoStaleBytes`, `StableDescriptors` |
| `pmm` | regions of 2, 3 and 5 pages out of order, two of which touch, blocks of up to 3, a table of 3 ranges | 753 | `EveryPageOnce`, refinement of `PagePool`, absence of deadlock |
| `service` | a kernel service and 3 programs (a chain of 2 and one alone), 3 PIDs, 1 restart each, with fairness | 306,320 | `DependenciesFirst`, `OneProgram`, `BoundedRestarts`, `Restarts`, absence of deadlock |
| `service_kill` | the same with 2 PIDs | - | `KillsOwnProgram`, which the code violates |
| `pty` | 2 PIDs, 2 programs each; one PTY slot used twice, one plain terminal; ring and line of 2, 4 bytes typed, cooked or raw | about 3.4 million | `EndsOwned`, `SlotHeld`, `InOrder`, `NoLoss`, `NoErased` |
| `unix` | 2 programs x 2 descriptors, 3 sockets, 3 files, 2 connections, ring, backlog and descriptor queue of 1 | about 1.1 million | `Mutual`, `Reachable`, `FilesNameSockets`, `OwnBytes` |
| `memory` | 2 address spaces with a heap of 1, a thread stack of 1 and 2 further pages, one object of up to 2 pages, 4 pages of memory | 145,298 | `OneOwner`, `MemfdRefs`, `SeesObject`, `RegionsWhole`, `NothingStray` |
| `fat32` | 6 clusters, 2 entries per cluster, 2 names, files of 1 or 2 clusters, 3 calls, 2 power failures or 1 and a refused write, a repair queue of 3 directories | 136,658 | `ChainsSound`, `RepairComplete`, `CleanMeansWhole`, `CallsAtomic` |
| `fat32_delete` | one call on a volume with a foreign directory | - | `DeleteRemovesName`, which the code violates |

The type invariant of each component is the first conjunct of one of its properties
(`Ipc.InOrder`, `RefsMatch`, `EveryPageOnce`, `OneProgram`, `EndsOwned`,
`FilesNameSockets`, `OneOwner`, `ChainsSound`); that of `Process` is proved.

Bounds. Two processes suffice for every interaction the code has between a process
and another (kill, signal, message, inheritance, sharing); two threads suffice for
"the last" and "not the last" thread. Two programs per slot (`MaxSpawns`) is what
reuse needs. The `fd` and `unix` runs start one program per slot: a process that has
ended holds no descriptor (`RefsMatch` counts those of live processes only), so the
next one begins like the first. Three descriptors is the least that the standard
descriptors allow; a queue of three lets a message be taken from the middle. The
process groups are taken among the PIDs, as `setpgid` programs do. The proofs lift
the bounds of all runs but `fat32`. In `pmm` the table of ranges fills up, since ten pages can be
fragmented into more than three runs. In `service` three PIDs are enough for every
program to run and too few once another program runs too, so that starts fail for
lack of a slot; heartbeat time-outs of one and two polls and one restart keep the
delays short, the code's minimum of four polls and its limit of 16 restarts only
lengthen them.

The workload of `fd`, `pty` and `unix` is chosen at the start: pipes and files or
terminals and objects; bytes that are typed and edited or jobs that are attached and
interrupted; bytes or descriptors over a connection. The two kinds of state are kept
apart in the code, and their product is not needed. In `pty` four bytes fill the line
and the ring and leave one to refuse. In `unix` three sockets are a listener and a
connection or a pair with one to spare, so that slots and files run out; states after
`reconnect` or `pair` are reached and not continued (constraint `StillClaimed`),
since nothing is claimed of them. In `memory` four pages are fewer than the two
programs ask for, so every allocation in every call can fail; only one of the two
also uses anonymous memory (`Allocators`), the other shares, truncates, unmaps and
dies. The view `UpToPages` identifies states that differ in the numbering of pages.
In `fat32` two entries per cluster make the root grow into a second cluster, six
clusters fill up, a third directory is more than the repair's queue takes, and two power
failures interrupt a repair as well as a call (`TwoFaults`: two faults of either kind).
States after a torn entry are reached and not continued (`Untorn`), since nothing is
claimed of them; names are only compared, so the run is symmetric in them. In `process`
slot 0 is reused and slot 1 holds one program, the only one that may be root
(`FewPrograms`); in `memory` the process without anonymous memory maps one region at a
time (`OneView`).

Deadlock is not checked in `ipc`, `fd`, `pty`, `unix`, `memory` and `fat32`: spawns,
sends, bytes or calls are bounded, and once they are spent nothing remains to do.

Fairness (`process`, `process_stop`). The desktop loop calls `process_step_active` over
and over until an `exit_group` halts the machine (weak fairness of `Dispatch`, which is
not enabled then); timer interrupts keep coming
(`Tick`); and programs are cooperative, the assumption KeshOS makes itself: a thread
on the CPU eventually makes a call that yields, or faults (`Yield \/ Fault`). No
fairness is assumed of spawns, kills, signals or of any particular program. In
`service` the desktop loop polls (`PollHappens`, the steps of `Poll`) and time passes;
programs need do nothing.

## 5. Proofs

Each theorem holds for every value of the constants that the component's assumption
allows: positive table sizes, any bounds on spawns, sends or bytes. `Invariance` in each
module is `Spec => []IInv`; the listed theorems follow from it. There is one lemma per
action, and below it one step per conjunct the action can disturb.

| Module | Theorems | Property |
|---|---|---|
| `ProcessProofs` | `TypeCorrect`, `OneRunnerHolds`, `ExistingCanRunHolds`, `DeadHoldsNothingHolds`, `StackOwnedHolds`, `NoInheritedSleepHolds` | the invariants of `process`, the type invariant included (`OneRunner` up to the processes `exit_group` left) |
| | `Refinement` | `Spec => ImplementsLifecycle` |
| `IpcProofs` | `LettersAreAlive`, `MessagesInOrder` | `NoDeadLetters`, `InOrder` |
| | `NothingIsLost` | `NoLoss`, an action property |
| `FdTableProofs` | `ReferencesCount`, `PipeEndsAreCounted`, `BytesAreFresh`, `ObjectsAreReleased` | `RefsMatch`, `PipeEndsMatch`, `NoStaleBytes`, `ObjectsMatch` |
| | `DescriptorsAreStable` | `StableDescriptors`, an action property |
| `PtyProofs` | `EndsAreOwned`, `SlotsAreHeld`, `BytesInOrder`, `NothingIsLost`, `ErasedIsGone` | `EndsOwned`, `SlotHeld`, `InOrder`, `NoLoss`, `NoErased` |
| `UnixSocketProofs` | `PeersAreMutual`, `SocketsAreReachable`, `FilesAreLive`, `BytesAreOwn` | `Mutual`, `Reachable`, `FilesNameSockets`, `OwnBytes` |
| `PmmProofs` | `PagesAreConserved` | `EveryPageOnce` |
| | `ListImplementsPool` | `Spec => ImplementsPool` |
| `ServiceProofs` | `DependenciesFirstHolds`, `OneProgramHolds`, `BoundedRestartsHolds` | `DependenciesFirst`, `OneProgram`, `BoundedRestarts` |
| `MemoryProofs` | `OneOwnerHolds`, `MemfdRefsHolds`, `SeesObjectHolds`, `RegionsWholeHolds`, `NothingStrayHolds` | `OneOwner`, `MemfdRefs`, `SeesObject`, `RegionsWhole`, `NothingStray` (`RegionsWhole`: disjoint everywhere, whole in the area of mapped regions) |

What had to be added to the properties to make them inductive:

* `Process`. A sleep writes the wake-up time of, and an exit frees the slot of, the
  thread on the CPU, and nothing in the properties says that this thread is a live one.
  `OnCpu` adds that: in user mode the process on the CPU is a slot of the table, and
  while it exists its thread is alive. For the refinement each step is shown to be
  `Begin`, `End` or a stutter of the life cycle, from three lemmas about how the set of
  existing PIDs changes.
* `Ipc`. A live PID has held at least one program, and no number is delivered before it
  was given out; the rest says of each queue that its messages are `Fine` and their
  numbers rise. The purge needs the lemma that the slots of kept messages are their
  ranks: they rise with the index, and each slot up to the number kept is taken once.
  That follows from cardinalities of initial segments, without an induction.
* `FdTable`. The reference count is the number of descriptors of *all* processes
  (`Counted`), and a dead process has none (`DeadClosed`): neither half of `RefsMatch` is
  preserved alone. `Behind` joins the properties of pipes and objects and adds that an
  end of a pipe is behind at most one open file, without which the first close of two
  would release it.
* `Pty`. `Good` says of each slot who owns its ends and that it is allocated as long as
  one is open; `Sound` and `Flow` say of the ring and the line that their bytes rise,
  come after the last one read and were typed before now, that every `kept` byte is read
  or there and no `gone` one is, and that what waits for the master is of this session.
* `UnixSocket`. `Opened` says that a file is open exactly while a socket is behind it,
  `Departed` that dead processes name no file. Under no reconnect and no failed
  socketpair, `Linked` says that files and backlogs name sockets in use, no socket twice,
  that a socket in a backlog is behind no file, and that peers share a connection
  number, which is what makes the bytes sent to a peer its own. Under no misuse at all,
  `Held` is the converse: every socket in use is named.
* `Pmm`. The list is a sequence of blocks (`Loose`), and while `pmm_init` runs nothing is
  held and there are no more entries than regions, so that no region is refused. The
  insertion is followed through its stages: after the new block is in place the list is
  in order, and touches itself at the two sides of that block only; each merge takes one
  of these places away and leaves the set of pages alone. For the refinement, the maximal
  runs of free pages are shown to be the entries of the list, so that best fit over the
  entries is best fit over the runs. `PmmAssumption` asks of the boot regions only that
  they share no page; order and gaps do not matter.

* `Service`. `Owned` says where a service's program is: at the PID the manager
  remembers, while it is READY and nowhere else; PIDs remembered of ended programs are
  allowed. `Ordered` says that dependencies are respected among the first k services,
  which is what a poll keeps while it sweeps: it changes the state of the service it is
  at only, and those that depend on this one come later. `Paid` bounds the starts by
  the tries that were counted, at boot or as restarts, of the service and of those below
  it; each try starts a service at most once, so a sum over the services grows with
  every start. `BoundedRestarts` is not inductive without it: it bounds starts by the
  limits and says nothing of what is still to come.
* `Memory`. A call works on the free pages, the objects and one address space.
  `Consistent` is the invariant of such a call beside the pages `O` and the references
  `K` that other processes hold: no page is held twice, the regions fit the page table
  (`Shaped`), an object's pages differ, the count of an object is `K` and its own views
  (`Counted`), and views show their objects' pages (`Sees`). Each operation is shown to
  keep `Consistent` for every `O` and `K`, and to leave the views of others
  `Undisturbed`: an object others refer to is not freed, and one that is cut short under
  a view is marked. `SystemMoves` and `OneSpaceMoves` carry this to all processes, so
  that the proof of an operation speaks of one address space only.

A poll, a start along dependencies, the closes and the releases at the end of a process
are loops, in the model recursive functions over `0 .. N`. That such a function exists
and satisfies its recursion (`LoopExists`), and that what one round preserves the loop
preserves (`Ranked`), is proved from the least counterexample, which the well-foundedness
of the natural numbers gives as an ordinary set. No induction rule with an operator
parameter is needed.

Each of these invariants was checked by TLC before it was proved, on the instance of its
run or a smaller one with the same cases (for `Memory`, both the instance of the run and
one process with two objects).

Only model-checked:

* `NoStarvation` and `Restarts`: liveness under fairness is out of the prover's reach;
* `Fat32`, all four properties: the chains of clusters are walks whose length depends on
  the disk, and a call and a repair are lists of writes computed along them, so that what
  they say of every disk needs an induction over data that TLAPS cannot do here.

## 6. Findings

* `process_stop`: `process_exit_current_thread` sets the process to READY
  whenever another thread is alive, even when the process had been stopped. TLC's
  trace: a process with two threads stops its own group through its terminal and the
  thread on the CPU exits; the other thread is scheduled although no SIGCONT was sent.
* `service_kill`: `service_poll` kills by the PID it remembers, and remembers it after
  the program has ended. TLC's trace: a service's program ends, another program gets
  its PID, the service's dependency fails, and the poll kills the other program.

* `fat32_delete`: `fat32_delete_file` reads the parent's cluster into the one global
  buffer, and `dir_is_empty` reads the directory that is to go into the same buffer.
  The buffer is then marked and written over the parent's cluster. TLC's trace:
  deleting an empty directory with dot entries leaves the parent with that directory's
  entries instead of its own.

The following was met while modelling and has no run of its own. Unless marked as
outside, the models contain it, and the properties are stated so as to be true of it.

* Linux exit: `exit_group`, and `exit` by a main thread (`linux_syscall.c:547-561`), take
  the yield request back and jump into the frame `process_run_test_ring3` saved at boot.
  The process and its thread stay RUNNING with their memory, descriptors, sockets and
  messages, the scheduler skips them for ever, and from the desktop the machine halts.
  `OneRunner` and `NoStarvation` except the processes so left; `DeadHoldsNothing` says
  nothing of them, since they never reach the cleanup. The documentation lists the call
  as handled (`log.md:783`) and says no more.
* Physical memory: a full table of free ranges refuses even a range that would merge
  (16384 entries in the code); a block across two touching boot regions is handed out,
  since their ranges merge, but can only be freed in parts.
* Shared memory: truncating a memfd frees pages that are still mapped, although
  `log.md` says that a mapping keeps them; `mremap` of a shared mapping makes a private
  copy. `SeesObject` excepts the truncated objects (`shrunk`); the run that drops the
  exception fails at once, with a page that the object has given back and the mapping
  still shows. A fixed mapping may lie over the heap or a thread's stack; `brk` or the
  thread's exit then takes its pages, and `munmap` stops halfway: `RegionsWhole` is stated
  for the area of mapped regions. `unix_memfd_mmap` computes
  `(start_page + needed_pages) * PAGE_SIZE` without a check for overflow (outside: the
  model's offsets are small).
* Terminals: a slave that was closed can be attached again, but stays closed to the
  program that gets it; the foreground group outlives its processes; the mode and the
  signals need the recorded master PID, not an open master; a newline refused for want
  of room in the ring is stored all the same, so a retry doubles it, and a line of
  exactly 256 bytes cannot be ended.
* Unix sockets: the three misuses of section 3; a queued descriptor is a file number
  without a reference.
* Services: a heartbeat is credited by PID, so a program that took over the PID keeps a
  dead service READY.
* Messages: `ipc_last_sender` may name a PID that has passed to another program; a
  message is taken out of the queue before it is copied to the receiver, and a failed
  copy loses it (outside: the model ends at the queue).
* FAT32: the dots that `fat32_make_dir` writes are names of blanks, so its directories
  are never empty for `dir_is_empty`; a directory that grows is not subtracted from the
  free count until the next repair (`RepairComplete`); a failure to clear the clean mark
  at mount is ignored (`CleanMeansWhole` is claimed for devices without errors). A
  refused write of an entry that reached the disk is rolled back by freeing the chain the
  entry names (`fat32.c:881-883`, `922-924`): `ChainsSound` and `CallsAtomic` are claimed
  until then. A repair that gives up is ignored by mount, and shut-down marks the volume
  clean (`fat32.c:266`, `494`): `CleanMeansWhole` and `RepairComplete` are claimed of the
  other repairs. A failed read of a link is the end of the chain to most callers
  (`fat32.c:305`, `460`), so that a directory can be cut (`679-685`) or visible files
  freed by the repair (outside: reads succeed in the model, and all four properties rest
  on it). The
  device is flushed at shut-down only (outside: a write is durable once it returns).

## 7. Not modelled

Most of the repository's lines are outside the kernel's logic: the logo and font
tables, the vendored Doom engine, generated Wayland protocol code, the desktop with its
drawing, layout and applications. Of the rest:

* device drivers, ACPI, APIC and boot code program registers; the block layer passes
  calls on to them;
* TLS and the random pool are arithmetic over byte strings;
* the network stack parses packets and polls a device in one loop; its TCP accepts
  segments without looking at their sequence numbers, so that there is no delivery
  guarantee to state (listed as hazards);
* the VFS is a list of names rebuilt after each change of a volume; what survives is
  FAT32's state, which is modelled;
* epoll and eventfd are a list and a counter behind one descriptor; that they go with
  their last descriptor is `ObjectsMatch`;
* the package manager and the user programs are outside the kernel: the models let a
  program make any system call at any time.

Left out of modelled components: the pages of program images, main stacks and window
buffers, and so fixed mappings over them (`Process` leaves those over a thread's stack to
`Memory`); failed reads of the disk; page flags and the copying to and from user memory,
`process_vm_protect`, credentials, file offsets, the rings of plain terminals (nothing
in the repository reads or writes the far side), partition detection, long names and
bad clusters of FAT32, and the parsing of the service manifest. `PROJECT.json` lists
every component with its status.
