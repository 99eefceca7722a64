-------------------------------- MODULE Pty --------------------------------
(***************************************************************************)
(* Terminals (kernel/tty.c): pseudo terminals with a master and a slave    *)
(* end, the line discipline between them, and the plain terminals of one   *)
(* process.                                                                *)
(*                                                                         *)
(* An end is held by PID.  pty_attach hands the slave to another process,  *)
(* puts it behind descriptors 0, 1 and 2 of that process and makes it the  *)
(* controlling terminal; closing the last descriptor of an open file of a  *)
(* terminal closes the slave.  The end of a process closes the ends it     *)
(* holds.  Every byte the master types gets a number, so that the          *)
(* properties can follow it.  Stopping and continuing a job changes no     *)
(* state kept here and is left to Process.  A write of several bytes is    *)
(* several steps.  The rings of a plain terminal have no peer in the       *)
(* repository: only its ownership is modelled.                             *)
(***************************************************************************)
EXTENDS Lifecycle, Integers, FiniteSets, Sequences, SequencesExt

CONSTANTS NPtys,      \* PTY_MAX
          NTtys,      \* TTY_MAX
          RingSize,   \* TTY_BUFFER_SIZE
          LineSize,   \* sizeof(pty->line)
          MaxTyped,   \* bound on the bytes typed at masters
          MaxPtys,    \* bound on the terminals created
          Modes,      \* the modes masters choose: <<canonical, echo>>
          Workloads   \* subsets of {"bytes", "jobs"}: what programs do

ASSUME PtyAssumption ==
    /\ NPtys \in Nat /\ NTtys \in Nat
    /\ RingSize \in Nat \ {0} /\ LineSize \in Nat \ {0}
    /\ MaxTyped \in Nat /\ MaxPtys \in Nat
    /\ Modes \subseteq BOOLEAN \X BOOLEAN
    /\ Workloads \subseteq SUBSET {"bytes", "jobs"}

Ptys == 0 .. NPtys - 1
Ttys == 0 .. NTtys - 1
None == -1
Chars == {"text", "newline", "erase", "eof", "interrupt"}
Signals == {"interrupt", "terminate"}
Programs == Pids \X (0 .. MaxSpawns)
Nobody == <<None, None>>
Ids == 1 .. MaxTyped

VARIABLES pty,       \* g_ptys
          tty,       \* g_ttys: the owner, and which program it was
          files,     \* the open files of each process that name a slave
          control,   \* controlling_pty
          group,     \* process_group
          typed,     \* bytes typed so far, at all masters
          created,   \* terminals created so far
          workload   \* what programs do, chosen once

vars == <<live, incarnation, pty, tty, files, control, group, typed, created, workload>>

(* The program that holds PID p now. *)
Program(p) == <<p, incarnation[p]>>

NoPty == [allocated |-> FALSE, masterOpen |-> FALSE, slaveOpen |-> FALSE,
          master |-> None, slave |-> None, canonical |-> TRUE, echo |-> TRUE,
          line |-> <<>>, input |-> <<>>, output |-> <<>>, foreground |-> None,
          session |-> 0, holders |-> <<<<0, 0>>, <<0, 0>>>>, lastRead |-> 0,
          kept |-> {}, gone |-> {}]

(* session, holders, lastRead, kept and gone are history: which terminal    *)
(* this use of the slot is, the programs the master and the slave were      *)
(* given to, the last byte the slave read, the bytes taken from the master  *)
(* that should reach the slave, and those erased or dropped.                *)
PtyType ==
    [allocated : BOOLEAN, masterOpen : BOOLEAN, slaveOpen : BOOLEAN,
     master : Pids \union {None}, slave : Pids \union {None},
     canonical : BOOLEAN, echo : BOOLEAN, line : Seq(Ids), input : Seq(Ids),
     output : Seq(1 .. MaxPtys), foreground : Pids \union {None},
     session : 0 .. MaxPtys, holders : Programs \X Programs,
     lastRead : 0 .. MaxTyped, kept : SUBSET Ids,
     gone : SUBSET Ids]

TypeOK ==
    /\ LifecycleTypeOK
    /\ pty \in [Ptys -> PtyType]
    /\ \A i \in Ptys : /\ Len(pty[i].line) <= LineSize
                       /\ Len(pty[i].input) <= RingSize
                       /\ Len(pty[i].output) <= RingSize
    /\ tty \in [Ttys -> {Nobody} \union Programs]
    /\ files \in [Pids -> SUBSET (Ptys \X {"stdio", "extra"})]
    /\ control \in [Pids -> Ptys \union {None}]
    /\ group \in [Pids -> Pids]
    /\ typed \in 0 .. MaxTyped
    /\ created \in 0 .. MaxPtys
    /\ workload \in Workloads

(* tty_init *)
Init ==
    /\ LifecycleInit
    /\ pty = [i \in Ptys |-> NoPty]
    /\ tty = [i \in Ttys |-> Nobody]
    /\ files = [p \in Pids |-> {}]
    /\ control = [p \in Pids |-> None]
    /\ group = [p \in Pids |-> p]
    /\ typed = 0
    /\ created = 0
    /\ workload \in Workloads

-----------------------------------------------------------------------------
(* Ends *)

Lowest(x, S) == x \in S /\ \A y \in S : x <= y

(* pty_allowed *)
MasterAllowed(p, i) == pty[i].allocated /\ pty[i].masterOpen /\ pty[i].master = p
SlaveAllowed(p, i) == pty[i].allocated /\ pty[i].slaveOpen /\ pty[i].slave = p

(* The callers of pty_set_mode and the foreground operations are only       *)
(* compared with the recorded master.                                       *)
IsMaster(p, i) == p \in live /\ pty[i].allocated /\ pty[i].master = p

(* Mutant of Create: the rings keep what the last terminal left. *)
CreateKeepsRings(p, i) ==
    /\ p \in live
    /\ Lowest(i, {j \in Ptys : ~pty[j].allocated})
    /\ created < MaxPtys
    /\ created' = created + 1
    /\ pty' = [pty EXCEPT ![i] =
          [NoPty EXCEPT !.allocated = TRUE, !.masterOpen = TRUE, !.slaveOpen = TRUE,
                        !.master = p, !.slave = p, !.session = created + 1,
                        !.holders = <<Program(p), Program(p)>>, !.lastRead = typed,
                        !.input = pty[i].input, !.output = pty[i].output]]
    /\ UNCHANGED <<tty, files, control, group, typed, workload, live, incarnation>>

(* pty_create: canonical with echo, both ends held by the caller. *)
Create(p, i) ==
    /\ p \in live
    /\ Lowest(i, {j \in Ptys : ~pty[j].allocated})
    /\ created < MaxPtys
    /\ created' = created + 1
    /\ pty' = [pty EXCEPT ![i] =
          [NoPty EXCEPT !.allocated = TRUE, !.masterOpen = TRUE, !.slaveOpen = TRUE,
                        !.master = p, !.slave = p, !.session = created + 1,
                        !.holders = <<Program(p), Program(p)>>, !.lastRead = typed]]
    /\ UNCHANGED <<tty, files, control, group, typed, workload, live, incarnation>>

(* pty_attach: fd_bind_pty_stdio needs descriptors 0, 1 and 2 of t closed;  *)
(* whether the slave is still open is not looked at.                        *)
Attach(p, i, t) ==
    /\ IsMaster(p, i)
    /\ t \in live
    /\ \A f \in files[t] : f[2] # "stdio"
    /\ files' = [files EXCEPT ![t] = @ \union {<<i, "stdio">>}]
    /\ pty' = [pty EXCEPT ![i].slave = t, ![i].foreground = group[t],
                          ![i].holders[2] = Program(t)]
    /\ control' = [control EXCEPT ![t] = i]
    /\ UNCHANGED <<tty, group, typed, created, workload, live, incarnation>>

(* Terminal t once its ends m (master) and s (slave) are closed. *)
Closed(t, m, s) ==
    LET mo == t.masterOpen /\ ~m
        so == t.slaveOpen /\ ~s
    IN  [t EXCEPT !.masterOpen = mo, !.slaveOpen = so, !.allocated = mo \/ so]

(* Mutant of CloseEnd: the slot is given up with the first end. *)
CloseEndFreesSlot(p, i, slave) ==
    /\ p \in live
    /\ IF slave THEN SlaveAllowed(p, i) ELSE MasterAllowed(p, i)
    /\ pty' = [pty EXCEPT ![i] = [Closed(@, ~slave, slave) EXCEPT !.allocated = FALSE]]
    /\ UNCHANGED <<tty, files, control, group, typed, created, workload, live, incarnation>>

(* pty_close *)
CloseEnd(p, i, slave) ==
    /\ p \in live
    /\ IF slave THEN SlaveAllowed(p, i) ELSE MasterAllowed(p, i)
    /\ pty' = [pty EXCEPT ![i] = Closed(@, ~slave, slave)]
    /\ UNCHANGED <<tty, files, control, group, typed, created, workload, live, incarnation>>

(* SYS_PTY_OPEN_FD: one more open file of the controlling terminal. *)
OpenFd(p) ==
    /\ p \in live
    /\ control[p] # None
    /\ files' = [files EXCEPT ![p] = @ \union {<<control[p], "extra">>}]
    /\ UNCHANGED <<pty, tty, control, group, typed, created, workload, live, incarnation>>

(* fd_close of the last descriptor of f: pty_close of its slave, which does *)
(* nothing when the process does not hold that slave.                       *)
CloseFile(p, f) ==
    /\ p \in live
    /\ f \in files[p]
    /\ files' = [files EXCEPT ![p] = @ \ {f}]
    /\ pty' = [pty EXCEPT ![f[1]] = IF SlaveAllowed(p, f[1]) THEN Closed(@, FALSE, TRUE) ELSE @]
    /\ UNCHANGED <<tty, control, group, typed, created, workload, live, incarnation>>

-----------------------------------------------------------------------------
(* The line discipline *)

(* ring_write: what fits, in order. *)
RingWrite(ring, s) == SubSeq(ring \o s, 1, IF Len(ring \o s) < RingSize
                                          THEN Len(ring \o s) ELSE RingSize)
Room(ring) == RingSize - Len(ring)

Echo(t, n) == IF t.echo THEN RingWrite(t.output, [k \in 1 .. n |-> t.session]) ELSE t.output

Take(t, b) == [t EXCEPT !.kept = @ \union {b}]

(* A byte in raw mode: refused when the ring is full. *)
Raw(t, b) ==
    IF Room(t.input) = 0 THEN t
    ELSE [Take(t, b) EXCEPT !.input = Append(@, b), !.output = Echo(t, 1)]

(* Mutant of Erase: the byte is erased on the screen only. *)
EraseOnScreen(t) ==
    IF t.line = <<>> THEN t
    ELSE [t EXCEPT !.output = Echo(t, 3),
                   !.kept = @ \ {Last(t.line)}, !.gone = @ \union {Last(t.line)}]

(* Backspace takes the last byte of the line back. *)
Erase(t) ==
    IF t.line = <<>> THEN t
    ELSE [t EXCEPT !.line = Front(@), !.output = Echo(t, 3),
                   !.kept = @ \ {Last(t.line)}, !.gone = @ \union {Last(t.line)}]

(* Mutant of Flush: a line is given up to a ring that cannot take it. *)
FlushWithoutRoom(t) == [t EXCEPT !.input = RingWrite(@, t.line), !.line = <<>>]

(* A line goes to the ring as a whole or stays. *)
Flush(t) ==
    IF Room(t.input) < Len(t.line) THEN t
    ELSE [t EXCEPT !.input = @ \o t.line, !.line = <<>>]

(* An ordinary byte: refused when the line is full.  A newline that the     *)
(* ring cannot take is reported as not consumed, and stays in the line.     *)
Store(t, b, c) ==
    LET u == [t EXCEPT !.line = Append(@, b), !.output = Echo(t, 1)]
    IN  IF Len(t.line) >= LineSize THEN t
        ELSE IF c # "newline" THEN Take(u, b)
        ELSE IF Room(u.input) < Len(u.line) THEN u
        ELSE Flush(Take(u, b))

(* The terminal after byte b, other than an interrupt, by the branch taken.*)
Discipline(t, b, c) ==
    CASE ~t.canonical -> Raw(t, b)
      [] t.canonical /\ c = "erase" -> Erase(t)
      [] t.canonical /\ c = "eof" -> Flush(t)
      [] OTHER -> Store(t, b, c)

(* pty_write at the master.  An interrupt is looked at before the mode. *)
Type(p, i, c) ==
    /\ p \in live
    /\ MasterAllowed(p, i)
    /\ c # "interrupt"
    /\ typed < MaxTyped
    /\ typed' = typed + 1
    /\ pty' = [pty EXCEPT ![i] = Discipline(@, typed + 1, c)]
    /\ UNCHANGED <<tty, files, control, group, created, workload, live, incarnation>>

(* pty_write at the slave: one byte to the output ring. *)
Answer(p, i) ==
    /\ p \in live
    /\ SlaveAllowed(p, i)
    /\ Room(pty[i].output) > 0
    /\ pty' = [pty EXCEPT ![i].output = RingWrite(@, <<pty[i].session>>)]
    /\ UNCHANGED <<tty, files, control, group, typed, created, workload, live, incarnation>>

(* pty_read at the slave and at the master. *)
ReadInput(p, i) ==
    /\ p \in live
    /\ SlaveAllowed(p, i)
    /\ pty[i].input # <<>>
    /\ pty' = [pty EXCEPT ![i].input = Tail(@), ![i].lastRead = Head(pty[i].input)]
    /\ UNCHANGED <<tty, files, control, group, typed, created, workload, live, incarnation>>

ReadOutput(p, i) ==
    /\ p \in live
    /\ MasterAllowed(p, i)
    /\ pty[i].output # <<>>
    /\ pty' = [pty EXCEPT ![i].output = Tail(@)]
    /\ UNCHANGED <<tty, files, control, group, typed, created, workload, live, incarnation>>

(* pty_set_mode drops the line being edited. *)
SetMode(p, i, canonical, echo) ==
    /\ IsMaster(p, i)
    /\ pty' = [pty EXCEPT ![i].canonical = canonical, ![i].echo = echo, ![i].line = <<>>,
                          ![i].kept = @ \ Range(pty[i].line),
                          ![i].gone = @ \union (Range(pty[i].line) \intersect pty[i].kept)]
    /\ UNCHANGED <<tty, files, control, group, typed, created, workload, live, incarnation>>

-----------------------------------------------------------------------------
(* Processes, groups and plain terminals *)

Owned(S, i) == tty[i][1] \in S

(* Mutant of Exit: the slave ends stay open. *)
ExitKeepsSlaves(S) ==
    /\ End(S)
    /\ pty' = [i \in Ptys |-> Closed(pty[i], pty[i].master \in S, FALSE)]
    /\ tty' = [i \in Ttys |-> IF Owned(S, i) THEN Nobody ELSE tty[i]]
    /\ files' = [p \in Pids |-> IF p \in S THEN {} ELSE files[p]]
    /\ UNCHANGED <<control, group, typed, created, workload>>

(* The end of the processes S: tty_close_owner, then fd_close_owner, whose  *)
(* pty_close finds every end of the process closed already.                 *)
Exit(S) ==
    /\ End(S)
    /\ pty' = [i \in Ptys |-> Closed(pty[i], pty[i].master \in S, pty[i].slave \in S)]
    /\ tty' = [i \in Ttys |-> IF Owned(S, i) THEN Nobody ELSE tty[i]]
    /\ files' = [p \in Pids |-> IF p \in S THEN {} ELSE files[p]]
    /\ UNCHANGED <<control, group, typed, created, workload>>

(* A new program leads its own group and has no controlling terminal. *)
Spawn(p) ==
    /\ Begin(p)
    /\ control' = [control EXCEPT ![p] = None]
    /\ group' = [group EXCEPT ![p] = p]
    /\ UNCHANGED <<pty, tty, files, typed, created, workload>>

SetGroup(p, g) ==
    /\ p \in live
    /\ group' = [group EXCEPT ![p] = g]
    /\ UNCHANGED <<pty, tty, files, control, typed, created, workload, live, incarnation>>

SetForeground(p, i, g) ==
    /\ IsMaster(p, i)
    /\ pty' = [pty EXCEPT ![i].foreground = g]
    /\ UNCHANGED <<tty, files, control, group, typed, created, workload, live, incarnation>>

(* process_signal_group with a signal that ends its targets. *)
Members(i) == {q \in live : group[q] = pty[i].foreground}

(* Ctrl-C typed at the master, in either mode. *)
TypeInterrupt(p, i) == p \in live /\ MasterAllowed(p, i) /\ Exit(Members(i))

SignalForeground(p, i) == IsMaster(p, i) /\ Exit(Members(i))

TtyCreate(p, i) ==
    /\ p \in live
    /\ Lowest(i, {j \in Ttys : tty[j] = Nobody})
    /\ tty' = [tty EXCEPT ![i] = Program(p)]
    /\ UNCHANGED <<pty, files, control, group, typed, created, workload, live, incarnation>>

TtyClose(p, i) ==
    /\ p \in live
    /\ Owned({p}, i)
    /\ tty' = [tty EXCEPT ![i] = Nobody]
    /\ UNCHANGED <<pty, files, control, group, typed, created, workload, live, incarnation>>

-----------------------------------------------------------------------------
Ends(p, i) ==
    \/ Create(p, i)
    \/ \E t \in Pids : Attach(p, i, t)
    \/ \E slave \in BOOLEAN : CloseEnd(p, i, slave)
    \/ TypeInterrupt(p, i)

Bytes(p, i) ==
    \/ \E c \in Chars : Type(p, i, c)
    \/ ReadInput(p, i)
    \/ \E m \in Modes : SetMode(p, i, m[1], m[2])

Jobs(p) ==
    \/ \E g \in Pids : SetGroup(p, g) \/ \E i \in Ptys : SetForeground(p, i, g)
    \/ \E i \in Ptys : SignalForeground(p, i) \/ Answer(p, i) \/ ReadOutput(p, i)
    \/ \E i \in Ttys : TtyCreate(p, i) \/ TtyClose(p, i)
    \/ OpenFd(p)

Next ==
    \/ \E p \in Pids, i \in Ptys : Ends(p, i) \/ ("bytes" \in workload /\ Bytes(p, i))
    \/ \E p \in Pids : \/ "jobs" \in workload /\ Jobs(p)
                       \/ Spawn(p)
                       \/ \E f \in files[p] : CloseFile(p, f)
    \/ \E S \in SUBSET Pids : Exit(S)

Spec == Init /\ [][Next]_vars

-----------------------------------------------------------------------------
(* Properties *)

(* An open end belongs to the very program it was given to, never to the    *)
(* next one that runs under the same PID, and so does a plain terminal.     *)
(* The rings and the line stay within their sizes.                          *)
EndsOwned ==
    /\ TypeOK
    /\ \A i \in Ptys :
          /\ pty[i].masterOpen => /\ pty[i].master \in live
                                  /\ pty[i].holders[1] = Program(pty[i].master)
          /\ pty[i].slaveOpen => /\ pty[i].slave \in live
                                 /\ pty[i].holders[2] = Program(pty[i].slave)
    /\ \A i \in Ttys : tty[i] # Nobody => tty[i][1] \in live /\ tty[i] = Program(tty[i][1])

(* A slot is in use exactly while one of its ends is open, through closes,  *)
(* descriptor closes, re-attachments and process ends in any order.         *)
SlotHeld == \A i \in Ptys : pty[i].allocated <=> pty[i].masterOpen \/ pty[i].slaveOpen

Sent(t) == t.input \o t.line

(* The bytes the slave has read, can read and that are still being edited   *)
(* were typed in that order, whatever was erased, refused or dropped, and   *)
(* none of an earlier terminal in the slot is among them.                   *)
InOrder ==
    \A i \in Ptys : pty[i].allocated =>
        LET s == Sent(pty[i])
        IN  /\ \A k \in 1 .. Len(s) - 1 : s[k] < s[k + 1]
            /\ s # <<>> => pty[i].lastRead < s[1]
            /\ \A k \in DOMAIN pty[i].output : pty[i].output[k] = pty[i].session

(* A byte reported as consumed reaches the slave unless it is erased or the *)
(* mode changes: no full ring and no end-of-file loses it.                  *)
NoLoss ==
    \A i \in Ptys : pty[i].allocated =>
        \A k \in pty[i].kept : k <= pty[i].lastRead \/ k \in Range(Sent(pty[i]))

(* What was erased or dropped with a mode change is never read. *)
NoErased ==
    \A i \in Ptys : pty[i].allocated => pty[i].gone \intersect Range(Sent(pty[i])) = {}
=============================================================================
