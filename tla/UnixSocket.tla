----------------------------- MODULE UnixSocket -----------------------------
(***************************************************************************)
(* Unix stream sockets and the passing of descriptors over them            *)
(* (kernel/unix_ipc.c, section 2).                                         *)
(*                                                                         *)
(* A socket is a slot of g_unix_sockets behind an open file, or waits in   *)
(* the backlog of a listener.  Connected sockets point at each other, and  *)
(* a byte sent goes to the ring of the peer.  sendmsg queues the number of *)
(* an open file at the peer, and recvmsg binds whatever file has that      *)
(* number then.                                                            *)
(*                                                                         *)
(* The descriptor layer is FdTable's, reduced to how many descriptors of   *)
(* each process name a file.  There is one path.                           *)
(*                                                                         *)
(* Three calls of programs lead the code into states it cannot leave:      *)
(* misuse remembers which of them have happened, and the properties say    *)
(* what holds while they have not.                                         *)
(***************************************************************************)
EXTENDS Lifecycle, Integers, FiniteSets, Sequences, SequencesExt

CONSTANTS NSocks,      \* MAX_UNIX_SOCKETS
          NFiles,      \* FD_FILE_MAX
          NFds,        \* FD_MAX_PER_PROCESS
          RingSize,    \* UNIX_RING_SIZE
          MaxQueued,   \* MAX_QUEUED_FDS
          MaxBacklog,  \* the length of backlog[]
          MaxConns,    \* bound on the connections made
          Servers,     \* the PIDs whose programs bind and listen
          Workloads    \* what connections carry: "bytes" or "files"

ASSUME UnixAssumption ==
    /\ {NSocks, NFiles, NFds, RingSize, MaxQueued, MaxBacklog} \subseteq Nat \ {0}
    /\ MaxConns \in Nat
    /\ Servers \subseteq Nat
    /\ Workloads \subseteq {"bytes", "files"}

Socks == 0 .. NSocks - 1
FileIds == 0 .. NFiles - 1
None == -1
States == {"CLOSED", "OPEN", "LISTENING", "CONNECTED"}
Misuses == {"reconnect", "pair", "backlog"}

VARIABLES sock,     \* g_unix_sockets
          file,     \* g_files: the socket behind an open file
          has,      \* how many descriptors of each process name each file
          conns,    \* connections made so far
          misuse,   \* which of Misuses have happened
          carries   \* the workload, chosen once

vars == <<live, incarnation, sock, file, has, conns, misuse, carries>>

(* conn is the connection the socket belongs to, and ring holds for each    *)
(* byte the connection it was sent on.                                      *)
SockType == [inUse : BOOLEAN, state : States, bound : BOOLEAN, peer : Socks \union {None},
             ring : Seq(0 .. MaxConns), queue : Seq(FileIds), backlog : Seq(Socks),
             conn : 0 .. MaxConns]

TypeOK ==
    /\ LifecycleTypeOK
    /\ sock \in [Socks -> SockType]
    /\ \A s \in Socks : /\ Len(sock[s].ring) <= RingSize
                        /\ Len(sock[s].queue) <= MaxQueued
                        /\ Len(sock[s].backlog) <= MaxBacklog
    /\ file \in [FileIds -> Socks \union {None}]
    /\ has \in [Pids \X FileIds -> 0 .. NFds]
    /\ conns \in 0 .. MaxConns
    /\ misuse \subseteq Misuses
    /\ carries \in Workloads

Fresh == [inUse |-> TRUE, state |-> "OPEN", bound |-> FALSE, peer |-> None,
          ring |-> <<>>, queue |-> <<>>, backlog |-> <<>>, conn |-> 0]
Unused == [Fresh EXCEPT !.inUse = FALSE, !.state = "CLOSED"]

(* unix_ipc_init *)
Init ==
    /\ LifecycleInit
    /\ sock = [s \in Socks |-> Unused]
    /\ file = [f \in FileIds |-> None]
    /\ has = [e \in Pids \X FileIds |-> 0]
    /\ conns = 0
    /\ misuse = {}
    /\ carries \in Workloads

-----------------------------------------------------------------------------
(* Descriptors *)

First(S) == {x \in S : \A y \in S : x <= y}

IsOpen(f) == \E p \in Pids : has[<<p, f>>] > 0
OpenFds(p) == Cardinality({e \in FileIds \X (1 .. NFds) : e[2] <= has[<<p, e[1]>>]})
FreeFiles == {f \in FileIds : ~IsOpen(f)}
FreeSocks == {s \in Socks : ~sock[s].inUse}

CanOpen(p, n) == OpenFds(p) + n <= NFds /\ Cardinality(FreeFiles) >= n

(* fd_get_custom: p has a descriptor of file f with socket s behind it. *)
Names(p, f, s) == p \in live /\ has[<<p, f>>] > 0 /\ s \in Socks /\ file[f] = s

(* fd_create_custom *)
NewFile(p, f, c) ==
    /\ f \in First(FreeFiles)
    /\ file' = [file EXCEPT ![f] = c]
    /\ has' = [has EXCEPT ![<<p, f>>] = 1]

-----------------------------------------------------------------------------
(* Making sockets and connections *)

(* Mutant of Create: head, tail and count keep their old values. *)
CreateKeepsRing(p, f, s) ==
    /\ p \in live
    /\ CanOpen(p, 1)
    /\ s \in First(FreeSocks)
    /\ NewFile(p, f, s)
    /\ sock' = [sock EXCEPT ![s] = [Fresh EXCEPT !.ring = sock[s].ring]]
    /\ UNCHANGED <<conns, misuse, carries, live, incarnation>>

(* unix_socket_create: without a free descriptor the slot is given back. *)
Create(p, f, s) ==
    /\ p \in live
    /\ CanOpen(p, 1)
    /\ s \in First(FreeSocks)
    /\ NewFile(p, f, s)
    /\ sock' = [sock EXCEPT ![s] = Fresh]
    /\ UNCHANGED <<conns, misuse, carries, live, incarnation>>

Bind(p, f, s) ==
    /\ Names(p, f, s)
    /\ sock' = [sock EXCEPT ![s].bound = TRUE]
    /\ UNCHANGED <<file, has, conns, misuse, carries, live, incarnation>>

(* unix_socket_listen asks nothing of the socket's state. *)
Listen(p, f, s) ==
    /\ Names(p, f, s)
    /\ sock' = [sock EXCEPT ![s].state = "LISTENING"]
    /\ UNCHANGED <<file, has, conns, misuse, carries, live, incarnation>>

Listeners == {s \in Socks : sock[s].inUse /\ sock[s].state = "LISTENING" /\ sock[s].bound}

(* Mutant of Connect: only the client learns of its peer. *)
ConnectOneWay(p, f, c, l, s) ==
    /\ Names(p, f, c)
    /\ l \in First(Listeners)
    /\ Len(sock[l].backlog) < MaxBacklog
    /\ s \in First(FreeSocks)
    /\ conns < MaxConns
    /\ conns' = conns + 1
    /\ LET new == [Fresh EXCEPT !.state = "CONNECTED", !.conn = conns + 1]
       IN  sock' = [[[sock EXCEPT ![s] = new]
                        EXCEPT ![c].state = "CONNECTED", ![c].peer = s, ![c].conn = conns + 1]
                        EXCEPT ![l].backlog = Append(@, s)]
    /\ misuse' = IF sock[c].conn # 0 \/ sock[c].backlog # <<>> \/ c = l
                 THEN misuse \union {"reconnect"} ELSE misuse
    /\ UNCHANGED <<file, has, carries, live, incarnation>>

(* unix_socket_connect: the first listener on the path gets a new socket in *)
(* its backlog.  The client's own state is not looked at: its last peer,   *)
(* what is left in its ring, or its own backlog when it listens, stays.     *)
Connect(p, f, c, l, s) ==
    /\ Names(p, f, c)
    /\ l \in First(Listeners)
    /\ Len(sock[l].backlog) < MaxBacklog
    /\ s \in First(FreeSocks)
    /\ conns < MaxConns
    /\ conns' = conns + 1
    /\ LET new == [Fresh EXCEPT !.state = "CONNECTED", !.peer = c, !.conn = conns + 1]
       IN  sock' = [[[sock EXCEPT ![s] = new]
                        EXCEPT ![c].state = "CONNECTED", ![c].peer = s, ![c].conn = conns + 1]
                        EXCEPT ![l].backlog = Append(@, s)]
    /\ misuse' = IF sock[c].conn # 0 \/ sock[c].backlog # <<>> \/ c = l
                 THEN misuse \union {"reconnect"} ELSE misuse
    /\ UNCHANGED <<file, has, carries, live, incarnation>>

(* Mutant of Accept: the socket stays in the backlog. *)
AcceptKeepsBacklog(p, f, l, g) ==
    /\ Names(p, f, l)
    /\ sock[l].state = "LISTENING"
    /\ sock[l].backlog # <<>>
    /\ CanOpen(p, 1)
    /\ NewFile(p, g, Head(sock[l].backlog))
    /\ UNCHANGED <<sock, misuse, conns, carries, live, incarnation>>

(* unix_socket_accept *)
Accept(p, f, l, g) ==
    /\ Names(p, f, l)
    /\ sock[l].state = "LISTENING"
    /\ sock[l].backlog # <<>>
    /\ CanOpen(p, 1)
    /\ NewFile(p, g, Head(sock[l].backlog))
    /\ sock' = [sock EXCEPT ![l].backlog = Tail(@)]
    /\ UNCHANGED <<misuse, conns, carries, live, incarnation>>

(* Without a free descriptor the socket has left the backlog for nothing. *)
AcceptFails(p, f, l) ==
    /\ Names(p, f, l)
    /\ sock[l].state = "LISTENING"
    /\ sock[l].backlog # <<>>
    /\ ~CanOpen(p, 1)
    /\ sock' = [sock EXCEPT ![l].backlog = Tail(@)]
    /\ misuse' = misuse \union {"backlog"}
    /\ UNCHANGED <<file, has, conns, carries, live, incarnation>>

PairOf(s, t) == [sock EXCEPT ![s] = [Fresh EXCEPT !.state = "CONNECTED", !.peer = t, !.conn = conns + 1],
                             ![t] = [Fresh EXCEPT !.state = "CONNECTED", !.peer = s, !.conn = conns + 1]]

(* unix_socket_pair *)
Pair(p, f, g, s, t) ==
    /\ p \in live
    /\ s \in First(FreeSocks) /\ t \in First(FreeSocks \ {s})
    /\ CanOpen(p, 2)
    /\ f \in First(FreeFiles) /\ g \in First(FreeFiles \ {f})
    /\ conns < MaxConns
    /\ conns' = conns + 1
    /\ sock' = PairOf(s, t)
    /\ file' = [file EXCEPT ![f] = s, ![g] = t]
    /\ has' = [has EXCEPT ![<<p, f>>] = 1, ![<<p, g>>] = 1]
    /\ UNCHANGED <<misuse, carries, live, incarnation>>

(* With one free descriptor both sockets are released, and the descriptor   *)
(* of the first stays open.                                                 *)
PairFails(p, f, s) ==
    /\ p \in live
    /\ Cardinality(FreeSocks) >= 2
    /\ s \in First(FreeSocks)
    /\ CanOpen(p, 1) /\ ~CanOpen(p, 2)
    /\ NewFile(p, f, s)
    /\ misuse' = misuse \union {"pair"}
    /\ UNCHANGED <<sock, conns, carries, live, incarnation>>

-----------------------------------------------------------------------------
(* Bytes and descriptors over a connection *)

Connected(s) == sock[s].state = "CONNECTED" /\ sock[s].peer # None

(* unix_socket_send_stream, one byte. *)
Send(p, f, s) ==
    /\ Names(p, f, s)
    /\ Connected(s)
    /\ Len(sock[sock[s].peer].ring) < RingSize
    /\ sock' = [sock EXCEPT ![sock[s].peer].ring = Append(@, sock[s].conn)]
    /\ UNCHANGED <<file, has, conns, misuse, carries, live, incarnation>>

(* unix_socket_recv_stream, one byte, whatever has become of the peer. *)
Recv(p, f, s) ==
    /\ Names(p, f, s)
    /\ sock[s].ring # <<>>
    /\ sock' = [sock EXCEPT ![s].ring = Tail(@)]
    /\ UNCHANGED <<file, has, conns, misuse, carries, live, incarnation>>

(* unix_socket_sendmsg with SCM_RIGHTS: the number of the file, without a   *)
(* reference to it.  A full queue drops it.                                 *)
SendFile(p, f, s, g) ==
    /\ Names(p, f, s)
    /\ Connected(s)
    /\ has[<<p, g>>] > 0
    /\ Len(sock[sock[s].peer].queue) < MaxQueued
    /\ sock' = [sock EXCEPT ![sock[s].peer].queue = Append(@, g)]
    /\ UNCHANGED <<file, has, conns, misuse, carries, live, incarnation>>

(* unix_socket_recvmsg, one queued number: fd_bind_file_id when the file    *)
(* with that number is open and p has room, otherwise it is lost.           *)
RecvFile(p, f, s) ==
    /\ Names(p, f, s)
    /\ sock[s].queue # <<>>
    /\ LET g == Head(sock[s].queue)
       IN  has' = IF IsOpen(g) /\ OpenFds(p) < NFds THEN [has EXCEPT ![<<p, g>>] = @ + 1] ELSE has
    /\ sock' = [sock EXCEPT ![s].queue = Tail(@)]
    /\ UNCHANGED <<file, conns, misuse, carries, live, incarnation>>

-----------------------------------------------------------------------------
(* Closing *)

(* Mutant of Released: the peer is not told. *)
ReleasedSilently(R) == [s \in Socks |-> IF s \in R THEN Unused ELSE sock[s]]

(* unix_socket_release of the sockets R: the peer loses its peer, a backlog *)
(* is forgotten.  The rest of a slot is reset when it is taken again: only  *)
(* the ring is kept until then, the other fields are reset here.            *)
Released(R) ==
    LET cut == {sock[r].peer : r \in R}
    IN  [s \in Socks |-> IF s \in R THEN [Unused EXCEPT !.ring = sock[s].ring]
                        ELSE IF s \in cut THEN [sock[s] EXCEPT !.peer = None]
                        ELSE sock[s]]

Waiting(R) == \E r \in R : sock[r].inUse /\ sock[r].backlog # <<>>

(* Mutant of CloseTo: any descriptor that goes takes the socket along. *)
CloseToEveryTime(h) ==
    LET gone == {f \in FileIds : IsOpen(f) /\ \A p \in Pids : h[<<p, f>>] = 0}
        R == {file[e[2]] : e \in {e \in Pids \X FileIds : h[e] < has[e]}} \intersect Socks
    IN  /\ has' = h
        /\ file' = [f \in FileIds |-> IF f \in gone THEN None ELSE file[f]]
        /\ sock' = Released(R)
        /\ misuse' = IF Waiting(R) THEN misuse \union {"backlog"} ELSE misuse
        /\ UNCHANGED <<conns, carries>>

(* The descriptor counts become h: files without descriptors go, and with   *)
(* them their sockets.                                                      *)
CloseTo(h) ==
    LET gone == {f \in FileIds : IsOpen(f) /\ \A p \in Pids : h[<<p, f>>] = 0}
        R == {file[f] : f \in gone} \intersect Socks
    IN  /\ has' = h
        /\ file' = [f \in FileIds |-> IF f \in gone THEN None ELSE file[f]]
        /\ sock' = Released(R)
        /\ misuse' = IF Waiting(R) THEN misuse \union {"backlog"} ELSE misuse
        /\ UNCHANGED <<conns, carries>>

Close(p, f) ==
    /\ p \in live
    /\ has[<<p, f>>] > 0
    /\ CloseTo([has EXCEPT ![<<p, f>>] = @ - 1])
    /\ UNCHANGED <<carries, live, incarnation>>

Exit(S) ==
    /\ End(S)
    /\ CloseTo([e \in Pids \X FileIds |-> IF e[1] \in S THEN 0 ELSE has[e]])

Spawn(p) == Begin(p) /\ UNCHANGED <<sock, file, has, conns, misuse, carries>>

(* SYS_EXEC: fd_inherit copies every descriptor. *)
Exec(q, p) ==
    /\ q \in live
    /\ Begin(p)
    /\ has' = [e \in Pids \X FileIds |-> IF e[1] = p THEN has[<<q, e[2]>>] ELSE has[e]]
    /\ UNCHANGED <<sock, file, conns, misuse, carries>>

-----------------------------------------------------------------------------
Making(p) ==
    \E f \in First(FreeFiles), s \in First(FreeSocks) :
        \/ Create(p, f, s)
        \/ PairFails(p, f, s)
        \/ \E g \in FileIds \ {f}, t \in Socks \ {s} : Pair(p, f, g, s, t)

Using(p, f, s) ==
    \/ p \in Servers /\ (Bind(p, f, s) \/ Listen(p, f, s))
    \/ AcceptFails(p, f, s)
    \/ \E l \in First(Listeners), t \in First(FreeSocks) : Connect(p, f, s, l, t)
    \/ \E g \in First(FreeFiles) : Accept(p, f, s, g)
    \/ carries = "bytes" /\ (Send(p, f, s) \/ Recv(p, f, s))
    \/ carries = "files" /\ (RecvFile(p, f, s) \/ \E g \in FileIds : SendFile(p, f, s, g))

Next ==
    \/ \E p \in live : Making(p)
    \/ \E p \in live : \E f \in FileIds : has[<<p, f>>] > 0 /\ (Close(p, f) \/ Using(p, f, file[f]))
    \/ \E p \in Pids : Spawn(p) \/ \E q \in live : Exec(q, p)
    \/ \E S \in SUBSET Pids : Exit(S)

Spec == Init /\ [][Next]_vars

-----------------------------------------------------------------------------
(* Properties *)

InUse == {s \in Socks : sock[s].inUse}
Behind(s) == {f \in FileIds : IsOpen(f) /\ file[f] = s}
BackloggedAt(s) == {l \in InUse : s \in Range(sock[l].backlog)}

(* Connected sockets point at each other, whichever end is closed first and *)
(* whichever slots are reused: no peer is a stranger in a reused slot.      *)
Mutual ==
    misuse \intersect {"reconnect", "pair"} = {} =>
        \A s \in InUse : sock[s].peer # None =>
            /\ sock[sock[s].peer].inUse
            /\ sock[sock[s].peer].peer = s

(* A socket in use is behind one open file, or waits in one backlog: it can *)
(* still be closed, and its slot comes back.                                *)
Reachable ==
    misuse = {} => \A s \in InUse : Cardinality(Behind(s)) + Cardinality(BackloggedAt(s)) = 1

(* An open file never names a socket that was given up, and rings, queues   *)
(* and backlogs stay within their sizes.                                    *)
FilesNameSockets ==
    /\ TypeOK
    /\ misuse \intersect {"reconnect", "pair"} = {} => \A s \in Socks : Behind(s) # {} => s \in InUse

(* A socket only ever holds bytes of its own connection, though slots and   *)
(* rings are used again and bytes outlive the sender.                       *)
OwnBytes ==
    misuse \intersect {"reconnect", "pair"} = {} =>
        \A s \in InUse : \A k \in DOMAIN sock[s].ring : sock[s].ring[k] = sock[s].conn
=============================================================================
