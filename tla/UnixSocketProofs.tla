-------------------------- MODULE UnixSocketProofs --------------------------
(***************************************************************************)
(* Proofs about UnixSocket, for every size of the tables, rings, queues    *)
(* and backlogs.                                                           *)
(***************************************************************************)
EXTENDS UnixSocket, FiniteSetTheorems, SequenceTheorems, TLAPS

(* The sockets have their type and stay within their sizes. *)
Sized(u) ==
    /\ Len(u.ring) <= RingSize
    /\ Len(u.queue) <= MaxQueued
    /\ Len(u.backlog) <= MaxBacklog

Typed(sk) == sk \in [Socks -> SockType] /\ \A s \in Socks : Sized(sk[s])

Rest ==
    /\ LifecycleTypeOK
    /\ file \in [FileIds -> Socks \union {None}]
    /\ has \in [Pids \X FileIds -> 0 .. NFds]
    /\ conns \in 0 .. MaxConns
    /\ misuse \subseteq Misuses
    /\ carries \in Workloads

(* A file is open when a socket is behind it, and closed files have none. *)
Opened(h, fl) == \A f \in FileIds : (\E p \in Pids : h[<<p, f>>] > 0) <=> fl[f] # None

(* A process that is gone has no descriptors. *)
Departed(h, L) == \A p \in Pids \ L : \A f \in FileIds : h[<<p, f>>] = 0

(* A socket behind a file is in use, and behind no other file. *)
FilesOK(sk, fl) ==
    /\ \A f \in FileIds : fl[f] # None => sk[fl[f]].inUse
    /\ \A f, g \in FileIds : fl[f] # None /\ fl[f] = fl[g] => f = g

(* A socket in a backlog is in use, behind no file and in no second place. *)
BacklogsOK(sk, fl) ==
    /\ \A l \in Socks : sk[l].inUse => \A k \in 1 .. Len(sk[l].backlog) :
          /\ sk[sk[l].backlog[k]].inUse
          /\ \A f \in FileIds : fl[f] # sk[l].backlog[k]
    /\ \A l, m \in Socks : sk[l].inUse /\ sk[m].inUse =>
          \A j \in 1 .. Len(sk[l].backlog), k \in 1 .. Len(sk[m].backlog) :
             sk[l].backlog[j] = sk[m].backlog[k] => l = m /\ j = k

(* Peers point at each other and belong to one connection. *)
PeersOK(sk) ==
    \A s \in Socks : sk[s].inUse /\ sk[s].peer # None =>
        /\ sk[sk[s].peer].inUse
        /\ sk[sk[s].peer].peer = s
        /\ sk[sk[s].peer].conn = sk[s].conn

(* A ring holds bytes of the socket's connection, and a socket that never   *)
(* had one has neither peer nor bytes.                                      *)
RingOK(u) ==
    /\ \A k \in 1 .. Len(u.ring) : u.ring[k] = u.conn
    /\ u.conn = 0 => u.peer = None /\ u.ring = <<>>

RingsOK(sk) == \A s \in Socks : sk[s].inUse => RingOK(sk[s])

Linked(sk, fl) == FilesOK(sk, fl) /\ BacklogsOK(sk, fl) /\ PeersOK(sk) /\ RingsOK(sk)

(* A socket in use is behind a file or in the backlog of one in use. *)
Held(sk, fl) ==
    \A s \in Socks : sk[s].inUse =>
        \/ \E f \in FileIds : fl[f] = s
        \/ \E l \in Socks : sk[l].inUse /\ \E k \in 1 .. Len(sk[l].backlog) : sk[l].backlog[k] = s

Clean(M) == M \intersect {"reconnect", "pair"} = {}

IInv ==
    /\ Rest
    /\ Typed(sock)
    /\ Opened(has, file)
    /\ Departed(has, live)
    /\ Clean(misuse) => Linked(sock, file)
    /\ misuse = {} => Held(sock, file)

-----------------------------------------------------------------------------
(* What the steps have in common *)

(* None is no socket, and the bounds are numbers. *)
LEMMA Ranges ==
  /\ None \notin Socks /\ Socks \subseteq Nat /\ FileIds \subseteq Nat /\ Pids \subseteq Nat
  /\ NSocks \in Nat /\ NFiles \in Nat /\ NFds \in Nat /\ NFds >= 1
  /\ RingSize \in Nat /\ MaxQueued \in Nat /\ MaxBacklog \in Nat /\ MaxConns \in Nat
  <1>1. /\ NSocks \in Nat /\ NFiles \in Nat /\ NFds \in Nat /\ NFds >= 1
        /\ RingSize \in Nat /\ MaxQueued \in Nat /\ MaxBacklog \in Nat /\ MaxConns \in Nat
        /\ NProcs \in Nat
    BY UnixAssumption, LifecycleAssumption
  <1>2. Socks \subseteq Nat /\ FileIds \subseteq Nat /\ Pids \subseteq Nat
    BY <1>1 DEF Socks, FileIds, Pids
  <1> QED
    BY <1>1, <1>2 DEF None

(* unix_socket_create resets the slot. *)
LEMMA FreshSocket ==
  /\ Fresh \in SockType /\ Sized(Fresh) /\ Unused \in SockType /\ Sized(Unused)
  /\ Fresh.inUse /\ Fresh.peer = None /\ Fresh.ring = <<>> /\ Fresh.queue = <<>>
  /\ Fresh.backlog = <<>> /\ Fresh.conn = 0 /\ RingOK(Fresh)
  /\ ~Unused.inUse /\ Unused.peer = None /\ Unused.ring = <<>> /\ Unused.queue = <<>>
  /\ Unused.backlog = <<>> /\ Unused.conn = 0
  <1>1. /\ <<>> \in Seq(0 .. MaxConns) /\ <<>> \in Seq(FileIds) /\ <<>> \in Seq(Socks)
        /\ Len(<<>>) = 0 /\ 1 .. Len(<<>>) = {}
    OBVIOUS
  <1>2. 0 \in 0 .. MaxConns /\ 0 <= RingSize /\ 0 <= MaxQueued /\ 0 <= MaxBacklog
    BY Ranges
  <1>3. /\ Fresh.inUse /\ Fresh.peer = None /\ Fresh.ring = <<>> /\ Fresh.queue = <<>>
        /\ Fresh.backlog = <<>> /\ Fresh.conn = 0
        /\ ~Unused.inUse /\ Unused.peer = None /\ Unused.ring = <<>> /\ Unused.queue = <<>>
        /\ Unused.backlog = <<>> /\ Unused.conn = 0
    BY DEF Fresh, Unused
  <1>4. Fresh \in SockType /\ Unused \in SockType
    BY <1>1, <1>2 DEF Fresh, Unused, SockType, States
  <1>5. Sized(Fresh) /\ Sized(Unused) /\ RingOK(Fresh)
    BY <1>1, <1>2, <1>3 DEF Sized, RingOK
  <1> QED
    BY <1>3, <1>4, <1>5

(* The types of a socket's fields. *)
LEMMA SockFields ==
  ASSUME NEW u \in SockType
  PROVE  /\ u.inUse \in BOOLEAN /\ u.peer \in Socks \union {None} /\ u.conn \in 0 .. MaxConns
         /\ u.ring \in Seq(0 .. MaxConns) /\ u.queue \in Seq(FileIds) /\ u.backlog \in Seq(Socks)
  BY DEF SockType

(* A slot that changes keeps the table typed. *)
LEMMA TypedUpdate ==
  ASSUME NEW sk, Typed(sk), NEW s \in Socks, NEW u \in SockType, Sized(u)
  PROVE  Typed([sk EXCEPT ![s] = u])
  BY DEF Typed

(* A step that leaves the links of the socket s alone, and gives it no byte *)
(* of another connection, keeps the structure.                              *)
LEMMA LinkedUpdate ==
  ASSUME NEW sk, Typed(sk), NEW fl \in [FileIds -> Socks \union {None}],
         NEW s \in Socks, NEW u,
         u.inUse = sk[s].inUse, u.peer = sk[s].peer, u.backlog = sk[s].backlog, u.conn = sk[s].conn
  PROVE  /\ Linked(sk, fl) /\ (u.inUse => RingOK(u)) => Linked([sk EXCEPT ![s] = u], fl)
         /\ Held(sk, fl) => Held([sk EXCEPT ![s] = u], fl)
  <1> DEFINE sk2 == [sk EXCEPT ![s] = u]
  <1>1. \A x \in Socks : /\ sk2[x].inUse = sk[x].inUse /\ sk2[x].peer = sk[x].peer
                         /\ sk2[x].backlog = sk[x].backlog /\ sk2[x].conn = sk[x].conn
    BY DEF Typed
  <1>2. \A x \in Socks : sk2[x] = IF x = s THEN u ELSE sk[x]
    BY DEF Typed
  <1>3. /\ \A x \in Socks : sk[x].peer # None => sk[x].peer \in Socks
        /\ \A x \in Socks : \A k \in 1 .. Len(sk[x].backlog) : sk[x].backlog[k] \in Socks
        /\ \A f \in FileIds : fl[f] # None => fl[f] \in Socks
    <2>1. \A x \in Socks : sk[x] \in SockType
      BY DEF Typed
    <2>2. \A x \in Socks : sk[x].backlog \in Seq(Socks) /\ sk[x].peer \in Socks \union {None}
      BY <2>1, SockFields
    <2> QED
      BY <2>2
  <1> HIDE DEF sk2
  <1>4. ASSUME Linked(sk, fl), u.inUse => RingOK(u) PROVE Linked(sk2, fl)
    <2>1. FilesOK(sk2, fl)
      BY <1>1, <1>3, <1>4 DEF Linked, FilesOK
    <2>2. BacklogsOK(sk2, fl)
      <3>0. BacklogsOK(sk, fl)
        BY <1>4 DEF Linked
      <3>1. ASSUME NEW l \in Socks, sk2[l].inUse, NEW k \in 1 .. Len(sk2[l].backlog)
            PROVE  sk2[sk2[l].backlog[k]].inUse /\ \A f \in FileIds : fl[f] # sk2[l].backlog[k]
        <4>1. sk[l].inUse /\ k \in 1 .. Len(sk[l].backlog) /\ sk2[l].backlog[k] = sk[l].backlog[k]
          BY <1>1, <3>1
        <4>2. sk[sk[l].backlog[k]].inUse /\ \A f \in FileIds : fl[f] # sk[l].backlog[k]
          BY <3>0, <4>1 DEF BacklogsOK
        <4> QED
          BY <1>1, <1>3, <4>1, <4>2
      <3>2. ASSUME NEW l \in Socks, NEW m \in Socks, sk2[l].inUse, sk2[m].inUse,
                   NEW j \in 1 .. Len(sk2[l].backlog), NEW k \in 1 .. Len(sk2[m].backlog),
                   sk2[l].backlog[j] = sk2[m].backlog[k]
            PROVE  l = m /\ j = k
        <4>1. /\ sk[l].inUse /\ j \in 1 .. Len(sk[l].backlog) /\ sk2[l].backlog[j] = sk[l].backlog[j]
              /\ sk[m].inUse /\ k \in 1 .. Len(sk[m].backlog) /\ sk2[m].backlog[k] = sk[m].backlog[k]
          BY <1>1, <3>2
        <4>2. sk[l].backlog[j] = sk[m].backlog[k]
          BY <4>1, <3>2
        <4> QED
          BY <3>0, <4>1, <4>2 DEF BacklogsOK
      <3> QED
        BY <3>1, <3>2 DEF BacklogsOK
    <2>3. PeersOK(sk2)
      BY <1>1, <1>3, <1>4 DEF Linked, PeersOK
    <2>4. RingsOK(sk2)
      BY <1>1, <1>2, <1>4 DEF Linked, RingsOK
    <2> QED
      BY <2>1, <2>2, <2>3, <2>4 DEF Linked
  <1>5. ASSUME Held(sk, fl) PROVE Held(sk2, fl)
    BY <1>1, <1>5 DEF Held
  <1> QED
    BY <1>4, <1>5 DEF sk2

(* The properties follow from the invariant. *)
LEMMA Follows == IInv => Mutual /\ Reachable /\ FilesNameSockets /\ OwnBytes
  <1> SUFFICES ASSUME IInv
               PROVE  Mutual /\ Reachable /\ FilesNameSockets /\ OwnBytes
    OBVIOUS
  <1>1. TypeOK
    BY DEF IInv, Rest, Typed, Sized, TypeOK
  <1>2. \A s \in Socks : Behind(s) = {f \in FileIds : file[f] = s}
    BY Ranges DEF IInv, Opened, Behind, IsOpen
  <1>3. Clean(misuse) => Linked(sock, file)
    BY DEF IInv
  <1>4. Mutual
    BY <1>3 DEF Mutual, Clean, Linked, PeersOK, InUse
  <1>5. OwnBytes
    <2>1. \A s \in Socks : DOMAIN sock[s].ring = 1 .. Len(sock[s].ring)
      BY SockFields DEF IInv, Typed
    <2> QED
      BY <1>3, <2>1 DEF OwnBytes, Clean, Linked, RingsOK, RingOK, InUse
  <1>6. Clean(misuse) => \A s \in Socks : Behind(s) # {} => s \in InUse
    <2> SUFFICES ASSUME Clean(misuse), NEW s \in Socks, NEW f \in FileIds, file[f] = s
                 PROVE  s \in InUse
      BY <1>2
    <2>1. file[f] # None
      BY Ranges
    <2> QED
      BY <1>3, <2>1 DEF Linked, FilesOK, InUse
  <1>7. Reachable
    <2> SUFFICES ASSUME misuse = {}, NEW s \in InUse
                 PROVE  Cardinality(Behind(s)) + Cardinality(BackloggedAt(s)) = 1
      BY DEF Reachable
    <2>1. Linked(sock, file) /\ Held(sock, file) /\ s \in Socks /\ sock[s].inUse
      BY <1>3 DEF IInv, Clean, InUse
    <2>2. \A l \in Socks : sock[l].backlog \in Seq(Socks)
      BY SockFields DEF IInv, Typed
    <2>3. \A l \in Socks : s \in Range(sock[l].backlog)
                              <=> \E k \in 1 .. Len(sock[l].backlog) : sock[l].backlog[k] = s
      <3>1. \A l \in Socks : DOMAIN sock[l].backlog = 1 .. Len(sock[l].backlog)
        BY <2>2
      <3> QED
        BY <3>1 DEF Range
    <2>4. CASE \E f \in FileIds : file[f] = s
      <3>1. PICK f \in FileIds : file[f] = s
        BY <2>4
      <3>2. Behind(s) = {f}
        BY <1>2, <2>1, <3>1, Ranges DEF Linked, FilesOK
      <3>3. BackloggedAt(s) = {}
        BY <2>1, <2>3, <3>1 DEF Linked, BacklogsOK, BackloggedAt, InUse
      <3> QED
        <4>1. Cardinality({f}) = 1 /\ Cardinality({}) = 0
          BY FS_Singleton, FS_EmptySet
        <4> QED
          BY <3>2, <3>3, <4>1
    <2>5. CASE ~\E f \in FileIds : file[f] = s
      <3>1. Behind(s) = {}
        BY <1>2, <2>1, <2>5
      <3>2. PICK l \in Socks : sock[l].inUse /\ \E k \in 1 .. Len(sock[l].backlog) : sock[l].backlog[k] = s
        BY <2>1, <2>5 DEF Held
      <3>3. BackloggedAt(s) = {l}
        BY <2>1, <2>3, <3>2 DEF Linked, BacklogsOK, BackloggedAt, InUse
      <3> QED
        <4>1. Cardinality({l}) = 1 /\ Cardinality({}) = 0
          BY FS_Singleton, FS_EmptySet
        <4> QED
          BY <3>1, <3>3, <4>1
    <2> QED
      BY <2>4, <2>5
  <1> QED
    BY <1>1, <1>4, <1>5, <1>6, <1>7 DEF FilesNameSockets, Clean

(* unix_ipc_init *)
LEMMA InitInv == Init => IInv
  <1> SUFFICES ASSUME Init
               PROVE  IInv
    OBVIOUS
  <1>1. /\ LifecycleTypeOK
    BY LifecycleAssumption DEF Init, LifecycleInit, LifecycleTypeOK
  <1>2. Rest
    BY <1>1, Ranges DEF Init, Rest
  <1>3. Typed(sock) /\ \A s \in Socks : sock[s] = Unused
    BY FreshSocket DEF Init, Typed
  <1>4. /\ \A f \in FileIds : file[f] = None
        /\ \A p \in Pids, f \in FileIds : has[<<p, f>>] = 0
    BY DEF Init
  <1>5. Opened(has, file) /\ Departed(has, live)
    <2>1. ~(0 > 0)
      OBVIOUS
    <2>2. \A p \in Pids, f \in FileIds : ~(has[<<p, f>>] > 0)
      BY <1>4, <2>1
    <2> QED
      BY <1>4, <2>2 DEF Opened, Departed
  <1>6. \A s \in Socks : ~sock[s].inUse
    BY <1>3, FreshSocket
  <1>7. Linked(sock, file) /\ Held(sock, file)
    BY <1>4, <1>6 DEF Linked, FilesOK, BacklogsOK, PeersOK, RingsOK, Held
  <1> QED
    BY <1>2, <1>3, <1>5, <1>7 DEF IInv

-----------------------------------------------------------------------------
(* Steps that change one socket and none of its links *)

(* What all of them do. *)
LEMMA SocketStep ==
  ASSUME IInv, NEW s \in Socks, NEW u \in SockType, Sized(u),
         u.inUse = sock[s].inUse, u.peer = sock[s].peer, u.backlog = sock[s].backlog, u.conn = sock[s].conn,
         Clean(misuse) /\ u.inUse => RingOK(u),
         sock' = [sock EXCEPT ![s] = u],
         UNCHANGED <<file, conns, misuse, carries, live, incarnation>>,
         has' \in [Pids \X FileIds -> 0 .. NFds],
         Opened(has', file), Departed(has', live)
  PROVE  IInv'
  <1>1. /\ Rest /\ Typed(sock) /\ file \in [FileIds -> Socks \union {None}]
        /\ Clean(misuse) => Linked(sock, file)
        /\ misuse = {} => Held(sock, file)
    BY DEF IInv, Rest
  <1>2. Rest'
    BY <1>1 DEF Rest, LifecycleTypeOK
  <1>3. Typed(sock')
    BY <1>1, TypedUpdate
  <1>4. /\ Linked(sock, file) /\ (u.inUse => RingOK(u)) => Linked(sock', file)
        /\ Held(sock, file) => Held(sock', file)
    BY <1>1, LinkedUpdate
  <1>5. /\ Clean(misuse) => Linked(sock', file)
        /\ misuse = {} => Held(sock', file)
    BY <1>1, <1>4
  <1> QED
    BY <1>2, <1>3, <1>5 DEF IInv

(* The descriptors are untouched in all of them but the last. *)
LEMMA SameDescriptors ==
  ASSUME IInv, UNCHANGED <<file, has, live>>
  PROVE  /\ has' \in [Pids \X FileIds -> 0 .. NFds]
         /\ Opened(has', file) /\ Departed(has', live)
  <1>1. /\ has \in [Pids \X FileIds -> 0 .. NFds]
        /\ Opened(has, file) /\ Departed(has, live)
    BY DEF IInv, Rest
  <1> QED
    BY <1>1

(* unix_socket_bind and unix_socket_listen *)
LEMMA BindListenInv ==
  ASSUME IInv, NEW p \in Pids, NEW f \in FileIds, NEW s, Bind(p, f, s) \/ Listen(p, f, s)
  PROVE  IInv'
  <1>1. s \in Socks /\ UNCHANGED <<file, has, conns, misuse, carries, live, incarnation>>
    BY DEF Bind, Listen, Names
  <1> DEFINE b == [sock[s] EXCEPT !.bound = TRUE]
             l == [sock[s] EXCEPT !.state = "LISTENING"]
  <1>2. sock \in [Socks -> SockType] /\ sock[s] \in SockType /\ Sized(sock[s])
    BY <1>1 DEF IInv, Typed
  <1>3. sock' = [sock EXCEPT ![s] = b] \/ sock' = [sock EXCEPT ![s] = l]
    BY DEF Bind, Listen
  <1>4. b \in SockType /\ l \in SockType
    BY <1>2 DEF SockType, States
  <1>5. /\ b.inUse = sock[s].inUse /\ b.peer = sock[s].peer /\ b.backlog = sock[s].backlog
        /\ b.conn = sock[s].conn /\ b.ring = sock[s].ring /\ b.queue = sock[s].queue
        /\ l.inUse = sock[s].inUse /\ l.peer = sock[s].peer /\ l.backlog = sock[s].backlog
        /\ l.conn = sock[s].conn /\ l.ring = sock[s].ring /\ l.queue = sock[s].queue
    BY <1>2 DEF SockType
  <1> HIDE DEF b, l
  <1>6. Sized(b) /\ Sized(l)
    BY <1>2, <1>5 DEF Sized
  <1>7. Clean(misuse) /\ sock[s].inUse => RingOK(b) /\ RingOK(l)
    BY <1>1, <1>5 DEF IInv, Linked, RingsOK, RingOK
  <1>8. /\ has' \in [Pids \X FileIds -> 0 .. NFds]
        /\ Opened(has', file) /\ Departed(has', live)
    BY <1>1, SameDescriptors
  <1>9. CASE sock' = [sock EXCEPT ![s] = b]
    BY <1>1, <1>4, <1>5, <1>6, <1>7, <1>8, <1>9, SocketStep
  <1>10. CASE sock' = [sock EXCEPT ![s] = l]
    BY <1>1, <1>4, <1>5, <1>6, <1>7, <1>8, <1>10, SocketStep
  <1> QED
    BY <1>3, <1>9, <1>10

(* unix_socket_send_stream: the peer belongs to the same connection. *)
LEMMA SendInv ==
  ASSUME IInv, NEW p \in Pids, NEW f \in FileIds, NEW s, Send(p, f, s)
  PROVE  IInv'
  <1> DEFINE t == sock[s].peer
             r == sock[t].ring
             c == sock[s].conn
             R == Append(r, c)
             u == [sock[t] EXCEPT !.ring = R]
  <1>1. /\ s \in Socks /\ file[f] = s /\ t # None /\ Len(r) < RingSize
        /\ UNCHANGED <<file, has, conns, misuse, carries, live, incarnation>>
    BY DEF Send, Names, Connected
  <1>2. /\ sock \in [Socks -> SockType] /\ t \in Socks /\ sock[t] \in SockType /\ Sized(sock[t])
        /\ r \in Seq(0 .. MaxConns) /\ c \in 0 .. MaxConns
    <2>1. sock \in [Socks -> SockType] /\ sock[s] \in SockType /\ \A x \in Socks : Sized(sock[x])
      BY <1>1 DEF IInv, Typed
    <2>2. t \in Socks /\ c \in 0 .. MaxConns
      BY <2>1, <1>1, SockFields
    <2>3. sock[t] \in SockType
      BY <2>1, <2>2
    <2> QED
      BY <2>1, <2>2, <2>3, SockFields
  <1>3. sock' = [sock EXCEPT ![t] = u]
    BY DEF Send
  <1> HIDE DEF c, r, t
  <1>4. /\ R \in Seq(0 .. MaxConns) /\ Len(R) = Len(r) + 1 /\ R[Len(r) + 1] = c
        /\ \A k \in 1 .. Len(r) : R[k] = r[k]
    BY <1>2, AppendProperties
  <1>5. Len(r) \in Nat /\ Len(R) <= RingSize
    BY <1>1, <1>2, <1>4, Ranges
  <1> HIDE DEF R
  <1>6. u \in SockType
    BY <1>2, <1>4 DEF SockType
  <1>7. /\ u.inUse = sock[t].inUse /\ u.peer = sock[t].peer /\ u.backlog = sock[t].backlog
        /\ u.conn = sock[t].conn /\ u.ring = R /\ u.queue = sock[t].queue
    BY <1>2 DEF SockType
  <1> HIDE DEF u
  <1>8. Sized(u)
    BY <1>2, <1>5, <1>7 DEF Sized
  <1>9. Clean(misuse) => RingOK(u)
    <2> SUFFICES ASSUME Clean(misuse)
                 PROVE  RingOK(u)
      OBVIOUS
    <2>1. Linked(sock, file)
      BY DEF IInv
    <2>2. sock[s].inUse
      BY <1>1, <2>1, Ranges DEF Linked, FilesOK
    <2>3. sock[t].inUse /\ sock[t].conn = c /\ sock[t].peer = s
      BY <1>1, <2>1, <2>2 DEF Linked, PeersOK, t, c
    <2>4. RingOK(sock[t])
      BY <1>2, <2>1, <2>3 DEF Linked, RingsOK
    <2>5. c # 0
      BY <1>1, <2>3, <2>4, Ranges DEF RingOK
    <2>6. \A k \in 1 .. Len(r) : r[k] = c
      BY <2>3, <2>4 DEF RingOK, r
    <2>7. \A k \in 1 .. Len(R) : k \in 1 .. Len(r) \/ k = Len(r) + 1
      BY <1>4, <1>5
    <2>8. \A k \in 1 .. Len(R) : R[k] = c
      BY <1>4, <2>6, <2>7
    <2> QED
      BY <1>7, <2>3, <2>5, <2>8 DEF RingOK
  <1>10. /\ has' \in [Pids \X FileIds -> 0 .. NFds]
         /\ Opened(has', file) /\ Departed(has', live)
    BY <1>1, SameDescriptors
  <1> QED
    BY <1>1, <1>2, <1>3, <1>6, <1>7, <1>8, <1>9, <1>10, SocketStep

(* unix_socket_recv_stream *)
LEMMA RecvInv ==
  ASSUME IInv, NEW p \in Pids, NEW f \in FileIds, NEW s, Recv(p, f, s)
  PROVE  IInv'
  <1> DEFINE r == sock[s].ring
             R == Tail(r)
             u == [sock[s] EXCEPT !.ring = R]
  <1>1. /\ s \in Socks /\ r # <<>>
        /\ UNCHANGED <<file, has, conns, misuse, carries, live, incarnation>>
    BY DEF Recv, Names
  <1>2. /\ sock \in [Socks -> SockType] /\ sock[s] \in SockType /\ Sized(sock[s])
        /\ r \in Seq(0 .. MaxConns)
    BY <1>1, SockFields DEF IInv, Typed
  <1>3. sock' = [sock EXCEPT ![s] = u]
    BY DEF Recv
  <1>4. Len(r) <= RingSize
    BY <1>2 DEF Sized
  <1> HIDE DEF r
  <1>5. /\ R \in Seq(0 .. MaxConns) /\ Len(R) = Len(r) - 1
        /\ \A k \in 1 .. Len(R) : R[k] = r[k + 1]
    BY <1>1, <1>2, HeadTailProperties
  <1>6. Len(r) \in Nat /\ Len(R) \in Nat /\ Len(R) <= RingSize
    BY <1>2, <1>4, <1>5, Ranges
  <1> HIDE DEF R
  <1>7. u \in SockType
    BY <1>2, <1>5 DEF SockType
  <1>8. /\ u.inUse = sock[s].inUse /\ u.peer = sock[s].peer /\ u.backlog = sock[s].backlog
        /\ u.conn = sock[s].conn /\ u.ring = R /\ u.queue = sock[s].queue
    BY <1>2 DEF SockType
  <1> HIDE DEF u
  <1>9. Sized(u)
    BY <1>2, <1>6, <1>8 DEF Sized
  <1>10. Clean(misuse) /\ sock[s].inUse => RingOK(u)
    <2> SUFFICES ASSUME Clean(misuse), sock[s].inUse
                 PROVE  RingOK(u)
      OBVIOUS
    <2>1. RingOK(sock[s])
      BY <1>1 DEF IInv, Linked, RingsOK
    <2>2. sock[s].conn # 0 /\ \A k \in 1 .. Len(r) : r[k] = sock[s].conn
      BY <1>1, <2>1 DEF RingOK, r
    <2>3. \A k \in 1 .. Len(R) : k + 1 \in 1 .. Len(r)
      BY <1>5, <1>6
    <2>4. \A k \in 1 .. Len(R) : R[k] = sock[s].conn
      BY <1>5, <2>2, <2>3
    <2> QED
      BY <1>8, <2>2, <2>4 DEF RingOK
  <1>11. /\ has' \in [Pids \X FileIds -> 0 .. NFds]
         /\ Opened(has', file) /\ Departed(has', live)
    BY <1>1, SameDescriptors
  <1> QED
    BY <1>1, <1>2, <1>3, <1>7, <1>8, <1>9, <1>10, <1>11, SocketStep

(* A socket whose queue of file numbers changes. *)
LEMMA QueueStep ==
  ASSUME IInv, NEW s \in Socks, NEW Q \in Seq(FileIds), Len(Q) <= MaxQueued,
         sock' = [sock EXCEPT ![s].queue = Q],
         UNCHANGED <<file, conns, misuse, carries, live, incarnation>>,
         has' \in [Pids \X FileIds -> 0 .. NFds],
         Opened(has', file), Departed(has', live)
  PROVE  IInv'
  <1> DEFINE u == [sock[s] EXCEPT !.queue = Q]
  <1>1. sock \in [Socks -> SockType] /\ sock[s] \in SockType /\ Sized(sock[s])
    BY DEF IInv, Typed
  <1>2. sock' = [sock EXCEPT ![s] = u]
    OBVIOUS
  <1>3. u \in SockType
    BY <1>1 DEF SockType
  <1>4. /\ u.inUse = sock[s].inUse /\ u.peer = sock[s].peer /\ u.backlog = sock[s].backlog
        /\ u.conn = sock[s].conn /\ u.ring = sock[s].ring /\ u.queue = Q
    BY <1>1 DEF SockType
  <1> HIDE DEF u
  <1>5. Sized(u)
    BY <1>1, <1>4 DEF Sized
  <1>6. Clean(misuse) /\ sock[s].inUse => RingOK(u)
    BY <1>4 DEF IInv, Linked, RingsOK, RingOK
  <1> QED
    BY <1>2, <1>3, <1>4, <1>5, <1>6, SocketStep

(* unix_socket_sendmsg with SCM_RIGHTS *)
LEMMA SendFileInv ==
  ASSUME IInv, NEW p \in Pids, NEW f \in FileIds, NEW s, NEW g \in FileIds, SendFile(p, f, s, g)
  PROVE  IInv'
  <1> DEFINE t == sock[s].peer
             q == sock[t].queue
             Q == Append(q, g)
  <1>1. /\ s \in Socks /\ t # None /\ Len(q) < MaxQueued
        /\ UNCHANGED <<file, has, conns, misuse, carries, live, incarnation>>
        /\ sock' = [sock EXCEPT ![t].queue = Q]
    BY DEF SendFile, Names, Connected
  <1>2. t \in Socks /\ q \in Seq(FileIds)
    <2>1. sock \in [Socks -> SockType] /\ sock[s] \in SockType
      BY <1>1 DEF IInv, Typed
    <2>2. t \in Socks
      BY <2>1, <1>1, SockFields
    <2>3. sock[t] \in SockType
      BY <2>1, <2>2
    <2> QED
      BY <2>2, <2>3, SockFields
  <1> HIDE DEF t, q
  <1>3. Q \in Seq(FileIds) /\ Len(Q) = Len(q) + 1 /\ Len(q) \in Nat
    BY <1>2, AppendProperties
  <1>4. Len(Q) <= MaxQueued
    BY <1>1, <1>3, Ranges
  <1>5. /\ has' \in [Pids \X FileIds -> 0 .. NFds]
        /\ Opened(has', file) /\ Departed(has', live)
    BY <1>1, SameDescriptors
  <1> HIDE DEF Q
  <1> QED
    BY <1>1, <1>2, <1>3, <1>4, <1>5, QueueStep

(* fd_bind_file_id asks for a free descriptor, so one more of a file fits.  *)
LEMMA RoomForOne ==
  ASSUME IInv, NEW p \in Pids, NEW g \in FileIds, OpenFds(p) < NFds
  PROVE  has[<<p, g>>] + 1 \in 0 .. NFds
  <1> DEFINE n == has[<<p, g>>]
             A == {e \in FileIds \X (1 .. NFds) : e[2] <= has[<<p, e[1]>>]}
             B == {g} \X (1 .. n)
             h == [k \in 1 .. n |-> <<g, k>>]
  <1>1. n \in 0 .. NFds
    BY DEF IInv, Rest
  <1>2. n \in Nat /\ n <= NFds
    BY <1>1, Ranges
  <1>3. IsFiniteSet(A)
    <2>1. IsFiniteSet(0 .. NFiles - 1) /\ IsFiniteSet(1 .. NFds)
      BY FS_Interval, Ranges
    <2>2. IsFiniteSet(FileIds \X (1 .. NFds))
      BY <2>1, FS_Product DEF FileIds
    <2>3. A \in SUBSET (FileIds \X (1 .. NFds))
      OBVIOUS
    <2> HIDE DEF A
    <2> QED
      BY <2>2, <2>3, FS_Subset
  <1>4. h \in [1 .. n -> A]
    <2> SUFFICES ASSUME NEW k \in 1 .. n
                 PROVE  <<g, k>> \in A
      OBVIOUS
    <2>1. k \in 1 .. NFds /\ k <= has[<<p, g>>]
      BY <1>2, Ranges
    <2> QED
      BY <2>1
  <1>5. \A j, k \in 1 .. n : h[j] = h[k] => j = k
    OBVIOUS
  <1>6. Cardinality(1 .. n) = n
    BY <1>2, FS_Interval
  <1>7. OpenFds(p) = Cardinality(A)
    BY DEF OpenFds
  <1> HIDE DEF A, h, n
  <1>8. h \in Injection(1 .. n, A)
    BY <1>4, <1>5 DEF Injection, IsInjective
  <1>9. Cardinality(1 .. n) <= Cardinality(A) /\ Cardinality(A) \in Nat
    BY <1>3, <1>8, FS_Injection, FS_CardinalityType
  <1>10. n + 1 \in 0 .. NFds
    BY <1>2, <1>6, <1>7, <1>9, Ranges
  <1> QED
    BY <1>10 DEF n

(* unix_socket_recvmsg: a number is bound only while its file is open. *)
LEMMA RecvFileInv ==
  ASSUME IInv, NEW p \in Pids, NEW f \in FileIds, NEW s, RecvFile(p, f, s)
  PROVE  IInv'
  <1> DEFINE q == sock[s].queue
             Q == Tail(q)
             g == Head(q)
             n == has[<<p, g>>] + 1
  <1>1. /\ s \in Socks /\ p \in live /\ q # <<>>
        /\ UNCHANGED <<file, conns, misuse, carries, live, incarnation>>
        /\ sock' = [sock EXCEPT ![s].queue = Q]
        /\ has' = IF IsOpen(g) /\ OpenFds(p) < NFds THEN [has EXCEPT ![<<p, g>>] = n] ELSE has
    BY DEF RecvFile, Names
  <1>2. sock[s] \in SockType /\ Sized(sock[s]) /\ q \in Seq(FileIds) /\ Len(q) <= MaxQueued
    BY <1>1, SockFields DEF IInv, Typed, Sized
  <1>3. has \in [Pids \X FileIds -> 0 .. NFds] /\ Opened(has, file) /\ Departed(has, live)
    BY DEF IInv, Rest
  <1> HIDE DEF q
  <1>4. Q \in Seq(FileIds) /\ Len(Q) = Len(q) - 1 /\ Len(q) \in Nat /\ g \in FileIds
    BY <1>1, <1>2, HeadTailProperties
  <1>5. Len(Q) <= MaxQueued
    BY <1>2, <1>4, Ranges
  <1> HIDE DEF Q, g
  <1>6. /\ has' \in [Pids \X FileIds -> 0 .. NFds]
        /\ Opened(has', file) /\ Departed(has', live)
    <2>1. CASE ~(IsOpen(g) /\ OpenFds(p) < NFds)
      BY <1>1, <1>3, <2>1
    <2>2. CASE IsOpen(g) /\ OpenFds(p) < NFds
      <3>1. n \in 0 .. NFds /\ n > 0 /\ n \in Nat
        <4>1. n \in 0 .. NFds
          BY <1>4, <2>2, RoomForOne
        <4>2. has[<<p, g>>] \in 0 .. NFds
          BY <1>3, <1>4
        <4> QED
          BY <4>1, <4>2, Ranges
      <3> HIDE DEF n
      <3>2. has' = [has EXCEPT ![<<p, g>>] = n]
        BY <1>1, <2>2
      <3>3. /\ has' \in [Pids \X FileIds -> 0 .. NFds]
            /\ has'[<<p, g>>] = n
            /\ \A x \in Pids, y \in FileIds : <<x, y>> # <<p, g>> => has'[<<x, y>>] = has[<<x, y>>]
        BY <1>3, <1>4, <3>1, <3>2
      <3>4. file[g] # None
        BY <1>3, <1>4, <2>2 DEF Opened, IsOpen
      <3>5. Opened(has', file)
        <4> SUFFICES ASSUME NEW y \in FileIds
                     PROVE  (\E x \in Pids : has'[<<x, y>>] > 0) <=> file[y] # None
          BY DEF Opened
        <4>1. CASE y = g
          BY <3>1, <3>3, <3>4, <4>1
        <4>2. CASE y # g
          <5>1. \A x \in Pids : has'[<<x, y>>] = has[<<x, y>>]
            BY <3>3, <4>2
          <5> QED
            BY <1>3, <5>1 DEF Opened
        <4> QED
          BY <4>1, <4>2
      <3>6. Departed(has', live)
        BY <1>1, <1>3, <3>3 DEF Departed
      <3> QED
        BY <3>3, <3>5, <3>6
    <2> QED
      BY <2>1, <2>2
  <1> QED
    BY <1>1, <1>4, <1>5, <1>6, QueueStep

-----------------------------------------------------------------------------
(* What happens to the links when sockets are made and taken away *)

(* What a table of sockets refers to is in the table. *)
LEMMA Targets ==
  ASSUME NEW sk, Typed(sk)
  PROVE  \A x \in Socks :
            /\ sk[x].inUse \in BOOLEAN
            /\ sk[x].peer # None => sk[x].peer \in Socks
            /\ sk[x].backlog \in Seq(Socks)
            /\ \A k \in 1 .. Len(sk[x].backlog) : sk[x].backlog[k] \in Socks
  <1>1. \A x \in Socks : sk[x] \in SockType
    BY DEF Typed
  <1>2. \A x \in Socks : /\ sk[x].inUse \in BOOLEAN /\ sk[x].backlog \in Seq(Socks)
                         /\ sk[x].peer \in Socks \union {None}
    BY <1>1, SockFields
  <1> QED
    BY <1>2

(* Nothing refers to a socket that is not in use: its slot can be taken. *)
LEMMA UnusedApart ==
  ASSUME NEW sk, Typed(sk), NEW fl \in [FileIds -> Socks \union {None}], Linked(sk, fl),
         NEW s \in Socks, ~sk[s].inUse
  PROVE  /\ \A f \in FileIds : fl[f] # s
         /\ \A l \in Socks : sk[l].inUse => \A k \in 1 .. Len(sk[l].backlog) : sk[l].backlog[k] # s
         /\ \A x \in Socks : sk[x].inUse => sk[x].peer # s
  <1>1. s # None
    BY Ranges
  <1>2. \A f \in FileIds : fl[f] # s
    BY <1>1 DEF Linked, FilesOK
  <1>3. \A l \in Socks : sk[l].inUse => \A k \in 1 .. Len(sk[l].backlog) : sk[l].backlog[k] # s
    BY DEF Linked, BacklogsOK
  <1>4. \A x \in Socks : sk[x].inUse => sk[x].peer # s
    BY <1>1 DEF Linked, PeersOK
  <1> QED
    BY <1>2, <1>3, <1>4

(* A new socket without a peer comes behind a new file. *)
LEMMA CreateLinks ==
  ASSUME NEW sk, Typed(sk), NEW fl \in [FileIds -> Socks \union {None}],
         NEW s \in Socks, ~sk[s].inUse, NEW f \in FileIds, fl[f] = None
  PROVE  /\ Linked(sk, fl) => Linked([sk EXCEPT ![s] = Fresh], [fl EXCEPT ![f] = s])
         /\ Held(sk, fl) => Held([sk EXCEPT ![s] = Fresh], [fl EXCEPT ![f] = s])
  <1> DEFINE sk2 == [sk EXCEPT ![s] = Fresh]
             fl2 == [fl EXCEPT ![f] = s]
  <1>1. /\ \A x \in Socks : sk2[x] = IF x = s THEN Fresh ELSE sk[x]
        /\ \A g \in FileIds : fl2[g] = IF g = f THEN s ELSE fl[g]
    BY DEF Typed
  <1>2. \A g \in FileIds : fl[g] # None => fl[g] \in Socks
    OBVIOUS
  <1>3. s # None /\ 1 .. Len(Fresh.backlog) = {}
    BY Ranges, FreshSocket
  <1> HIDE DEF sk2, fl2
  <1>4. ASSUME Linked(sk, fl) PROVE Linked(sk2, fl2)
    <2>0. /\ \A g \in FileIds : fl[g] # s
          /\ \A l \in Socks : sk[l].inUse => \A k \in 1 .. Len(sk[l].backlog) : sk[l].backlog[k] # s
          /\ \A x \in Socks : sk[x].inUse => sk[x].peer # s
      BY <1>4, UnusedApart
    <2>1. FilesOK(sk2, fl2)
      <3>1. FilesOK(sk, fl)
        BY <1>4 DEF Linked
      <3>2. \A g \in FileIds : fl2[g] # None => sk2[fl2[g]].inUse
        BY <1>1, <1>2, <1>3, <2>0, <3>1, FreshSocket DEF FilesOK
      <3>3. \A g, h \in FileIds : fl2[g] # None /\ fl2[g] = fl2[h] => g = h
        BY <1>1, <2>0, <3>1 DEF FilesOK
      <3> QED
        BY <3>2, <3>3 DEF FilesOK
    <2>2. BacklogsOK(sk2, fl2)
      <3>1. BacklogsOK(sk, fl)
        BY <1>4 DEF Linked
      <3>2. ASSUME NEW l \in Socks, sk2[l].inUse, NEW k \in 1 .. Len(sk2[l].backlog)
            PROVE  l # s /\ sk2[l] = sk[l] /\ sk[l].inUse /\ k \in 1 .. Len(sk[l].backlog)
        BY <1>1, <1>3, <3>2
      <3>3. ASSUME NEW l \in Socks, sk2[l].inUse, NEW k \in 1 .. Len(sk2[l].backlog)
            PROVE  sk2[sk2[l].backlog[k]].inUse /\ \A g \in FileIds : fl2[g] # sk2[l].backlog[k]
        <4>1. sk2[l] = sk[l] /\ sk[l].inUse /\ k \in 1 .. Len(sk[l].backlog)
          BY <3>2, <3>3
        <4> DEFINE b == sk[l].backlog[k]
        <4>2. b \in Socks /\ b # s /\ sk[b].inUse /\ \A g \in FileIds : fl[g] # b
          BY <4>1, <2>0, <3>1, Targets DEF BacklogsOK
        <4> QED
          BY <1>1, <4>1, <4>2
      <3>4. ASSUME NEW l \in Socks, NEW m \in Socks, sk2[l].inUse, sk2[m].inUse,
                   NEW j \in 1 .. Len(sk2[l].backlog), NEW k \in 1 .. Len(sk2[m].backlog),
                   sk2[l].backlog[j] = sk2[m].backlog[k]
            PROVE  l = m /\ j = k
        <4>1. /\ sk2[l] = sk[l] /\ sk[l].inUse /\ j \in 1 .. Len(sk[l].backlog)
              /\ sk2[m] = sk[m] /\ sk[m].inUse /\ k \in 1 .. Len(sk[m].backlog)
          BY <3>2, <3>4
        <4>2. sk[l].backlog[j] = sk[m].backlog[k]
          BY <4>1, <3>4
        <4> QED
          BY <3>1, <4>1, <4>2 DEF BacklogsOK
      <3> QED
        BY <3>3, <3>4 DEF BacklogsOK
    <2>3. PeersOK(sk2)
      <3>1. PeersOK(sk)
        BY <1>4 DEF Linked
      <3> SUFFICES ASSUME NEW x \in Socks, sk2[x].inUse, sk2[x].peer # None
                   PROVE  /\ sk2[sk2[x].peer].inUse
                          /\ sk2[sk2[x].peer].peer = x
                          /\ sk2[sk2[x].peer].conn = sk2[x].conn
        BY DEF PeersOK
      <3>2. x # s /\ sk2[x] = sk[x]
        BY <1>1, FreshSocket
      <3>3. sk[x].peer \in Socks /\ sk[x].peer # s
        BY <3>2, <2>0, Targets
      <3> QED
        BY <1>1, <3>1, <3>2, <3>3 DEF PeersOK
    <2>4. RingsOK(sk2)
      BY <1>1, <1>4, FreshSocket DEF Linked, RingsOK
    <2> QED
      BY <2>1, <2>2, <2>3, <2>4 DEF Linked
  <1>5. ASSUME Held(sk, fl) PROVE Held(sk2, fl2)
    <2> SUFFICES ASSUME NEW x \in Socks, sk2[x].inUse
                 PROVE  \/ \E g \in FileIds : fl2[g] = x
                        \/ \E l \in Socks : sk2[l].inUse /\ \E k \in 1 .. Len(sk2[l].backlog) : sk2[l].backlog[k] = x
      BY DEF Held
    <2>1. CASE x = s
      BY <1>1, <2>1
    <2>2. CASE x # s
      <3>1. sk[x].inUse
        BY <1>1, <2>2
      <3>2. CASE \E g \in FileIds : fl[g] = x
        <4>1. PICK g \in FileIds : fl[g] = x
          BY <3>2
        <4>2. g # f
          BY <4>1, Ranges
        <4> QED
          BY <1>1, <4>1, <4>2
      <3>3. CASE \E l \in Socks : sk[l].inUse /\ \E k \in 1 .. Len(sk[l].backlog) : sk[l].backlog[k] = x
        <4>1. PICK l \in Socks : sk[l].inUse /\ \E k \in 1 .. Len(sk[l].backlog) : sk[l].backlog[k] = x
          BY <3>3
        <4>2. sk2[l] = sk[l]
          BY <1>1, <4>1
        <4> QED
          BY <4>1, <4>2
      <3> QED
        BY <1>5, <3>1, <3>2, <3>3 DEF Held
    <2> QED
      BY <2>1, <2>2
  <1> QED
    BY <1>4, <1>5 DEF sk2, fl2

(* fd_create_custom: a closed file is opened, for a process that exists. *)
LEMMA NewFileStep ==
  ASSUME IInv, NEW p \in live, NEW f, NEW c \in Socks, NewFile(p, f, c)
  PROVE  /\ f \in FileIds /\ file[f] = None /\ file' = [file EXCEPT ![f] = c]
         /\ file' \in [FileIds -> Socks \union {None}]
         /\ has' \in [Pids \X FileIds -> 0 .. NFds]
         /\ Opened(has', file') /\ Departed(has', live)
  <1>1. /\ file \in [FileIds -> Socks \union {None}] /\ has \in [Pids \X FileIds -> 0 .. NFds]
        /\ Opened(has, file) /\ Departed(has, live) /\ p \in Pids
    BY DEF IInv, Rest, LifecycleTypeOK
  <1>2. f \in FileIds /\ ~IsOpen(f) /\ file' = [file EXCEPT ![f] = c] /\ has' = [has EXCEPT ![<<p, f>>] = 1]
    BY DEF NewFile, First, FreeFiles
  <1>3. file[f] = None
    BY <1>1, <1>2 DEF Opened, IsOpen
  <1>4. file' \in [FileIds -> Socks \union {None}]
    BY <1>1, <1>2
  <1>5. 1 \in 0 .. NFds /\ 1 > 0 /\ c # None
    BY Ranges
  <1>6. /\ has' \in [Pids \X FileIds -> 0 .. NFds] /\ has'[<<p, f>>] = 1
        /\ \A x \in Pids, y \in FileIds : <<x, y>> # <<p, f>> => has'[<<x, y>>] = has[<<x, y>>]
    BY <1>1, <1>2, <1>5
  <1>7. Opened(has', file')
    <2> SUFFICES ASSUME NEW y \in FileIds
                 PROVE  (\E x \in Pids : has'[<<x, y>>] > 0) <=> file'[y] # None
      BY DEF Opened
    <2>1. CASE y = f
      BY <1>1, <1>2, <1>5, <1>6, <2>1
    <2>2. CASE y # f
      <3>1. (\A x \in Pids : has'[<<x, y>>] = has[<<x, y>>]) /\ file'[y] = file[y]
        BY <1>1, <1>2, <1>6, <2>2
      <3> QED
        BY <1>1, <3>1 DEF Opened
    <2> QED
      BY <2>1, <2>2
  <1>8. Departed(has', live)
    BY <1>1, <1>6 DEF Departed
  <1> QED
    BY <1>2, <1>3, <1>4, <1>6, <1>7, <1>8

(* unix_socket_create *)
LEMMA CreateInv ==
  ASSUME IInv, NEW p \in live, NEW f, NEW s, Create(p, f, s)
  PROVE  IInv'
  <1>1. /\ s \in Socks /\ ~sock[s].inUse /\ NewFile(p, f, s) /\ sock' = [sock EXCEPT ![s] = Fresh]
        /\ UNCHANGED <<conns, misuse, carries, live, incarnation>>
    BY DEF Create, First, FreeSocks
  <1>2. /\ Rest /\ Typed(sock) /\ file \in [FileIds -> Socks \union {None}]
        /\ Clean(misuse) => Linked(sock, file)
        /\ misuse = {} => Held(sock, file)
    BY DEF IInv, Rest
  <1>3. /\ f \in FileIds /\ file[f] = None /\ file' = [file EXCEPT ![f] = s]
        /\ file' \in [FileIds -> Socks \union {None}]
        /\ has' \in [Pids \X FileIds -> 0 .. NFds]
        /\ Opened(has', file') /\ Departed(has', live)
    BY <1>1, NewFileStep
  <1>4. Typed(sock')
    BY <1>1, <1>2, TypedUpdate, FreshSocket
  <1>5. /\ Linked(sock, file) => Linked(sock', file')
        /\ Held(sock, file) => Held(sock', file')
    BY <1>1, <1>2, <1>3, CreateLinks
  <1>6. Rest'
    BY <1>1, <1>2, <1>3 DEF Rest, LifecycleTypeOK
  <1> QED
    BY <1>1, <1>2, <1>3, <1>4, <1>5, <1>6 DEF IInv

(* unix_socket_pair with one free descriptor: from then on nothing is       *)
(* claimed of the links.                                                    *)
LEMMA PairFailsInv ==
  ASSUME IInv, NEW p \in live, NEW f, NEW s, PairFails(p, f, s)
  PROVE  IInv'
  <1>1. /\ s \in Socks /\ NewFile(p, f, s) /\ misuse' = misuse \union {"pair"}
        /\ UNCHANGED <<sock, conns, carries, live, incarnation>>
    BY DEF PairFails, First, FreeSocks
  <1>2. Rest /\ Typed(sock)
    BY DEF IInv
  <1>3. /\ file' \in [FileIds -> Socks \union {None}]
        /\ has' \in [Pids \X FileIds -> 0 .. NFds]
        /\ Opened(has', file') /\ Departed(has', live)
    BY <1>1, NewFileStep
  <1>4. ~Clean(misuse') /\ misuse' # {} /\ misuse' \subseteq Misuses
    BY <1>1, <1>2 DEF Clean, Rest, Misuses
  <1>5. Rest'
    BY <1>1, <1>2, <1>3, <1>4 DEF Rest, LifecycleTypeOK
  <1> QED
    BY <1>1, <1>2, <1>3, <1>4, <1>5 DEF IInv

(* Two sockets that never had a connection become peers. *)
LEMMA JoinLinks ==
  ASSUME NEW sk, NEW sk2, Typed(sk), Typed(sk2), NEW fl \in [FileIds -> Socks \union {None}],
         NEW c \in Socks, NEW s \in Socks, NEW n, c # s, n # 0,
         sk[c].inUse, sk[s].inUse, sk[c].conn = 0, sk[s].conn = 0,
         \A x \in Socks : /\ sk2[x].inUse = sk[x].inUse
                          /\ sk2[x].backlog = sk[x].backlog
                          /\ sk2[x].ring = sk[x].ring,
         \A x \in Socks \ {c, s} : sk2[x].peer = sk[x].peer /\ sk2[x].conn = sk[x].conn,
         sk2[c].peer = s, sk2[c].conn = n, sk2[s].peer = c, sk2[s].conn = n
  PROVE  /\ Linked(sk, fl) => Linked(sk2, fl)
         /\ Held(sk, fl) => Held(sk2, fl)
  <1>1. ASSUME Linked(sk, fl) PROVE Linked(sk2, fl)
    <2>0. /\ RingOK(sk[c]) /\ RingOK(sk[s])
          /\ FilesOK(sk, fl) /\ BacklogsOK(sk, fl) /\ PeersOK(sk) /\ RingsOK(sk)
      BY <1>1 DEF Linked, RingsOK
    <2>1. FilesOK(sk2, fl)
      <3>1. \A f \in FileIds : fl[f] # None => fl[f] \in Socks
        OBVIOUS
      <3> QED
        BY <2>0, <3>1 DEF FilesOK
    <2>2. BacklogsOK(sk2, fl)
      <3>1. ASSUME NEW l \in Socks, sk2[l].inUse, NEW k \in 1 .. Len(sk2[l].backlog)
            PROVE  sk2[sk2[l].backlog[k]].inUse /\ \A f \in FileIds : fl[f] # sk2[l].backlog[k]
        <4>1. sk[l].inUse /\ k \in 1 .. Len(sk[l].backlog) /\ sk2[l].backlog[k] = sk[l].backlog[k]
          BY <3>1
        <4>2. /\ sk[l].backlog[k] \in Socks /\ sk[sk[l].backlog[k]].inUse
              /\ \A f \in FileIds : fl[f] # sk[l].backlog[k]
          BY <2>0, <4>1, Targets DEF BacklogsOK
        <4> QED
          BY <4>1, <4>2
      <3>2. ASSUME NEW l \in Socks, NEW m \in Socks, sk2[l].inUse, sk2[m].inUse,
                   NEW j \in 1 .. Len(sk2[l].backlog), NEW k \in 1 .. Len(sk2[m].backlog),
                   sk2[l].backlog[j] = sk2[m].backlog[k]
            PROVE  l = m /\ j = k
        <4>1. /\ sk[l].inUse /\ j \in 1 .. Len(sk[l].backlog) /\ sk2[l].backlog[j] = sk[l].backlog[j]
              /\ sk[m].inUse /\ k \in 1 .. Len(sk[m].backlog) /\ sk2[m].backlog[k] = sk[m].backlog[k]
          BY <3>2
        <4>2. sk[l].backlog[j] = sk[m].backlog[k]
          BY <4>1, <3>2
        <4> QED
          BY <2>0, <4>1, <4>2 DEF BacklogsOK
      <3> QED
        BY <3>1, <3>2 DEF BacklogsOK
    <2>3. PeersOK(sk2)
      <3> SUFFICES ASSUME NEW x \in Socks, sk2[x].inUse, sk2[x].peer # None
                   PROVE  /\ sk2[sk2[x].peer].inUse
                          /\ sk2[sk2[x].peer].peer = x
                          /\ sk2[sk2[x].peer].conn = sk2[x].conn
        BY DEF PeersOK
      <3>1. CASE x \in {c, s}
        BY <3>1
      <3>2. CASE x \notin {c, s}
        <4> DEFINE y == sk[x].peer
        <4>1. sk2[x].peer = y /\ y # None /\ y \in Socks /\ sk[x].inUse
          BY <3>2, Targets
        <4>2. sk[y].inUse /\ sk[y].peer = x /\ sk[y].conn = sk[x].conn
          BY <2>0, <4>1 DEF PeersOK
        <4>3. sk[c].peer = None /\ sk[s].peer = None
          BY <2>0 DEF RingOK
        <4>4. y \notin {c, s}
          BY <4>2, <4>3, Ranges
        <4> QED
          BY <3>2, <4>1, <4>2, <4>4
      <3> QED
        BY <3>1, <3>2
    <2>4. RingsOK(sk2)
      <3> SUFFICES ASSUME NEW x \in Socks, sk2[x].inUse
                   PROVE  RingOK(sk2[x])
        BY DEF RingsOK
      <3>1. CASE x \in {c, s}
        <4>1. sk2[x].ring = <<>> /\ sk2[x].conn = n
          BY <2>0, <3>1 DEF RingOK
        <4>2. 1 .. Len(<<>>) = {}
          OBVIOUS
        <4> QED
          BY <4>1, <4>2 DEF RingOK
      <3>2. CASE x \notin {c, s}
        BY <2>0, <3>2 DEF RingsOK, RingOK
      <3> QED
        BY <3>1, <3>2
    <2> QED
      BY <2>1, <2>2, <2>3, <2>4 DEF Linked
  <1>2. ASSUME Held(sk, fl) PROVE Held(sk2, fl)
    BY <1>2 DEF Held
  <1> QED
    BY <1>1, <1>2

(* A new socket without a peer comes into the backlog of l. *)
LEMMA BacklogLinks ==
  ASSUME NEW sk, NEW sk2, Typed(sk), Typed(sk2), NEW fl \in [FileIds -> Socks \union {None}],
         NEW l \in Socks, NEW s \in Socks, sk[l].inUse, ~sk[s].inUse,
         sk2[s] = Fresh,
         \A x \in Socks \ {s, l} : sk2[x] = sk[x],
         sk2[l].inUse, sk2[l].peer = sk[l].peer, sk2[l].conn = sk[l].conn, sk2[l].ring = sk[l].ring,
         sk2[l].backlog = Append(sk[l].backlog, s)
  PROVE  /\ Linked(sk, fl) => Linked(sk2, fl)
         /\ Held(sk, fl) => Held(sk2, fl)
  <1> DEFINE b == sk[l].backlog
             B == sk2[l].backlog
  <1>1. l # s /\ b \in Seq(Socks) /\ Len(b) \in Nat
    BY Targets
  <1>2. Len(B) = Len(b) + 1 /\ B[Len(b) + 1] = s /\ \A k \in 1 .. Len(b) : B[k] = b[k]
    BY <1>1, AppendProperties
  <1> HIDE DEF b, B
  <1>3. \A k \in 1 .. Len(B) : k = Len(b) + 1 \/ k \in 1 .. Len(b)
    BY <1>1, <1>2
  <1>4. 1 .. Len(Fresh.backlog) = {}
    BY FreshSocket
  <1>5. ASSUME NEW m \in Socks, sk2[m].inUse, NEW k \in 1 .. Len(sk2[m].backlog)
        PROVE  \/ m = l /\ k = Len(b) + 1 /\ sk2[m].backlog[k] = s
               \/ sk[m].inUse /\ k \in 1 .. Len(sk[m].backlog) /\ sk2[m].backlog[k] = sk[m].backlog[k]
    <2>1. m # s
      BY <1>4, <1>5
    <2>2. CASE m = l
      BY <1>2, <1>3, <1>5, <2>2 DEF b, B
    <2>3. CASE m # l
      BY <1>5, <2>1, <2>3
    <2> QED
      BY <2>2, <2>3
  <1>6. ASSUME Linked(sk, fl) PROVE Linked(sk2, fl)
    <2>0. /\ \A g \in FileIds : fl[g] # s
          /\ \A x \in Socks : sk[x].inUse => \A k \in 1 .. Len(sk[x].backlog) : sk[x].backlog[k] # s
          /\ \A x \in Socks : sk[x].inUse => sk[x].peer # s
          /\ FilesOK(sk, fl) /\ BacklogsOK(sk, fl) /\ PeersOK(sk) /\ RingsOK(sk)
      BY <1>6, UnusedApart DEF Linked
    <2>1. \A x \in Socks : sk[x].inUse => sk2[x].inUse
      OBVIOUS
    <2>2. FilesOK(sk2, fl)
      <3>1. \A f \in FileIds : fl[f] # None => fl[f] \in Socks
        OBVIOUS
      <3> QED
        BY <2>0, <2>1, <3>1 DEF FilesOK
    <2>3. BacklogsOK(sk2, fl)
      <3>1. ASSUME NEW m \in Socks, sk2[m].inUse, NEW k \in 1 .. Len(sk2[m].backlog)
            PROVE  sk2[sk2[m].backlog[k]].inUse /\ \A f \in FileIds : fl[f] # sk2[m].backlog[k]
        <4>1. CASE sk2[m].backlog[k] = s
          BY <2>0, <4>1, FreshSocket
        <4>2. CASE sk[m].inUse /\ k \in 1 .. Len(sk[m].backlog) /\ sk2[m].backlog[k] = sk[m].backlog[k]
          <5>1. /\ sk[m].backlog[k] \in Socks /\ sk[sk[m].backlog[k]].inUse
                /\ \A f \in FileIds : fl[f] # sk[m].backlog[k]
            BY <2>0, <4>2, Targets DEF BacklogsOK
          <5> QED
            BY <2>1, <4>2, <5>1
        <4> QED
          BY <1>5, <3>1, <4>1, <4>2
      <3>2. ASSUME NEW m \in Socks, NEW o \in Socks, sk2[m].inUse, sk2[o].inUse,
                   NEW j \in 1 .. Len(sk2[m].backlog), NEW k \in 1 .. Len(sk2[o].backlog),
                   sk2[m].backlog[j] = sk2[o].backlog[k]
            PROVE  m = o /\ j = k
        <4>1. \/ m = l /\ j = Len(b) + 1 /\ sk2[m].backlog[j] = s
              \/ sk[m].inUse /\ j \in 1 .. Len(sk[m].backlog) /\ sk2[m].backlog[j] = sk[m].backlog[j]
          BY <1>5, <3>2
        <4>2. \/ o = l /\ k = Len(b) + 1 /\ sk2[o].backlog[k] = s
              \/ sk[o].inUse /\ k \in 1 .. Len(sk[o].backlog) /\ sk2[o].backlog[k] = sk[o].backlog[k]
          BY <1>5, <3>2
        <4>3. CASE sk2[m].backlog[j] = s
          BY <2>0, <3>2, <4>1, <4>2, <4>3
        <4>4. CASE sk2[m].backlog[j] # s
          <5>1. /\ sk[m].inUse /\ j \in 1 .. Len(sk[m].backlog)
                /\ sk[o].inUse /\ k \in 1 .. Len(sk[o].backlog)
                /\ sk[m].backlog[j] = sk[o].backlog[k]
            BY <3>2, <4>1, <4>2, <4>4
          <5> QED
            BY <2>0, <5>1 DEF BacklogsOK
        <4> QED
          BY <4>3, <4>4
      <3> QED
        BY <3>1, <3>2 DEF BacklogsOK
    <2>4. \A x \in Socks \ {s} : /\ sk2[x].inUse = sk[x].inUse /\ sk2[x].peer = sk[x].peer
                                 /\ sk2[x].conn = sk[x].conn /\ sk2[x].ring = sk[x].ring
      BY Targets
    <2>5. PeersOK(sk2)
      <3> SUFFICES ASSUME NEW x \in Socks, sk2[x].inUse, sk2[x].peer # None
                   PROVE  /\ sk2[sk2[x].peer].inUse
                          /\ sk2[sk2[x].peer].peer = x
                          /\ sk2[sk2[x].peer].conn = sk2[x].conn
        BY DEF PeersOK
      <3>1. x # s
        BY FreshSocket
      <3>2. sk[x].inUse /\ sk2[x].peer = sk[x].peer /\ sk2[x].conn = sk[x].conn
        BY <3>1, <2>4
      <3>3. sk[x].peer \in Socks \ {s}
        BY <3>2, <2>0, Targets
      <3> QED
        BY <2>0, <2>4, <3>2, <3>3 DEF PeersOK
    <2>6. RingsOK(sk2)
      <3>1. \A x \in Socks \ {s} : sk2[x].inUse => RingOK(sk2[x])
        BY <2>0, <2>4 DEF RingsOK, RingOK
      <3> QED
        BY <3>1, FreshSocket DEF RingsOK
    <2> QED
      BY <2>2, <2>3, <2>5, <2>6 DEF Linked
  <1>7. ASSUME Held(sk, fl) PROVE Held(sk2, fl)
    <2> SUFFICES ASSUME NEW x \in Socks, sk2[x].inUse
                 PROVE  \/ \E g \in FileIds : fl[g] = x
                        \/ \E m \in Socks : sk2[m].inUse /\ \E k \in 1 .. Len(sk2[m].backlog) : sk2[m].backlog[k] = x
      BY DEF Held
    <2>1. CASE x = s
      <3>1. Len(b) + 1 \in 1 .. Len(B)
        BY <1>1, <1>2
      <3> QED
        BY <1>2, <2>1, <3>1 DEF B
    <2>2. CASE x # s
      <3>1. sk[x].inUse
        BY <2>2
      <3>2. CASE \E m \in Socks : sk[m].inUse /\ \E k \in 1 .. Len(sk[m].backlog) : sk[m].backlog[k] = x
        <4>0. PICK m \in Socks : sk[m].inUse /\ \E k \in 1 .. Len(sk[m].backlog) : sk[m].backlog[k] = x
          BY <3>2
        <4>1. PICK k \in 1 .. Len(sk[m].backlog) : sk[m].backlog[k] = x
          BY <4>0
        <4>2. CASE m = l
          <5>1. k \in 1 .. Len(B) /\ B[k] = x
            BY <1>1, <1>2, <4>1, <4>2 DEF b
          <5> QED
            BY <5>1 DEF B
        <4>3. CASE m # l
          <5>1. sk2[m] = sk[m]
            BY <4>0, <4>3
          <5> QED
            BY <4>0, <4>1, <5>1
        <4> QED
          BY <4>2, <4>3
      <3> QED
        BY <1>7, <3>1, <3>2 DEF Held
    <2> QED
      BY <2>1, <2>2
  <1> QED
    BY <1>6, <1>7

(* unix_socket_connect.  A client that had no connection and is not itself   *)
(* a listener gets a new peer in the backlog; the others count as misuse.    *)
LEMMA ConnectInv ==
  ASSUME IInv, NEW p \in Pids, NEW f \in FileIds, NEW c, NEW l, NEW s, Connect(p, f, c, l, s)
  PROVE  IInv'
  <1> DEFINE n == conns + 1
             new == [Fresh EXCEPT !.state = "CONNECTED", !.peer = c, !.conn = n]
             sk1 == [sock EXCEPT ![s] = new]
             v == [sk1[c] EXCEPT !.state = "CONNECTED", !.peer = s, !.conn = n]
             sk2 == [sk1 EXCEPT ![c] = v]
             B == Append(sk2[l].backlog, s)
             w == [sk2[l] EXCEPT !.backlog = B]
             sk3 == [sk2 EXCEPT ![l] = w]
  <1>1. /\ c \in Socks /\ file[f] = c /\ l \in Socks /\ sock[l].inUse /\ s \in Socks /\ ~sock[s].inUse
        /\ Len(sock[l].backlog) < MaxBacklog /\ conns < MaxConns /\ conns' = n
        /\ UNCHANGED <<file, has, carries, live, incarnation>>
    BY DEF Connect, Names, First, Listeners, FreeSocks
  <1>2. misuse' = IF sock[c].conn # 0 \/ sock[c].backlog # <<>> \/ c = l
                  THEN misuse \union {"reconnect"} ELSE misuse
    BY DEF Connect
  <1>3. sock' = sk3
    BY DEF Connect
  <1>4. /\ Rest /\ Typed(sock) /\ file \in [FileIds -> Socks \union {None}]
        /\ Clean(misuse) => Linked(sock, file)
        /\ misuse = {} => Held(sock, file)
        /\ Opened(has, file) /\ Departed(has, live)
    BY DEF IInv, Rest
  <1>5. n \in 0 .. MaxConns /\ n # 0
    BY <1>1, <1>4, Ranges DEF Rest
  <1>6. l # s
    BY <1>1
  <1> HIDE DEF n
  <1>7. /\ new \in SockType /\ Sized(new)
        /\ new.inUse /\ new.peer = c /\ new.conn = n /\ new.ring = <<>> /\ new.backlog = <<>>
    <2>1. /\ new.inUse = Fresh.inUse /\ new.peer = c /\ new.conn = n /\ new.ring = Fresh.ring
          /\ new.backlog = Fresh.backlog /\ new.queue = Fresh.queue
      BY FreshSocket DEF SockType
    <2>2. new \in SockType
      BY <1>1, <1>5, FreshSocket DEF SockType, States
    <2> HIDE DEF new
    <2> QED
      BY <2>1, <2>2, FreshSocket DEF Sized
  <1> HIDE DEF new
  <1>8. Typed(sk1) /\ \A x \in Socks : sk1[x] = IF x = s THEN new ELSE sock[x]
    BY <1>1, <1>4, <1>7, TypedUpdate DEF Typed
  <1> HIDE DEF sk1
  <1>9. /\ v \in SockType /\ Sized(v)
        /\ v.inUse = sk1[c].inUse /\ v.peer = s /\ v.conn = n /\ v.ring = sk1[c].ring
        /\ v.backlog = sk1[c].backlog
    <2>0. sk1[c] \in SockType /\ Sized(sk1[c])
      BY <1>1, <1>8 DEF Typed
    <2>1. /\ v.inUse = sk1[c].inUse /\ v.peer = s /\ v.conn = n /\ v.ring = sk1[c].ring
          /\ v.backlog = sk1[c].backlog /\ v.queue = sk1[c].queue
      BY <2>0 DEF SockType
    <2>2. v \in SockType
      BY <1>1, <1>5, <2>0 DEF SockType, States
    <2> HIDE DEF v
    <2> QED
      BY <2>0, <2>1, <2>2 DEF Sized
  <1> HIDE DEF v
  <1>10. Typed(sk2) /\ \A x \in Socks : sk2[x] = IF x = c THEN v ELSE sk1[x]
    BY <1>1, <1>8, <1>9, TypedUpdate DEF Typed
  <1> HIDE DEF sk2
  <1>11. sk2[l].backlog = sock[l].backlog /\ sk2[l].inUse = sock[l].inUse /\ sk2[l].ring = sock[l].ring
    BY <1>1, <1>6, <1>8, <1>9, <1>10
  <1>12. /\ w \in SockType /\ Sized(w)
         /\ w.inUse = sk2[l].inUse /\ w.peer = sk2[l].peer /\ w.conn = sk2[l].conn
         /\ w.ring = sk2[l].ring /\ w.backlog = B
    <2>0. sk2[l] \in SockType /\ Sized(sk2[l]) /\ sk2[l].backlog \in Seq(Socks)
      BY <1>1, <1>10, SockFields DEF Typed
    <2>1. B \in Seq(Socks) /\ Len(B) = Len(sk2[l].backlog) + 1 /\ Len(sk2[l].backlog) \in Nat
      BY <1>1, <2>0, AppendProperties
    <2>2. Len(B) <= MaxBacklog
      BY <1>1, <1>11, <2>1, Ranges
    <2> HIDE DEF B
    <2>3. /\ w.inUse = sk2[l].inUse /\ w.peer = sk2[l].peer /\ w.conn = sk2[l].conn
          /\ w.ring = sk2[l].ring /\ w.backlog = B /\ w.queue = sk2[l].queue
      BY <2>0 DEF SockType
    <2>4. w \in SockType
      BY <2>0, <2>1 DEF SockType
    <2> HIDE DEF w
    <2> QED
      BY <2>0, <2>2, <2>3, <2>4 DEF Sized
  <1> HIDE DEF w
  <1>13. Typed(sk3) /\ \A x \in Socks : sk3[x] = IF x = l THEN w ELSE sk2[x]
    BY <1>1, <1>10, <1>12, TypedUpdate DEF Typed
  <1> HIDE DEF sk3
  <1>14. ASSUME Clean(misuse'), Linked(sock, file)
         PROVE  Linked(sk3, file) /\ (Held(sock, file) => Held(sk3, file))
    <2>1. sock[c].conn = 0 /\ sock[c].backlog = <<>> /\ c # l
      BY <1>2, <1>14 DEF Clean
    <2>2. sock[c].inUse /\ c # s
      BY <1>1, <1>14, Ranges DEF Linked, FilesOK
    <2> DEFINE b == Append(sock[l].backlog, s)
               m == [sock[l] EXCEPT !.backlog = b]
               mid0 == [sock EXCEPT ![s] = Fresh]
               mid == [mid0 EXCEPT ![l] = m]
    <2>3. B = b
      BY <1>11
    <2>4. sock[l] \in SockType /\ Sized(sock[l])
      BY <1>1, <1>4 DEF Typed
    <2>5. /\ m \in SockType /\ Sized(m)
          /\ m.inUse = sock[l].inUse /\ m.peer = sock[l].peer /\ m.conn = sock[l].conn
          /\ m.ring = sock[l].ring /\ m.backlog = b
      <3>1. b \in Seq(Socks) /\ Len(b) <= MaxBacklog
        BY <1>12, <2>3, SockFields DEF Sized
      <3> HIDE DEF b
      <3>2. /\ m.inUse = sock[l].inUse /\ m.peer = sock[l].peer /\ m.conn = sock[l].conn
            /\ m.ring = sock[l].ring /\ m.backlog = b /\ m.queue = sock[l].queue
        BY <2>4 DEF SockType
      <3>3. m \in SockType
        BY <2>4, <3>1 DEF SockType
      <3> HIDE DEF m
      <3> QED
        BY <2>4, <3>1, <3>2, <3>3 DEF Sized
    <2> HIDE DEF m
    <2>6. Typed(mid0) /\ \A x \in Socks : mid0[x] = IF x = s THEN Fresh ELSE sock[x]
      BY <1>1, <1>4, FreshSocket, TypedUpdate DEF Typed
    <2> HIDE DEF mid0
    <2>7. Typed(mid) /\ \A x \in Socks : mid[x] = IF x = l THEN m ELSE mid0[x]
      BY <1>1, <2>5, <2>6, TypedUpdate DEF Typed
    <2> HIDE DEF mid
    <2>8. /\ mid[s] = Fresh /\ mid[l] = m /\ mid[c] = sock[c]
          /\ \A x \in Socks \ {s, l} : mid[x] = sock[x]
      BY <1>1, <1>6, <2>1, <2>2, <2>6, <2>7
    <2>9. /\ Linked(sock, file) => Linked(mid, file)
          /\ Held(sock, file) => Held(mid, file)
      BY <1>1, <1>4, <2>5, <2>7, <2>8, BacklogLinks
    <2>10. /\ sk3[s] = new /\ sk3[c] = v /\ sk3[l] = w /\ \A x \in Socks \ {s, c, l} : sk3[x] = sock[x]
           /\ sk2[l] = sock[l] /\ sk1[c] = sock[c]
      BY <1>1, <1>6, <2>1, <2>2, <1>8, <1>10, <1>13
    <2>11. \A x \in Socks : /\ sk3[x].inUse = mid[x].inUse
                            /\ sk3[x].backlog = mid[x].backlog
                            /\ sk3[x].ring = mid[x].ring
      <3>1. ASSUME NEW x \in Socks \ {s, c, l} PROVE sk3[x] = mid[x]
        BY <3>1, <2>8, <2>10
      <3>2. sk3[s].inUse = mid[s].inUse /\ sk3[s].backlog = mid[s].backlog /\ sk3[s].ring = mid[s].ring
        <4>1. sk3[s].inUse \in BOOLEAN /\ mid[s].inUse \in BOOLEAN
          BY <1>1, <1>13, <2>7, Targets
        <4>2. sk3[s].inUse /\ mid[s].inUse
          BY <1>7, <2>8, <2>10, FreshSocket
        <4>3. sk3[s].inUse = mid[s].inUse
          BY <4>1, <4>2
        <4> QED
          BY <4>3, <1>7, <2>8, <2>10, FreshSocket
      <3>3. sk3[c].inUse = mid[c].inUse /\ sk3[c].backlog = mid[c].backlog /\ sk3[c].ring = mid[c].ring
        BY <1>9, <2>8, <2>10
      <3>4. sk3[l].inUse = mid[l].inUse /\ sk3[l].backlog = mid[l].backlog /\ sk3[l].ring = mid[l].ring
        BY <1>11, <1>12, <2>3, <2>5, <2>8, <2>10
      <3> QED
        BY <3>1, <3>2, <3>3, <3>4
    <2>12. \A x \in Socks \ {c, s} : sk3[x].peer = mid[x].peer /\ sk3[x].conn = mid[x].conn
      BY <1>12, <2>5, <2>8, <2>10
    <2>13. mid[c].inUse /\ mid[s].inUse /\ mid[c].conn = 0 /\ mid[s].conn = 0
      BY <2>1, <2>2, <2>8, FreshSocket
    <2>14. sk3[c].peer = s /\ sk3[c].conn = n /\ sk3[s].peer = c /\ sk3[s].conn = n
      BY <1>7, <1>9, <2>10
    <2>15. /\ Linked(mid, file) => Linked(sk3, file)
           /\ Held(mid, file) => Held(sk3, file)
      BY <1>1, <1>4, <1>5, <1>13, <2>2, <2>7, <2>11, <2>12, <2>13, <2>14, JoinLinks
    <2> QED
      BY <1>14, <2>9, <2>15
  <1>15. /\ misuse' \subseteq Misuses /\ (Clean(misuse') => Clean(misuse))
         /\ (misuse' = {} => misuse = {} /\ Clean(misuse'))
    BY <1>2, <1>4 DEF Rest, Misuses, Clean
  <1>16. Rest'
    BY <1>1, <1>4, <1>5, <1>15 DEF Rest, LifecycleTypeOK
  <1>17. /\ Clean(misuse') => Linked(sk3, file)
         /\ misuse' = {} => Held(sk3, file)
    BY <1>4, <1>14, <1>15
  <1> QED
    BY <1>1, <1>3, <1>4, <1>13, <1>16, <1>17 DEF IInv

(* unix_socket_pair: two new sockets, each behind a file, become peers. *)
LEMMA PairInv ==
  ASSUME IInv, NEW p \in live, NEW f, NEW g, NEW s, NEW t, Pair(p, f, g, s, t)
  PROVE  IInv'
  <1> DEFINE n == conns + 1
             u == [Fresh EXCEPT !.state = "CONNECTED", !.peer = t, !.conn = n]
             v == [Fresh EXCEPT !.state = "CONNECTED", !.peer = s, !.conn = n]
             sk1 == [sock EXCEPT ![s] = u]
             sk2 == [sk1 EXCEPT ![t] = v]
             fl1 == [file EXCEPT ![f] = s]
             fl2 == [fl1 EXCEPT ![g] = t]
  <1>1. /\ s \in Socks /\ ~sock[s].inUse /\ t \in Socks /\ ~sock[t].inUse /\ s # t
        /\ f \in FileIds /\ ~IsOpen(f) /\ g \in FileIds /\ ~IsOpen(g) /\ f # g
        /\ conns < MaxConns /\ conns' = n
        /\ has' = [has EXCEPT ![<<p, f>>] = 1, ![<<p, g>>] = 1]
        /\ UNCHANGED <<misuse, carries, live, incarnation>>
    BY DEF Pair, First, FreeSocks, FreeFiles
  <1>2. sock' = sk2 /\ file' = fl2
    BY DEF Pair, PairOf
  <1>3. /\ Rest /\ Typed(sock) /\ file \in [FileIds -> Socks \union {None}]
        /\ Clean(misuse) => Linked(sock, file)
        /\ misuse = {} => Held(sock, file)
        /\ Opened(has, file) /\ Departed(has, live)
        /\ has \in [Pids \X FileIds -> 0 .. NFds] /\ p \in Pids
    BY DEF IInv, Rest, LifecycleTypeOK
  <1>4. n \in 0 .. MaxConns /\ n # 0
    BY <1>1, <1>3, Ranges DEF Rest
  <1>5. file[f] = None /\ file[g] = None
    BY <1>1, <1>3 DEF Opened, IsOpen
  <1> HIDE DEF n
  <1>6. /\ u \in SockType /\ Sized(u) /\ u.inUse /\ u.peer = t /\ u.conn = n
        /\ u.ring = <<>> /\ u.backlog = <<>>
        /\ v \in SockType /\ Sized(v) /\ v.inUse /\ v.peer = s /\ v.conn = n
        /\ v.ring = <<>> /\ v.backlog = <<>>
    <2>1. /\ u.inUse = Fresh.inUse /\ u.peer = t /\ u.conn = n /\ u.ring = Fresh.ring
          /\ u.backlog = Fresh.backlog /\ u.queue = Fresh.queue
          /\ v.inUse = Fresh.inUse /\ v.peer = s /\ v.conn = n /\ v.ring = Fresh.ring
          /\ v.backlog = Fresh.backlog /\ v.queue = Fresh.queue
      BY FreshSocket DEF SockType
    <2>2. u \in SockType /\ v \in SockType
      BY <1>1, <1>4, FreshSocket DEF SockType, States
    <2> HIDE DEF u, v
    <2> QED
      BY <2>1, <2>2, FreshSocket DEF Sized
  <1> HIDE DEF u, v
  <1>7. Typed(sk1) /\ \A x \in Socks : sk1[x] = IF x = s THEN u ELSE sock[x]
    BY <1>1, <1>3, <1>6, TypedUpdate DEF Typed
  <1> HIDE DEF sk1
  <1>8. Typed(sk2) /\ \A x \in Socks : sk2[x] = IF x = t THEN v ELSE sk1[x]
    BY <1>1, <1>6, <1>7, TypedUpdate DEF Typed
  <1> HIDE DEF sk2
  <1>9. fl1 \in [FileIds -> Socks \union {None}] /\ fl1[g] = None
    BY <1>1, <1>3, <1>5
  <1>10. /\ fl2 \in [FileIds -> Socks \union {None}] /\ fl2[f] = s /\ fl2[g] = t
         /\ \A y \in FileIds \ {f, g} : fl2[y] = file[y]
    BY <1>1, <1>3
  <1>11. /\ Linked(sock, file) => Linked(sk2, fl2)
         /\ Held(sock, file) => Held(sk2, fl2)
    <2> DEFINE a == [sock EXCEPT ![s] = Fresh]
               b == [a EXCEPT ![t] = Fresh]
    <2>1. Typed(a) /\ \A x \in Socks : a[x] = IF x = s THEN Fresh ELSE sock[x]
      BY <1>1, <1>3, FreshSocket, TypedUpdate DEF Typed
    <2>2. /\ Linked(sock, file) => Linked(a, fl1)
          /\ Held(sock, file) => Held(a, fl1)
      BY <1>1, <1>3, <1>5, CreateLinks
    <2> HIDE DEF a, fl1
    <2>3. Typed(b) /\ \A x \in Socks : b[x] = IF x = t THEN Fresh ELSE a[x]
      BY <1>1, <2>1, FreshSocket, TypedUpdate DEF Typed
    <2>4. ~a[t].inUse
      BY <1>1, <2>1
    <2>5. /\ Linked(a, fl1) => Linked(b, fl2)
          /\ Held(a, fl1) => Held(b, fl2)
      BY <1>1, <1>9, <2>1, <2>4, CreateLinks
    <2> HIDE DEF b, fl2
    <2>6. /\ b[s] = Fresh /\ b[t] = Fresh /\ sk2[s] = u /\ sk2[t] = v
          /\ \A x \in Socks \ {s, t} : sk2[x] = b[x]
      BY <1>1, <1>7, <1>8, <2>1, <2>3
    <2>7. \A x \in Socks : /\ sk2[x].inUse = b[x].inUse
                           /\ sk2[x].backlog = b[x].backlog
                           /\ sk2[x].ring = b[x].ring
      <3>1. \A x \in Socks : sk2[x].inUse \in BOOLEAN /\ b[x].inUse \in BOOLEAN
        BY <1>8, <2>3, Targets
      <3>2. \A x \in {s, t} : sk2[x].inUse /\ b[x].inUse
        BY <1>6, <2>6, FreshSocket
      <3>3. \A x \in {s, t} : sk2[x].backlog = b[x].backlog /\ sk2[x].ring = b[x].ring
        BY <1>6, <2>6, FreshSocket
      <3> QED
        BY <1>1, <2>6, <3>1, <3>2, <3>3
    <2>8. /\ \A x \in Socks \ {s, t} : sk2[x].peer = b[x].peer /\ sk2[x].conn = b[x].conn
          /\ b[s].inUse /\ b[t].inUse /\ b[s].conn = 0 /\ b[t].conn = 0
          /\ sk2[s].peer = t /\ sk2[s].conn = n /\ sk2[t].peer = s /\ sk2[t].conn = n
      BY <1>6, <2>6, FreshSocket
    <2>9. /\ Linked(b, fl2) => Linked(sk2, fl2)
          /\ Held(b, fl2) => Held(sk2, fl2)
      BY <1>1, <1>4, <1>8, <1>10, <2>3, <2>7, <2>8, JoinLinks
    <2> QED
      BY <2>2, <2>5, <2>9
  <1> HIDE DEF fl2
  <1>12. /\ has' \in [Pids \X FileIds -> 0 .. NFds]
         /\ has'[<<p, f>>] = 1 /\ has'[<<p, g>>] = 1
         /\ \A x \in Pids, y \in FileIds : <<x, y>> \notin {<<p, f>>, <<p, g>>} => has'[<<x, y>>] = has[<<x, y>>]
    <2>1. 1 \in 0 .. NFds
      BY Ranges
    <2> DEFINE h1 == [has EXCEPT ![<<p, f>>] = 1]
    <2>2. h1 \in [Pids \X FileIds -> 0 .. NFds]
      BY <1>1, <1>3, <2>1
    <2>3. has' = [h1 EXCEPT ![<<p, g>>] = 1]
      BY <1>1
    <2> QED
      BY <1>1, <1>3, <2>1, <2>2, <2>3
  <1>13. Opened(has', fl2)
    <2> SUFFICES ASSUME NEW y \in FileIds
                 PROVE  (\E x \in Pids : has'[<<x, y>>] > 0) <=> fl2[y] # None
      BY DEF Opened
    <2>1. CASE y \in {f, g}
      <3>1. fl2[y] # None /\ has'[<<p, y>>] = 1 /\ 1 > 0
        BY <1>1, <1>10, <1>12, <2>1, Ranges
      <3>2. has'[<<p, y>>] > 0
        BY <3>1
      <3> QED
        BY <1>3, <3>1, <3>2
    <2>2. CASE y \notin {f, g}
      <3>1. (\A x \in Pids : has'[<<x, y>>] = has[<<x, y>>]) /\ fl2[y] = file[y]
        BY <1>10, <1>12, <2>2
      <3> QED
        BY <1>3, <3>1 DEF Opened
    <2> QED
      BY <2>1, <2>2
  <1>14. Departed(has', live)
    BY <1>3, <1>12 DEF Departed
  <1>15. Rest'
    BY <1>1, <1>2, <1>3, <1>4, <1>10, <1>12 DEF Rest, LifecycleTypeOK
  <1> QED
    BY <1>1, <1>2, <1>3, <1>8, <1>11, <1>13, <1>14, <1>15 DEF IInv

(* The first socket leaves the backlog of l: for nothing, or to a new file. *)
LEMMA AcceptLinks ==
  ASSUME NEW sk, NEW sk2, Typed(sk), Typed(sk2), NEW fl \in [FileIds -> Socks \union {None}],
         NEW l \in Socks, sk[l].backlog # <<>>, sk2[l].backlog = Tail(sk[l].backlog),
         \A x \in Socks : /\ sk2[x].inUse = sk[x].inUse /\ sk2[x].peer = sk[x].peer
                          /\ sk2[x].conn = sk[x].conn /\ sk2[x].ring = sk[x].ring,
         \A x \in Socks \ {l} : sk2[x].backlog = sk[x].backlog
  PROVE  /\ Linked(sk, fl) => Linked(sk2, fl)
         /\ \A g \in FileIds : fl[g] = None =>
               /\ Linked(sk, fl) /\ sk[l].inUse => Linked(sk2, [fl EXCEPT ![g] = Head(sk[l].backlog)])
               /\ Held(sk, fl) => Held(sk2, [fl EXCEPT ![g] = Head(sk[l].backlog)])
  <1> DEFINE b == sk[l].backlog
             B == sk2[l].backlog
             h == Head(b)
  <1>1. b \in Seq(Socks) /\ Len(b) \in Nat /\ b # <<>>
    BY Targets
  <1>2. /\ h \in Socks /\ h = b[1] /\ Len(b) >= 1 /\ Len(B) = Len(b) - 1
        /\ \A k \in 1 .. Len(B) : B[k] = b[k + 1]
    <2>1. /\ Head(b) \in Socks /\ Head(b) = b[1] /\ Len(Tail(b)) = Len(b) - 1
          /\ \A k \in 1 .. Len(Tail(b)) : Tail(b)[k] = b[k + 1]
      BY <1>1, HeadTailProperties
    <2>2. Len(b) >= 1
      BY <1>1, EmptySeq
    <2> QED
      BY <2>1, <2>2
  <1>3. 1 \in 1 .. Len(b) /\ \A k \in 1 .. Len(B) : k + 1 \in 1 .. Len(b) /\ k + 1 # 1
    BY <1>1, <1>2
  <1>5. \A y \in FileIds : fl[y] # None => fl[y] \in Socks
    OBVIOUS
  <1>6. ASSUME NEW m \in Socks, sk2[m].inUse, NEW k \in 1 .. Len(sk2[m].backlog)
        PROVE  \/ /\ m = l /\ sk[m].inUse /\ k \in Int /\ k + 1 \in 1 .. Len(sk[m].backlog) /\ k + 1 # 1
                  /\ sk2[m].backlog[k] = sk[m].backlog[k + 1]
               \/ /\ m # l /\ sk[m].inUse /\ k \in Int /\ k \in 1 .. Len(sk[m].backlog)
                  /\ sk2[m].backlog[k] = sk[m].backlog[k]
    <2>1. sk[m].inUse /\ k \in Int
      BY <1>6
    <2>2. CASE m = l
      BY <1>2, <1>3, <1>6, <2>1, <2>2
    <2>3. CASE m # l
      BY <1>6, <2>1, <2>3
    <2> QED
      BY <2>2, <2>3
  <1> HIDE DEF b, B, h
  <1>7. ASSUME Linked(sk, fl) PROVE Linked(sk2, fl)
    <2>0. FilesOK(sk, fl) /\ BacklogsOK(sk, fl) /\ PeersOK(sk) /\ RingsOK(sk)
      BY <1>7 DEF Linked
    <2>1. FilesOK(sk2, fl)
      BY <1>5, <2>0 DEF FilesOK
    <2>2. BacklogsOK(sk2, fl)
      <3>1. ASSUME NEW m \in Socks, sk2[m].inUse, NEW k \in 1 .. Len(sk2[m].backlog)
            PROVE  sk2[sk2[m].backlog[k]].inUse /\ \A f \in FileIds : fl[f] # sk2[m].backlog[k]
        <4>1. PICK j \in 1 .. Len(sk[m].backlog) : sk2[m].backlog[k] = sk[m].backlog[j]
          BY <1>6, <3>1
        <4>2. /\ sk[m].backlog[j] \in Socks /\ sk[sk[m].backlog[j]].inUse
              /\ \A f \in FileIds : fl[f] # sk[m].backlog[j]
          BY <2>0, <3>1, <4>1, Targets DEF BacklogsOK
        <4> QED
          BY <4>1, <4>2
      <3>2. ASSUME NEW m \in Socks, NEW o \in Socks, sk2[m].inUse, sk2[o].inUse,
                   NEW j \in 1 .. Len(sk2[m].backlog), NEW k \in 1 .. Len(sk2[o].backlog),
                   sk2[m].backlog[j] = sk2[o].backlog[k]
            PROVE  m = o /\ j = k
        <4> DEFINE i(x, y) == IF x = l THEN y + 1 ELSE y
        <4>1. /\ sk[m].inUse /\ j \in Int /\ i(m, j) \in 1 .. Len(sk[m].backlog)
              /\ sk2[m].backlog[j] = sk[m].backlog[i(m, j)]
          BY <1>6, <3>2
        <4>2. /\ sk[o].inUse /\ k \in Int /\ i(o, k) \in 1 .. Len(sk[o].backlog)
              /\ sk2[o].backlog[k] = sk[o].backlog[i(o, k)]
          BY <1>6, <3>2
        <4>3. m = o /\ i(m, j) = i(o, k)
          <5> DEFINE a == i(m, j)
                     z == i(o, k)
          <5>1. /\ a \in 1 .. Len(sk[m].backlog) /\ z \in 1 .. Len(sk[o].backlog)
                /\ sk[m].backlog[a] = sk[o].backlog[z]
            BY <3>2, <4>1, <4>2
          <5> HIDE DEF a, z
          <5>2. m = o /\ a = z
            BY <2>0, <4>1, <4>2, <5>1 DEF BacklogsOK
          <5> QED
            BY <5>2 DEF a, z
        <4> QED
          BY <4>1, <4>2, <4>3
      <3> QED
        BY <3>1, <3>2 DEF BacklogsOK
    <2>3. PeersOK(sk2)
      <3>1. \A x \in Socks : sk[x].peer # None => sk[x].peer \in Socks
        BY Targets
      <3> QED
        BY <2>0, <3>1 DEF PeersOK
    <2>4. RingsOK(sk2)
      BY <2>0 DEF RingsOK, RingOK
    <2> QED
      BY <2>1, <2>2, <2>3, <2>4 DEF Linked
  <1>8. ASSUME NEW g \in FileIds, fl[g] = None
        PROVE  /\ Linked(sk, fl) /\ sk[l].inUse => Linked(sk2, [fl EXCEPT ![g] = Head(sk[l].backlog)])
               /\ Held(sk, fl) => Held(sk2, [fl EXCEPT ![g] = Head(sk[l].backlog)])
    <2> DEFINE fl2 == [fl EXCEPT ![g] = h]
    <2>1. \A y \in FileIds : fl2[y] = IF y = g THEN h ELSE fl[y]
      OBVIOUS
    <2> HIDE DEF fl2
    <2>2. ASSUME Linked(sk, fl), sk[l].inUse PROVE Linked(sk2, fl2)
      <3>0. /\ FilesOK(sk2, fl) /\ BacklogsOK(sk2, fl) /\ PeersOK(sk2) /\ RingsOK(sk2)
            /\ BacklogsOK(sk, fl)
        BY <1>7, <2>2 DEF Linked
      <3>1. sk[h].inUse /\ \A y \in FileIds : fl[y] # h
        BY <1>2, <1>3, <2>2, <3>0 DEF BacklogsOK, b
      <3>2. \A m \in Socks : sk2[m].inUse => \A k \in 1 .. Len(sk2[m].backlog) : sk2[m].backlog[k] # h
        <4> SUFFICES ASSUME NEW m \in Socks, sk2[m].inUse, NEW k \in 1 .. Len(sk2[m].backlog),
                            sk2[m].backlog[k] = h
                     PROVE  FALSE
          OBVIOUS
        <4>1. 1 \in 1 .. Len(sk[l].backlog) /\ sk[l].backlog[1] = h
          BY <1>2, <1>3 DEF b
        <4>2. CASE m = l
          <5>1. k + 1 \in 1 .. Len(sk[l].backlog) /\ k + 1 # 1 /\ sk[l].backlog[k + 1] = h
            BY <1>6, <4>2
          <5> DEFINE j == k + 1
          <5> HIDE DEF j
          <5>2. j \in 1 .. Len(sk[l].backlog) /\ j # 1 /\ sk[l].backlog[j] = h
            BY <5>1 DEF j
          <5> QED
            BY <2>2, <3>0, <4>1, <5>2 DEF BacklogsOK
        <4>3. CASE m # l
          <5>1. sk[m].inUse /\ k \in 1 .. Len(sk[m].backlog) /\ sk[m].backlog[k] = h
            BY <1>6, <4>3
          <5> QED
            BY <2>2, <3>0, <4>1, <4>3, <5>1 DEF BacklogsOK
        <4> QED
          BY <4>2, <4>3
      <3>3. FilesOK(sk2, fl2)
        <4>1. \A y \in FileIds : fl2[y] # None => sk2[fl2[y]].inUse
          BY <1>2, <2>1, <3>0, <3>1 DEF FilesOK
        <4>2. \A x, y \in FileIds : fl2[x] # None /\ fl2[x] = fl2[y] => x = y
          BY <2>1, <3>0, <3>1 DEF FilesOK
        <4> QED
          BY <4>1, <4>2 DEF FilesOK
      <3>4. BacklogsOK(sk2, fl2)
        BY <2>1, <3>0, <3>2 DEF BacklogsOK
      <3> QED
        BY <3>0, <3>3, <3>4 DEF Linked
    <2>3. ASSUME Held(sk, fl) PROVE Held(sk2, fl2)
      <3> SUFFICES ASSUME NEW x \in Socks, sk2[x].inUse
                   PROVE  \/ \E y \in FileIds : fl2[y] = x
                          \/ \E m \in Socks : sk2[m].inUse /\ \E k \in 1 .. Len(sk2[m].backlog) : sk2[m].backlog[k] = x
        BY DEF Held
      <3>1. sk[x].inUse
        OBVIOUS
      <3>2. CASE \E y \in FileIds : fl[y] = x
        <4>1. PICK y \in FileIds : fl[y] = x
          BY <3>2
        <4>2. y # g
          BY <1>8, <4>1, Ranges
        <4> QED
          BY <2>1, <4>1, <4>2
      <3>3. CASE \E m \in Socks : sk[m].inUse /\ \E k \in 1 .. Len(sk[m].backlog) : sk[m].backlog[k] = x
        <4>1. PICK m \in Socks : sk[m].inUse /\ \E k \in 1 .. Len(sk[m].backlog) : sk[m].backlog[k] = x
          BY <3>3
        <4>2. PICK k \in 1 .. Len(sk[m].backlog) : sk[m].backlog[k] = x
          BY <4>1
        <4>3. CASE m # l
          <5>1. sk2[m].inUse /\ sk2[m].backlog = sk[m].backlog
            BY <4>1, <4>3
          <5> QED
            BY <4>2, <5>1
        <4>4. CASE m = l /\ k = 1
          BY <1>2, <2>1, <4>2, <4>4 DEF b
        <4>5. CASE m = l /\ k # 1
          <5> DEFINE j == k - 1
          <5>1. j \in 1 .. Len(B) /\ j + 1 = k
            BY <1>1, <1>2, <4>5 DEF b
          <5>2. B[j] = x
            BY <1>2, <4>2, <4>5, <5>1 DEF b
          <5> QED
            BY <4>1, <4>5, <5>1, <5>2 DEF B
        <4> QED
          BY <4>3, <4>4, <4>5
      <3> QED
        BY <2>3, <3>1, <3>2, <3>3 DEF Held
    <2> QED
      BY <1>8, <2>2, <2>3 DEF fl2, h, b
  <1> QED
    BY <1>7, <1>8

(* What accept does to the sockets. *)
Taken(sk, l) == [sk EXCEPT ![l].backlog = Tail(@)]

(* It takes the first socket out of the backlog, and nothing else. *)
LEMMA TakenSocket ==
  ASSUME NEW sk, Typed(sk), NEW l \in Socks, sk[l].backlog # <<>>
  PROVE  /\ Typed(Taken(sk, l)) /\ Taken(sk, l)[l].backlog = Tail(sk[l].backlog)
         /\ Head(sk[l].backlog) \in Socks
         /\ \A x \in Socks : /\ Taken(sk, l)[x].inUse = sk[x].inUse /\ Taken(sk, l)[x].peer = sk[x].peer
                              /\ Taken(sk, l)[x].conn = sk[x].conn /\ Taken(sk, l)[x].ring = sk[x].ring
         /\ \A x \in Socks \ {l} : Taken(sk, l)[x].backlog = sk[x].backlog
  <1> DEFINE b == sk[l].backlog
             T == Tail(b)
             u == [sk[l] EXCEPT !.backlog = T]
             sk2 == Taken(sk, l)
  <1>1. sk \in [Socks -> SockType] /\ sk[l] \in SockType /\ Sized(sk[l])
    BY DEF Typed
  <1>2. b \in Seq(Socks) /\ Len(b) <= MaxBacklog
    BY <1>1, SockFields DEF Sized
  <1>3. sk2 = [sk EXCEPT ![l] = u]
    BY DEF Taken
  <1> HIDE DEF sk2
  <1>4. T \in Seq(Socks) /\ Len(T) = Len(b) - 1 /\ Head(b) \in Socks /\ Len(b) \in Nat
    BY <1>2, HeadTailProperties
  <1>5. Len(T) <= MaxBacklog
    BY <1>2, <1>4, Ranges
  <1> HIDE DEF T
  <1>6. /\ u.inUse = sk[l].inUse /\ u.peer = sk[l].peer /\ u.conn = sk[l].conn
        /\ u.ring = sk[l].ring /\ u.queue = sk[l].queue /\ u.backlog = T
    BY <1>1 DEF SockType
  <1>7. u \in SockType
    BY <1>1, <1>4 DEF SockType
  <1> HIDE DEF u
  <1>8. Sized(u)
    BY <1>1, <1>5, <1>6 DEF Sized
  <1>9. Typed(sk2)
    <2>1. Typed([sk EXCEPT ![l] = u])
      BY <1>7, <1>8, TypedUpdate
    <2> QED
      BY <2>1, <1>3
  <1>10. \A x \in Socks : sk2[x] = IF x = l THEN u ELSE sk[x]
    BY <1>1, <1>3
  <1> QED
    BY <1>4, <1>6, <1>9, <1>10 DEF T, sk2

(* unix_socket_accept *)
LEMMA AcceptInv ==
  ASSUME IInv, NEW p \in live, NEW f \in FileIds, NEW l, NEW g, Accept(p, f, l, g)
  PROVE  IInv'
  <1> DEFINE h == Head(sock[l].backlog)
  <1>1. /\ l \in Socks /\ file[f] = l /\ sock[l].backlog # <<>> /\ NewFile(p, g, h)
        /\ sock' = Taken(sock, l)
        /\ UNCHANGED <<misuse, conns, carries, live, incarnation>>
    BY DEF Accept, Names, Taken
  <1>2. /\ Rest /\ Typed(sock) /\ file \in [FileIds -> Socks \union {None}]
        /\ Clean(misuse) => Linked(sock, file)
        /\ misuse = {} => Held(sock, file)
    BY DEF IInv, Rest
  <1>3. /\ Typed(sock') /\ sock'[l].backlog = Tail(sock[l].backlog) /\ h \in Socks
        /\ \A x \in Socks : /\ sock'[x].inUse = sock[x].inUse /\ sock'[x].peer = sock[x].peer
                             /\ sock'[x].conn = sock[x].conn /\ sock'[x].ring = sock[x].ring
        /\ \A x \in Socks \ {l} : sock'[x].backlog = sock[x].backlog
    BY <1>1, <1>2, TakenSocket
  <1> HIDE DEF h
  <1>4. /\ g \in FileIds /\ file[g] = None /\ file' = [file EXCEPT ![g] = h]
        /\ file' \in [FileIds -> Socks \union {None}]
        /\ has' \in [Pids \X FileIds -> 0 .. NFds]
        /\ Opened(has', file') /\ Departed(has', live)
    BY <1>1, <1>3, NewFileStep
  <1>5. /\ Linked(sock, file) /\ sock[l].inUse => Linked(sock', file')
        /\ Held(sock, file) => Held(sock', file')
    <2> DEFINE S == sock'
    <2>1. /\ Typed(S) /\ S[l].backlog = Tail(sock[l].backlog)
          /\ \A x \in Socks : /\ S[x].inUse = sock[x].inUse /\ S[x].peer = sock[x].peer
                               /\ S[x].conn = sock[x].conn /\ S[x].ring = sock[x].ring
          /\ \A x \in Socks \ {l} : S[x].backlog = sock[x].backlog
      BY <1>3
    <2>2. l \in Socks /\ sock[l].backlog # <<>> /\ Typed(sock)
          /\ file \in [FileIds -> Socks \union {None}]
      BY <1>1, <1>2
    <2> HIDE DEF S
    <2>3. \A x \in FileIds : file[x] = None =>
            /\ Linked(sock, file) /\ sock[l].inUse
                 => Linked(S, [file EXCEPT ![x] = Head(sock[l].backlog)])
            /\ Held(sock, file) => Held(S, [file EXCEPT ![x] = Head(sock[l].backlog)])
      BY <2>1, <2>2, AcceptLinks
    <2>4. /\ Linked(sock, file) /\ sock[l].inUse => Linked(S, [file EXCEPT ![g] = h])
          /\ Held(sock, file) => Held(S, [file EXCEPT ![g] = h])
      BY <2>3, <1>4 DEF h
    <2> QED
      BY <2>4, <1>4 DEF S
  <1>6. Linked(sock, file) => sock[l].inUse
    BY <1>1, Ranges DEF Linked, FilesOK
  <1>7. Rest'
    BY <1>1, <1>2, <1>4 DEF Rest, LifecycleTypeOK
  <1> QED
    BY <1>1, <1>2, <1>3, <1>4, <1>5, <1>6, <1>7 DEF IInv

(* Without a free descriptor the socket is lost, but the links are sound. *)
LEMMA AcceptFailsInv ==
  ASSUME IInv, NEW p \in Pids, NEW f \in FileIds, NEW l, AcceptFails(p, f, l)
  PROVE  IInv'
  <1>1. /\ l \in Socks /\ sock[l].backlog # <<>>
        /\ sock' = Taken(sock, l) /\ misuse' = misuse \union {"backlog"}
        /\ UNCHANGED <<file, has, conns, carries, live, incarnation>>
    BY DEF AcceptFails, Names, Taken
  <1>2. /\ Rest /\ Typed(sock) /\ file \in [FileIds -> Socks \union {None}]
        /\ Clean(misuse) => Linked(sock, file)
        /\ Opened(has, file) /\ Departed(has, live)
    BY DEF IInv, Rest
  <1>3. /\ Typed(sock') /\ sock'[l].backlog = Tail(sock[l].backlog)
        /\ \A x \in Socks : /\ sock'[x].inUse = sock[x].inUse /\ sock'[x].peer = sock[x].peer
                             /\ sock'[x].conn = sock[x].conn /\ sock'[x].ring = sock[x].ring
        /\ \A x \in Socks \ {l} : sock'[x].backlog = sock[x].backlog
    BY <1>1, <1>2, TakenSocket
  <1>4. Linked(sock, file) => Linked(sock', file)
    BY <1>1, <1>2, <1>3, AcceptLinks
  <1>5. (Clean(misuse') => Clean(misuse)) /\ misuse' # {} /\ misuse' \subseteq Misuses
    BY <1>1, <1>2 DEF Clean, Rest, Misuses
  <1>6. Rest'
    BY <1>1, <1>2, <1>5 DEF Rest, LifecycleTypeOK
  <1> QED
    BY <1>1, <1>2, <1>3, <1>4, <1>5, <1>6 DEF IInv

-----------------------------------------------------------------------------
(* Closing *)

(* unix_socket_release: what is left of each socket. *)
LEMMA ReleasedSockets ==
  ASSUME Typed(sock), NEW R \in SUBSET Socks
  PROVE  /\ Typed(Released(R))
         /\ \A x \in R : ~Released(R)[x].inUse
         /\ \A x \in Socks \ R :
               /\ Released(R)[x].inUse = sock[x].inUse /\ Released(R)[x].backlog = sock[x].backlog
               /\ Released(R)[x].ring = sock[x].ring /\ Released(R)[x].conn = sock[x].conn
               /\ Released(R)[x].peer = IF \E r \in R : sock[r].peer = x THEN None ELSE sock[x].peer
  <1> DEFINE gone(x) == [Unused EXCEPT !.ring = sock[x].ring]
             left(x) == [sock[x] EXCEPT !.peer = None]
             cut == {sock[r].peer : r \in R}
             sk == Released(R)
  <1>1. \A x \in Socks : sock[x] \in SockType /\ Sized(sock[x]) /\ sock[x].ring \in Seq(0 .. MaxConns)
    BY SockFields DEF Typed
  <1>2. /\ DOMAIN sk = Socks /\ sk = [x \in Socks |-> sk[x]]
        /\ \A x \in Socks : sk[x] = IF x \in R THEN gone(x) ELSE IF x \in cut THEN left(x) ELSE sock[x]
    BY DEF Released
  <1>3. ASSUME NEW x \in Socks
        PROVE  gone(x) \in SockType /\ Sized(gone(x)) /\ ~gone(x).inUse
    <2>1. /\ gone(x).inUse = Unused.inUse /\ gone(x).ring = sock[x].ring
          /\ gone(x).queue = Unused.queue /\ gone(x).backlog = Unused.backlog
      BY FreshSocket DEF SockType
    <2>2. gone(x) \in SockType
      BY <1>1, FreshSocket DEF SockType
    <2> HIDE DEF gone
    <2> QED
      BY <1>1, <2>1, <2>2, FreshSocket DEF Sized
  <1>4. ASSUME NEW x \in Socks
        PROVE  /\ left(x) \in SockType /\ Sized(left(x)) /\ left(x).peer = None
               /\ left(x).inUse = sock[x].inUse /\ left(x).backlog = sock[x].backlog
               /\ left(x).ring = sock[x].ring /\ left(x).conn = sock[x].conn
    <2>0. sock[x] \in SockType
      BY <1>1
    <2>1. /\ left(x).peer = None
          /\ left(x).inUse = sock[x].inUse /\ left(x).backlog = sock[x].backlog
          /\ left(x).ring = sock[x].ring /\ left(x).conn = sock[x].conn /\ left(x).queue = sock[x].queue
      BY <2>0 DEF SockType
    <2>2. left(x) \in SockType
      BY <2>0 DEF SockType
    <2> HIDE DEF left
    <2> QED
      BY <1>1, <2>1, <2>2 DEF Sized
  <1> HIDE DEF gone, left, sk
  <1>5. \A x \in Socks : sk[x] \in SockType /\ Sized(sk[x])
    BY <1>1, <1>2, <1>3, <1>4
  <1>6. Typed(sk)
    <2>1. sk \in [Socks -> SockType]
      BY <1>2, <1>5
    <2> QED
      BY <1>5, <2>1 DEF Typed
  <1>7. \A x \in R : ~sk[x].inUse
    BY <1>2, <1>3
  <1>8. \A x \in Socks : x \in cut <=> \E r \in R : sock[r].peer = x
    OBVIOUS
  <1> HIDE DEF cut
  <1>9. \A x \in Socks \ R :
          /\ sk[x].inUse = sock[x].inUse /\ sk[x].backlog = sock[x].backlog
          /\ sk[x].ring = sock[x].ring /\ sk[x].conn = sock[x].conn
          /\ sk[x].peer = IF x \in cut THEN None ELSE sock[x].peer
    BY <1>2, <1>4
  <1>10. \A x \in Socks \ R :
           sk[x].peer = IF \E r \in R : sock[r].peer = x THEN None ELSE sock[x].peer
    BY <1>8, <1>9
  <1> QED
    BY <1>6, <1>7, <1>9, <1>10 DEF sk

(* The sockets behind the files G go.  Their peers lose them, and nothing    *)
(* else refers to them.                                                      *)
LEMMA ReleaseLinks ==
  ASSUME Typed(sock), file \in [FileIds -> Socks \union {None}], Linked(sock, file),
         NEW G \in SUBSET FileIds, NEW R, R = {file[f] : f \in G} \intersect Socks,
         NEW fl, fl = [f \in FileIds |-> IF f \in G THEN None ELSE file[f]]
  PROVE  /\ Linked(Released(R), fl)
         /\ Held(sock, file) /\ ~Waiting(R) => Held(Released(R), fl)
  <1> DEFINE sk == Released(R)
  <1>0. FilesOK(sock, file) /\ BacklogsOK(sock, file) /\ PeersOK(sock) /\ RingsOK(sock)
    BY DEF Linked
  <1>1. R \in SUBSET Socks
    OBVIOUS
  <1>2. /\ Typed(sk) /\ \A x \in R : ~sk[x].inUse
        /\ \A x \in Socks \ R :
               /\ sk[x].inUse = sock[x].inUse /\ sk[x].backlog = sock[x].backlog
               /\ sk[x].ring = sock[x].ring /\ sk[x].conn = sock[x].conn
               /\ sk[x].peer = IF \E r \in R : sock[r].peer = x THEN None ELSE sock[x].peer
    BY <1>1, ReleasedSockets
  <1> HIDE DEF sk
  <1>3. \A f \in FileIds : /\ f \in G => fl[f] = None
                           /\ f \notin G => fl[f] = file[f]
    OBVIOUS
  <1>4. \A r \in R : (\E f \in G : file[f] = r) /\ sock[r].inUse
    <2> SUFFICES ASSUME NEW r \in R
                 PROVE  (\E f \in G : file[f] = r) /\ sock[r].inUse
      OBVIOUS
    <2>1. PICK f \in G : file[f] = r
      OBVIOUS
    <2>2. f \in FileIds /\ file[f] # None
      BY <1>1, <2>1, Ranges
    <2> QED
      BY <1>0, <2>1, <2>2 DEF FilesOK
  <1>5. \A f \in FileIds : fl[f] # None => f \notin G /\ fl[f] = file[f] /\ fl[f] \in Socks \ R
    <2> SUFFICES ASSUME NEW f \in FileIds, fl[f] # None
                 PROVE  f \notin G /\ fl[f] = file[f] /\ fl[f] \in Socks \ R
      OBVIOUS
    <2>1. f \notin G /\ fl[f] = file[f] /\ fl[f] \in Socks
      BY <1>3
    <2>2. ASSUME fl[f] \in R PROVE FALSE
      <3>1. PICK g \in G : file[g] = fl[f]
        BY <1>4, <2>2
      <3>2. g = f
        BY <1>0, <2>1, <3>1 DEF FilesOK
      <3> QED
        BY <2>1, <3>2
    <2> QED
      BY <2>1, <2>2
  <1>6. \A l \in Socks : sk[l].inUse => l \notin R /\ sock[l].inUse /\ sk[l].backlog = sock[l].backlog
    BY <1>2
  <1>7. \A l \in Socks : sock[l].inUse =>
           \A k \in 1 .. Len(sock[l].backlog) :
              /\ sock[l].backlog[k] \in Socks \ R /\ sock[sock[l].backlog[k]].inUse
              /\ \A f \in FileIds : file[f] # sock[l].backlog[k]
    <2> SUFFICES ASSUME NEW l \in Socks, sock[l].inUse, NEW k \in 1 .. Len(sock[l].backlog)
                 PROVE  /\ sock[l].backlog[k] \in Socks \ R /\ sock[sock[l].backlog[k]].inUse
                        /\ \A f \in FileIds : file[f] # sock[l].backlog[k]
      OBVIOUS
    <2>1. /\ sock[l].backlog[k] \in Socks /\ sock[sock[l].backlog[k]].inUse
          /\ \A f \in FileIds : file[f] # sock[l].backlog[k]
      BY <1>0, Targets DEF BacklogsOK
    <2>2. sock[l].backlog[k] \notin R
      BY <1>4, <2>1
    <2> QED
      BY <2>1, <2>2
  <1>8. FilesOK(sk, fl)
    <2>1. \A f \in FileIds : fl[f] # None => sk[fl[f]].inUse
      BY <1>0, <1>2, <1>5 DEF FilesOK
    <2>2. \A f, g \in FileIds : fl[f] # None /\ fl[f] = fl[g] => f = g
      BY <1>0, <1>5 DEF FilesOK
    <2> QED
      BY <2>1, <2>2 DEF FilesOK
  <1>9. BacklogsOK(sk, fl)
    <2>1. ASSUME NEW l \in Socks, sk[l].inUse, NEW k \in 1 .. Len(sk[l].backlog)
          PROVE  sk[sk[l].backlog[k]].inUse /\ \A f \in FileIds : fl[f] # sk[l].backlog[k]
      <3>1. sock[l].inUse /\ k \in 1 .. Len(sock[l].backlog) /\ sk[l].backlog[k] = sock[l].backlog[k]
        BY <1>6, <2>1
      <3> DEFINE b == sock[l].backlog[k]
      <3>2. b \in Socks \ R /\ sock[b].inUse /\ \A f \in FileIds : file[f] # b
        BY <1>7, <3>1
      <3>3. b # None
        BY <3>2, Ranges
      <3> HIDE DEF b
      <3>4. sk[b].inUse /\ \A f \in FileIds : fl[f] # b
        BY <1>2, <1>5, <3>2, <3>3
      <3> QED
        BY <3>1, <3>4 DEF b
    <2>2. ASSUME NEW l \in Socks, NEW m \in Socks, sk[l].inUse, sk[m].inUse,
                 NEW j \in 1 .. Len(sk[l].backlog), NEW k \in 1 .. Len(sk[m].backlog),
                 sk[l].backlog[j] = sk[m].backlog[k]
          PROVE  l = m /\ j = k
      <3>1. /\ sock[l].inUse /\ j \in 1 .. Len(sock[l].backlog) /\ sk[l].backlog[j] = sock[l].backlog[j]
            /\ sock[m].inUse /\ k \in 1 .. Len(sock[m].backlog) /\ sk[m].backlog[k] = sock[m].backlog[k]
        BY <1>6, <2>2
      <3>2. sock[l].backlog[j] = sock[m].backlog[k]
        BY <2>2, <3>1
      <3> QED
        BY <1>0, <3>1, <3>2 DEF BacklogsOK
    <2> QED
      BY <2>1, <2>2 DEF BacklogsOK
  <1>10. PeersOK(sk)
    <2> SUFFICES ASSUME NEW x \in Socks, sk[x].inUse, sk[x].peer # None
                 PROVE  sk[sk[x].peer].inUse /\ sk[sk[x].peer].peer = x /\ sk[sk[x].peer].conn = sk[x].conn
      BY DEF PeersOK
    <2> DEFINE y == sock[x].peer
    <2>1. /\ x \notin R /\ sock[x].inUse /\ ~\E r \in R : sock[r].peer = x
          /\ sk[x].peer = y /\ sk[x].conn = sock[x].conn
      BY <1>2
    <2>2. y # None /\ y \in Socks
      BY <2>1, Targets
    <2>3. sock[y].inUse /\ sock[y].peer = x /\ sock[y].conn = sock[x].conn
      BY <1>0, <2>1, <2>2 DEF PeersOK
    <2>4. y \notin R
      BY <2>1, <2>3
    <2>5. ~\E r \in R : sock[r].peer = y
      <3> SUFFICES ASSUME NEW r \in R, sock[r].peer = y
                   PROVE  FALSE
        OBVIOUS
      <3>1. sock[y].peer = r
        BY <1>0, <1>1, <1>4, <2>2 DEF PeersOK
      <3> QED
        BY <2>1, <2>3, <3>1
    <2>6. sk[y].inUse /\ sk[y].peer = x /\ sk[y].conn = sock[x].conn
      BY <1>2, <2>2, <2>3, <2>4, <2>5
    <2> QED
      BY <2>1, <2>6
  <1>11. RingsOK(sk)
    <2> SUFFICES ASSUME NEW x \in Socks, sk[x].inUse
                 PROVE  RingOK(sk[x])
      BY DEF RingsOK
    <2>1. x \notin R /\ sock[x].inUse
      BY <1>6
    <2>2. RingOK(sock[x])
      BY <1>0, <2>1 DEF RingsOK
    <2>3. /\ sk[x].ring = sock[x].ring /\ sk[x].conn = sock[x].conn
          /\ sk[x].peer = None \/ sk[x].peer = sock[x].peer
      BY <1>2, <2>1
    <2> QED
      BY <2>2, <2>3 DEF RingOK
  <1>12. ASSUME Held(sock, file), ~Waiting(R) PROVE Held(sk, fl)
    <2> SUFFICES ASSUME NEW x \in Socks, sk[x].inUse
                 PROVE  \/ \E f \in FileIds : fl[f] = x
                        \/ \E l \in Socks : sk[l].inUse /\ \E k \in 1 .. Len(sk[l].backlog) : sk[l].backlog[k] = x
      BY DEF Held
    <2>1. x \notin R /\ sock[x].inUse
      BY <1>6
    <2>2. CASE \E f \in FileIds : file[f] = x
      <3>1. PICK f \in FileIds : file[f] = x
        BY <2>2
      <3>2. f \notin G
        BY <2>1, <3>1
      <3> QED
        BY <1>3, <3>1, <3>2
    <2>3. CASE \E l \in Socks : sock[l].inUse /\ \E k \in 1 .. Len(sock[l].backlog) : sock[l].backlog[k] = x
      <3>1. PICK l \in Socks : sock[l].inUse /\ \E k \in 1 .. Len(sock[l].backlog) : sock[l].backlog[k] = x
        BY <2>3
      <3>2. sock[l].backlog # <<>>
        <4>1. 1 .. Len(<<>>) = {}
          OBVIOUS
        <4> QED
          BY <3>1, <4>1
      <3>3. l \notin R
        BY <1>12, <3>1, <3>2 DEF Waiting
      <3>4. sk[l].inUse /\ sk[l].backlog = sock[l].backlog
        BY <1>2, <3>1, <3>3
      <3> QED
        BY <3>1, <3>4
    <2> QED
      BY <1>12, <2>1, <2>2, <2>3 DEF Held
  <1> QED
    BY <1>8, <1>9, <1>10, <1>11, <1>12 DEF Linked, sk

(* Descriptors go: fd_close, or fd_close_owner at the end of processes. *)
LEMMA CloseToInv ==
  ASSUME IInv, NEW h \in [Pids \X FileIds -> 0 .. NFds], \A e \in Pids \X FileIds : h[e] <= has[e],
         CloseTo(h), LifecycleTypeOK', Departed(h, live')
  PROVE  IInv'
  <1> DEFINE gone == {f \in FileIds : IsOpen(f) /\ \A p \in Pids : h[<<p, f>>] = 0}
             R == {file[f] : f \in gone} \intersect Socks
             fl == [f \in FileIds |-> IF f \in gone THEN None ELSE file[f]]
  <1>1. /\ has' = h /\ file' = fl /\ sock' = Released(R)
        /\ misuse' = IF Waiting(R) THEN misuse \union {"backlog"} ELSE misuse
        /\ conns' = conns /\ carries' = carries
    BY DEF CloseTo
  <1>2. /\ Rest /\ Typed(sock) /\ file \in [FileIds -> Socks \union {None}]
        /\ has \in [Pids \X FileIds -> 0 .. NFds]
        /\ Clean(misuse) => Linked(sock, file)
        /\ misuse = {} => Held(sock, file)
        /\ Opened(has, file)
    BY DEF IInv, Rest
  <1>3. gone \in SUBSET FileIds /\ R \in SUBSET Socks /\ fl \in [FileIds -> Socks \union {None}]
    BY <1>2
  <1>4. Typed(Released(R))
    BY <1>2, <1>3, ReleasedSockets
  <1>5. Linked(sock, file) => /\ Linked(Released(R), fl)
                              /\ Held(sock, file) /\ ~Waiting(R) => Held(Released(R), fl)
    BY <1>2, <1>3, ReleaseLinks
  <1>6. Opened(h, fl)
    <2> SUFFICES ASSUME NEW f \in FileIds
                 PROVE  (\E p \in Pids : h[<<p, f>>] > 0) <=> fl[f] # None
      BY DEF Opened
    <2>0. \A p \in Pids : /\ h[<<p, f>>] \in Nat /\ has[<<p, f>>] \in Nat
                          /\ h[<<p, f>>] <= has[<<p, f>>]
      <3>1. \A p \in Pids : <<p, f>> \in Pids \X FileIds
        OBVIOUS
      <3>2. \A p \in Pids : h[<<p, f>>] \in 0 .. NFds /\ has[<<p, f>>] \in 0 .. NFds
        BY <1>2, <3>1
      <3> QED
        BY <3>1, <3>2, Ranges
    <2>1. CASE f \in gone
      <3>1. \A p \in Pids : ~(h[<<p, f>>] > 0)
        BY <2>0, <2>1
      <3> QED
        BY <2>1, <3>1
    <2>2. CASE f \notin gone /\ IsOpen(f)
      <3>1. PICK p \in Pids : h[<<p, f>>] # 0
        BY <2>2
      <3>2. h[<<p, f>>] > 0
        BY <2>0, <3>1
      <3>3. file[f] # None /\ fl[f] = file[f]
        BY <1>2, <2>2 DEF Opened, IsOpen
      <3> QED
        BY <3>2, <3>3
    <2>3. CASE ~IsOpen(f)
      <3>1. file[f] = None /\ fl[f] = None
        BY <1>2, <2>3 DEF Opened, IsOpen
      <3>2. \A p \in Pids : ~(has[<<p, f>>] > 0)
        BY <2>3 DEF IsOpen
      <3>3. \A p \in Pids : ~(h[<<p, f>>] > 0)
        BY <2>0, <3>2
      <3> QED
        BY <3>1, <3>3
    <2> QED
      BY <2>1, <2>2, <2>3
  <1> HIDE DEF gone, R, fl
  <1>7. /\ misuse' \subseteq Misuses /\ (Clean(misuse') => Clean(misuse))
        /\ (misuse' = {} => misuse = {} /\ ~Waiting(R) /\ Clean(misuse))
    BY <1>1, <1>2 DEF Rest, Misuses, Clean
  <1>8. Rest'
    BY <1>1, <1>2, <1>3, <1>7 DEF Rest
  <1>9. /\ Clean(misuse') => Linked(Released(R), fl)
        /\ misuse' = {} => Held(Released(R), fl)
    BY <1>2, <1>5, <1>7
  <1>10. Typed(sock') /\ (Clean(misuse') => Linked(sock', file')) /\ (misuse' = {} => Held(sock', file'))
    BY <1>1, <1>4, <1>9
  <1>11. Opened(has', file') /\ Departed(has', live')
    BY <1>1, <1>6
  <1> QED
    BY <1>8, <1>10, <1>11 DEF IInv

(* fd_close *)
LEMMA CloseInv ==
  ASSUME IInv, NEW p \in live, NEW f \in FileIds, Close(p, f)
  PROVE  IInv'
  <1> DEFINE h == [has EXCEPT ![<<p, f>>] = @ - 1]
  <1>1. has[<<p, f>>] > 0 /\ CloseTo(h) /\ UNCHANGED <<live, incarnation>>
    BY DEF Close
  <1>2. /\ has \in [Pids \X FileIds -> 0 .. NFds] /\ Departed(has, live)
        /\ LifecycleTypeOK /\ p \in Pids
    BY DEF IInv, Rest, LifecycleTypeOK
  <1>3. /\ h \in [Pids \X FileIds -> 0 .. NFds]
        /\ \A e \in Pids \X FileIds : h[e] <= has[e]
        /\ \A e \in Pids \X FileIds : e # <<p, f>> => h[e] = has[e]
    <2>1. <<p, f>> \in Pids \X FileIds
      BY <1>2
    <2>2. has[<<p, f>>] - 1 \in 0 .. NFds /\ has[<<p, f>>] - 1 <= has[<<p, f>>]
      BY <1>1, <1>2, <2>1, Ranges
    <2>3. \A e \in Pids \X FileIds : has[e] <= has[e]
      BY <1>2, Ranges
    <2> QED
      BY <1>2, <2>1, <2>2, <2>3
  <1> HIDE DEF h
  <1>4. Departed(h, live')
    BY <1>1, <1>2, <1>3 DEF Departed
  <1>5. LifecycleTypeOK'
    BY <1>1, <1>2 DEF LifecycleTypeOK
  <1> QED
    BY <1>1, <1>3, <1>4, <1>5, CloseToInv

(* The end of processes *)
LEMMA ExitInv ==
  ASSUME IInv, NEW S \in SUBSET Pids, Exit(S)
  PROVE  IInv'
  <1> DEFINE h == [e \in Pids \X FileIds |-> IF e[1] \in S THEN 0 ELSE has[e]]
  <1>1. CloseTo(h) /\ live' = live \ S /\ incarnation' = incarnation
    BY DEF Exit, End
  <1>2. /\ has \in [Pids \X FileIds -> 0 .. NFds] /\ Departed(has, live) /\ LifecycleTypeOK
    BY DEF IInv, Rest
  <1>3. /\ h \in [Pids \X FileIds -> 0 .. NFds]
        /\ \A e \in Pids \X FileIds : h[e] <= has[e]
        /\ \A x \in Pids, y \in FileIds : h[<<x, y>>] = IF x \in S THEN 0 ELSE has[<<x, y>>]
    BY <1>2, Ranges
  <1> HIDE DEF h
  <1>4. Departed(h, live')
    BY <1>1, <1>2, <1>3 DEF Departed
  <1>5. LifecycleTypeOK'
    BY <1>1, <1>2 DEF LifecycleTypeOK
  <1> QED
    BY <1>1, <1>3, <1>4, <1>5, CloseToInv

(* A new process, with the descriptors of its parent or with none: every    *)
(* file that it gets is open already.                                       *)
LEMMA SpawnExecInv ==
  ASSUME IInv, NEW p \in Pids, Spawn(p) \/ \E q \in live : Exec(q, p)
  PROVE  IInv'
  <1>1. /\ p \notin live /\ incarnation[p] < MaxSpawns /\ live' = live \union {p}
        /\ incarnation' = [incarnation EXCEPT ![p] = @ + 1]
        /\ UNCHANGED <<sock, file, conns, misuse, carries>>
    BY DEF Spawn, Exec, Begin, FirstFree
  <1>2. /\ Rest /\ Typed(sock) /\ Opened(has, file) /\ Departed(has, live)
        /\ Clean(misuse) => Linked(sock, file)
        /\ misuse = {} => Held(sock, file)
        /\ has \in [Pids \X FileIds -> 0 .. NFds] /\ live \subseteq Pids
        /\ incarnation \in [Pids -> 0 .. MaxSpawns]
    BY DEF IInv, Rest, LifecycleTypeOK
  <1>3. LifecycleTypeOK'
    BY <1>1, <1>2, LifecycleAssumption DEF LifecycleTypeOK
  <1>4. has' \in [Pids \X FileIds -> 0 .. NFds] /\ Opened(has', file) /\ Departed(has', live')
    <2>1. CASE Spawn(p)
      BY <1>1, <1>2, <2>1 DEF Spawn, Departed
    <2>2. CASE \E q \in live : Exec(q, p)
      <3>1. PICK q \in live : has' = [e \in Pids \X FileIds |-> IF e[1] = p THEN has[<<q, e[2]>>] ELSE has[e]]
        BY <2>2 DEF Exec
      <3>2. /\ has' \in [Pids \X FileIds -> 0 .. NFds]
            /\ \A x \in Pids, y \in FileIds : has'[<<x, y>>] = IF x = p THEN has[<<q, y>>] ELSE has[<<x, y>>]
        BY <1>2, <3>1
      <3>3. Departed(has', live')
        BY <1>1, <1>2, <3>2 DEF Departed
      <3>4. Opened(has', file)
        <4> SUFFICES ASSUME NEW y \in FileIds
                     PROVE  (\E x \in Pids : has'[<<x, y>>] > 0) <=> (\E x \in Pids : has[<<x, y>>] > 0)
          BY <1>2 DEF Opened
        <4>1. ASSUME NEW x \in Pids, has'[<<x, y>>] > 0 PROVE \E z \in Pids : has[<<z, y>>] > 0
          BY <1>2, <3>2, <4>1
        <4>2. ASSUME NEW x \in Pids, has[<<x, y>>] > 0 PROVE \E z \in Pids : has'[<<z, y>>] > 0
          <5>1. has[<<p, y>>] = 0 /\ ~(0 > 0)
            BY <1>1, <1>2 DEF Departed
          <5>2. x # p
            BY <4>2, <5>1
          <5> QED
            BY <3>2, <4>2, <5>2
        <4> QED
          BY <4>1, <4>2
      <3> QED
        BY <3>2, <3>3, <3>4
    <2> QED
      BY <2>1, <2>2
  <1>5. Rest'
    BY <1>1, <1>2, <1>3, <1>4 DEF Rest
  <1> QED
    BY <1>1, <1>2, <1>4, <1>5 DEF IInv

-----------------------------------------------------------------------------
(* Every step keeps the invariant. *)
LEMMA NextInv == IInv /\ [Next]_vars => IInv'
  <1> SUFFICES ASSUME IInv, [Next]_vars
               PROVE  IInv'
    OBVIOUS
  <1>0. live \subseteq Pids
    BY DEF IInv, Rest, LifecycleTypeOK
  <1>1. ASSUME NEW p \in live, Making(p) PROVE IInv'
    BY <1>1, CreateInv, PairFailsInv, PairInv DEF Making
  <1>2. ASSUME NEW p \in live, NEW f \in FileIds, NEW s, Using(p, f, s) PROVE IInv'
    <2>0. p \in Pids
      BY <1>0
    <2>1. CASE Bind(p, f, s) \/ Listen(p, f, s)
      BY <2>0, <2>1, BindListenInv
    <2>2. CASE AcceptFails(p, f, s)
      BY <2>0, <2>2, AcceptFailsInv
    <2>3. CASE \E l \in First(Listeners), t \in First(FreeSocks) : Connect(p, f, s, l, t)
      BY <2>0, <2>3, ConnectInv
    <2>4. CASE \E g \in First(FreeFiles) : Accept(p, f, s, g)
      BY <2>4, AcceptInv
    <2>5. CASE Send(p, f, s) \/ Recv(p, f, s)
      BY <2>0, <2>5, SendInv, RecvInv
    <2>6. CASE RecvFile(p, f, s) \/ \E g \in FileIds : SendFile(p, f, s, g)
      BY <2>0, <2>6, RecvFileInv, SendFileInv
    <2> QED
      BY <1>2, <2>1, <2>2, <2>3, <2>4, <2>5, <2>6 DEF Using
  <1>3. ASSUME NEW p \in live, NEW f \in FileIds, Close(p, f) PROVE IInv'
    BY <1>3, CloseInv
  <1>4. ASSUME NEW p \in Pids, Spawn(p) \/ \E q \in live : Exec(q, p) PROVE IInv'
    BY <1>4, SpawnExecInv
  <1>5. ASSUME NEW S \in SUBSET Pids, Exit(S) PROVE IInv'
    BY <1>5, ExitInv
  <1>6. CASE UNCHANGED vars
    BY <1>6 DEF vars, IInv, Rest, LifecycleTypeOK
  <1> QED
    BY <1>1, <1>2, <1>3, <1>4, <1>5, <1>6 DEF Next

-----------------------------------------------------------------------------
(* Theorems *)

(* The inductive invariant holds of every reachable state.                  *)
THEOREM Invariance == Spec => []IInv
  BY InitInv, NextInv, PTL DEF Spec

(* Peers point at each other whichever end is closed first and whichever    *)
(* slots are reused, as long as no program connects twice and socketpair    *)
(* does not run out of descriptors half-way: unix_socket_release always     *)
(* finds the other end.                                                     *)
THEOREM PeersAreMutual == Spec => []Mutual
  BY Invariance, Follows, PTL

(* Every socket in use is behind exactly one open file or in exactly one    *)
(* backlog, so it can still be closed, until a backlog is given up.         *)
THEOREM SocketsAreReachable == Spec => []Reachable
  BY Invariance, Follows, PTL

(* Whatever files are passed, closed and reused, an open file names a       *)
(* socket in use, and rings, queues, backlogs and descriptor tables stay    *)
(* within their sizes.                                                      *)
THEOREM FilesAreLive == Spec => []FilesNameSockets
  BY Invariance, Follows, PTL

(* A socket only holds bytes of its own connection, though slots and rings  *)
(* are reused and bytes outlive the sender.                                 *)
THEOREM BytesAreOwn == Spec => []OwnBytes
  BY Invariance, Follows, PTL
=============================================================================
