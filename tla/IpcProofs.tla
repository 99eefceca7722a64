----------------------------- MODULE IpcProofs -----------------------------
(***************************************************************************)
(* Proofs about Ipc, for every number of processes and message types and   *)
(* every depth of the queues.                                              *)
(***************************************************************************)
EXTENDS Ipc, FiniteSetTheorems, SequenceTheorems, TLAPS

(* A message of a queue of r: both its ends are the ones it was sent by and  *)
(* to, and its number is new to r.                                           *)
Fine(m, r, d, n, L, inc) ==
    /\ {r, m.sender} \subseteq L
    /\ m.from = inc[m.sender]
    /\ m.to = inc[r]
    /\ m.number <= n
    /\ d[<<r, m.sender, m.type>>] < m.number

(* The queue q of r, with d delivered and n messages sent. *)
Good(q, r, d, n, L, inc) ==
    /\ q \in Seq(Messages)
    /\ Len(q) <= Depth
    /\ \A i \in 1 .. Len(q) : Fine(q[i], r, d, n, L, inc)
    /\ \A i, j \in 1 .. Len(q) : j < i => q[j].number < q[i].number

(* Everything but the queues: a PID that exists has held a program, and no   *)
(* number is delivered before it is given out.                               *)
Rest ==
    /\ LifecycleTypeOK
    /\ \A p \in live : incarnation[p] >= 1
    /\ lastSender \in [Pids -> Pids \union {None}]
    /\ sends \in 0 .. MaxSends
    /\ delivered \in [Pids \X Pids \X MsgTypes -> 0 .. MaxSends]
    /\ \A k \in Pids \X Pids \X MsgTypes : delivered[k] <= sends

IInv ==
    /\ Rest
    /\ queue \in [Pids -> Seq(Messages)]
    /\ \A r \in Pids : Good(queue[r], r, delivered, sends, live, incarnation)

-----------------------------------------------------------------------------
(* Compaction *)

(* The slots of kept messages are their ranks: they rise with the index, and *)
(* every slot up to the number of kept messages is taken.                    *)
LEMMA SlotProperties ==
  ASSUME NEW n \in Nat, NEW K \in SUBSET (1 .. n)
  PROVE  /\ IsFiniteSet(K) /\ Cardinality(K) \in 0 .. n
         /\ \A i \in K : Slot(K, i) \in 1 .. Cardinality(K)
         /\ \A i, j \in K : i < j => Slot(K, i) < Slot(K, j)
         /\ \A k \in 1 .. Cardinality(K) : \E i \in K : Slot(K, i) = k
  <1> DEFINE c == Cardinality(K)
             Upto(i) == {j \in K : j <= i}
  <1>0. \A i \in K : i \in Int
    OBVIOUS
  <1>1. IsFiniteSet(1 .. n) /\ Cardinality(1 .. n) = n
    BY FS_Interval
  <1>2. IsFiniteSet(K) /\ c \in Nat /\ c <= n
    BY <1>1, FS_Subset, FS_CardinalityType
  <1>3. \A i : Upto(i) \subseteq K
    OBVIOUS
  <1>4. \A i : IsFiniteSet(Upto(i)) /\ Cardinality(Upto(i)) \in Nat /\ Cardinality(Upto(i)) <= c
    <2> SUFFICES ASSUME NEW i
                 PROVE  IsFiniteSet(Upto(i)) /\ Cardinality(Upto(i)) \in Nat /\ Cardinality(Upto(i)) <= c
      OBVIOUS
    <2> DEFINE U == Upto(i)
    <2>1. U \in SUBSET K
      OBVIOUS
    <2> HIDE DEF U
    <2>2. IsFiniteSet(U) /\ Cardinality(U) <= Cardinality(K)
      BY <2>1, <1>2, FS_Subset
    <2>3. Cardinality(U) \in Nat
      BY <2>2, FS_CardinalityType
    <2> QED
      BY <2>2, <2>3 DEF U
  <1>5. \A i, j \in K : i < j => Cardinality(Upto(i)) < Cardinality(Upto(j))
    <2> SUFFICES ASSUME NEW i \in K, NEW j \in K, i < j
                 PROVE  Cardinality(Upto(i)) < Cardinality(Upto(j))
      OBVIOUS
    <2> DEFINE U == Upto(i)
               V == Upto(j)
    <2>1. i \in Int /\ j \in Int
      BY <1>0
    <2>2. U \in SUBSET V /\ j \in V /\ j \notin U
      <3>1. \A x \in K : x <= i => x <= j
        BY <2>1, <1>0
      <3>2. ~(j <= i) /\ j <= j
        BY <2>1
      <3> QED
        BY <3>1, <3>2
    <2>3. IsFiniteSet(U) /\ IsFiniteSet(V) /\ Cardinality(U) \in Nat /\ Cardinality(V) \in Nat
      BY <1>4
    <2> HIDE DEF U, V
    <2>4. Cardinality(U) <= Cardinality(V) /\ (Cardinality(V) = Cardinality(U) => V = U)
      BY <2>2, <2>3, FS_Subset
    <2>5. Cardinality(U) < Cardinality(V)
      BY <2>2, <2>3, <2>4
    <2> QED
      BY <2>5 DEF U, V
  <1>6. \A i \in K : Cardinality(Upto(i)) >= 1
    <2> SUFFICES ASSUME NEW i \in K
                 PROVE  Cardinality(Upto(i)) >= 1
      OBVIOUS
    <2> DEFINE U == Upto(i)
    <2>1. i \in U
      OBVIOUS
    <2>2. IsFiniteSet(U) /\ Cardinality(U) \in Nat
      BY <1>4
    <2> HIDE DEF U
    <2>3. Cardinality(U) # 0
      BY <2>1, <2>2, FS_EmptySet
    <2>4. Cardinality(U) >= 1
      BY <2>2, <2>3
    <2> QED
      BY <2>4 DEF U
  <1>7. \A k \in 1 .. c : \E i \in K : Cardinality(Upto(i)) = k
    <2> DEFINE f == [i \in K |-> Cardinality(Upto(i))]
    <2>1. f \in [K -> 1 .. c]
      BY <1>2, <1>4, <1>6
    <2>2. \A i, j \in K : f[i] = f[j] => i = j
      <3> SUFFICES ASSUME NEW i \in K, NEW j \in K, i # j
                   PROVE  f[i] # f[j]
        OBVIOUS
      <3>1. i \in Int /\ j \in Int /\ f[i] \in Nat /\ f[j] \in Nat
        BY <1>4
      <3>2. i < j \/ j < i
        BY <3>1
      <3>3. f[i] < f[j] \/ f[j] < f[i]
        BY <3>2, <1>5
      <3> QED
        BY <3>1, <3>3
    <2> HIDE DEF f
    <2>3. f \in Injection(K, 1 .. c)
      BY <2>1, <2>2 DEF Injection, IsInjective
    <2>4. IsFiniteSet(1 .. c) /\ Cardinality(1 .. c) = c
      BY <1>2, FS_Interval
    <2>5. f \in Surjection(K, 1 .. c)
      BY <2>3, <2>4, FS_Injection
    <2>6. \A k \in 1 .. c : \E i \in K : f[i] = k
      BY <2>5 DEF Surjection
    <2> QED
      BY <2>6 DEF f
  <1> QED
    BY <1>2, <1>4, <1>5, <1>6, <1>7 DEF Slot

(* What compaction keeps, it keeps in order, and it keeps all of K. *)
LEMMA CompactProperties ==
  ASSUME NEW M, NEW q \in Seq(M), NEW K \in SUBSET (1 .. Len(q))
  PROVE  /\ Compact(q, K) \in Seq(M)
         /\ Len(Compact(q, K)) <= Len(q)
         /\ \E at \in [1 .. Len(Compact(q, K)) -> K] :
               /\ \A k \in 1 .. Len(Compact(q, K)) : Compact(q, K)[k] = q[at[k]]
               /\ \A j, k \in 1 .. Len(Compact(q, K)) : j < k => at[j] < at[k]
               /\ \A i \in K : \E k \in 1 .. Len(Compact(q, K)) : at[k] = i
  <1> DEFINE c == Cardinality(K)
             Kept(k) == CHOOSE i \in K : Slot(K, i) = k
             at == [k \in 1 .. c |-> Kept(k)]
             t == Compact(q, K)
  <1>0. Len(q) \in Nat /\ \A i \in 1 .. Len(q) : q[i] \in M
    OBVIOUS
  <1>1. Len(q) \in Nat /\ \A i \in K : q[i] \in M /\ i \in Int
    BY <1>0
  <1>2. /\ c \in Nat /\ c <= Len(q)
        /\ \A i \in K : Slot(K, i) \in 1 .. c
        /\ \A i, j \in K : i < j => Slot(K, i) < Slot(K, j)
        /\ \A k \in 1 .. c : \E i \in K : Slot(K, i) = k
    BY <1>1, SlotProperties
  <1>3. \A k \in 1 .. c : Kept(k) \in K /\ Slot(K, Kept(k)) = k
    BY <1>2
  <1>4. t = [k \in 1 .. c |-> q[Kept(k)]]
    BY DEF Compact
  <1> HIDE DEF c, Kept, t
  <1>5. at \in [1 .. c -> K] /\ \A k \in 1 .. c : at[k] = Kept(k)
    BY <1>3
  <1>6. t \in Seq(M) /\ Len(t) = c
    <2>1. \A k \in 1 .. c : q[Kept(k)] \in M
      BY <1>1, <1>3
    <2> QED
      BY <2>1, <1>2, <1>4
  <1>7. \A k \in 1 .. c : t[k] = q[at[k]]
    BY <1>4, <1>5
  <1> HIDE DEF at
  <1>8. \A k \in 1 .. c : at[k] \in K /\ at[k] \in Int /\ Slot(K, at[k]) = k
    BY <1>1, <1>3, <1>5
  <1>9. \A j, k \in 1 .. c : j < k => at[j] < at[k]
    <2> SUFFICES ASSUME NEW j \in 1 .. c, NEW k \in 1 .. c, j < k, ~(at[j] < at[k])
                 PROVE  FALSE
      OBVIOUS
    <2>1. at[k] = at[j] \/ at[k] < at[j]
      BY <1>8
    <2>2. at[k] < at[j] => Slot(K, at[k]) < Slot(K, at[j])
      BY <1>2, <1>8
    <2> QED
      BY <2>1, <2>2, <1>2, <1>8
  <1>10. \A i \in K : \E k \in 1 .. c : at[k] = i
    <2> SUFFICES ASSUME NEW i \in K
                 PROVE  \E k \in 1 .. c : at[k] = i
      OBVIOUS
    <2> DEFINE k == Slot(K, i)
    <2>1. k \in 1 .. c
      BY <1>2
    <2>2. at[k] \in K /\ at[k] \in Int /\ i \in Int /\ Slot(K, at[k]) = k
      BY <2>1, <1>1, <1>8
    <2>3. ~(at[k] < i) /\ ~(i < at[k])
      <3>1. at[k] < i => Slot(K, at[k]) < Slot(K, i)
        BY <1>2, <2>2
      <3>2. i < at[k] => Slot(K, i) < Slot(K, at[k])
        BY <1>2, <2>2
      <3> HIDE DEF k
      <3>3. k \in Int /\ Slot(K, i) = k
        BY <1>2, <2>1 DEF k
      <3> QED
        BY <3>1, <3>2, <3>3, <2>2
    <2>4. at[k] = i
      <3> HIDE DEF k
      <3> QED
        BY <2>2, <2>3
    <2> QED
      BY <2>1, <2>4
  <1>11. t = Compact(q, K)
    BY DEF t
  <1> QED
    BY <1>2, <1>5, <1>6, <1>7, <1>9, <1>10, <1>11

(* An empty queue is good. *)
LEMMA EmptyGood == \A r, d, n, L, inc : Good(<<>>, r, d, n, L, inc)
  <1>1. <<>> \in Seq(Messages) /\ Len(<<>>) = 0 /\ 1 .. Len(<<>>) = {}
    OBVIOUS
  <1>2. 0 <= Depth
    BY IpcAssumption
  <1>3. Len(<<>>) <= Depth
    BY <1>1, <1>2
  <1> QED
    BY <1>1, <1>3 DEF Good

(* What is left when the i-th message is taken out. *)
LEMMA RemoveAtProperties ==
  ASSUME NEW M, NEW q \in Seq(M), NEW i \in 1 .. Len(q)
  PROVE  /\ RemoveAt(q, i) \in Seq(M)
         /\ Len(RemoveAt(q, i)) = Len(q) - 1
         /\ \A k \in 1 .. Len(q) - 1 : RemoveAt(q, i)[k] = IF k < i THEN q[k] ELSE q[k + 1]
  <1> DEFINE n == Len(q)
             a == SubSeq(q, 1, i - 1)
             b == SubSeq(q, i + 1, n)
  <1>1. n \in Nat /\ i \in Nat /\ 1 <= i /\ i <= n
    OBVIOUS
  <1>2. a \in Seq(M) /\ Len(a) = i - 1 /\ \A k \in 1 .. i - 1 : a[k] = q[k]
    BY <1>1, SubSeqProperties
  <1>3. b \in Seq(M) /\ Len(b) = n - i /\ \A k \in 1 .. n - i : b[k] = q[i + k]
    BY <1>1, SubSeqProperties
  <1>4. RemoveAt(q, i) = a \o b
    BY DEF RemoveAt
  <1> HIDE DEF a, b, n
  <1>5. /\ a \o b \in Seq(M) /\ Len(a \o b) = n - 1
        /\ \A k \in 1 .. n - 1 : (a \o b)[k] = IF k < i THEN a[k] ELSE b[k - (i - 1)]
    <2>1. /\ a \o b \in Seq(M) /\ Len(a \o b) = Len(a) + Len(b)
          /\ \A k \in 1 .. Len(a) + Len(b) : (a \o b)[k] = IF k <= Len(a) THEN a[k] ELSE b[k - Len(a)]
      BY <1>2, <1>3, ConcatProperties
    <2> QED
      BY <2>1, <1>1, <1>2, <1>3
  <1>6. \A k \in 1 .. n - 1 : (a \o b)[k] = IF k < i THEN q[k] ELSE q[k + 1]
    BY <1>1, <1>2, <1>3, <1>5
  <1> QED
    BY <1>4, <1>5, <1>6 DEF n

(* A queue that keeps some of the messages of q in their order is good when  *)
(* each of them is fine.                                                     *)
LEMMA GoodSelection ==
  ASSUME NEW q \in Seq(Messages), NEW t \in Seq(Messages), NEW K \in SUBSET (1 .. Len(q)),
         NEW at \in [1 .. Len(t) -> K],
         NEW r, NEW d, NEW n, NEW L, NEW inc,
         Len(t) <= Len(q), Len(q) <= Depth,
         \A k \in 1 .. Len(t) : t[k] = q[at[k]],
         \A j, k \in 1 .. Len(t) : j < k => at[j] < at[k],
         \A i, j \in 1 .. Len(q) : j < i => q[j].number < q[i].number,
         \A i \in K : Fine(q[i], r, d, n, L, inc)
  PROVE  Good(t, r, d, n, L, inc)
  <1>1. Len(t) <= Depth
    <2>1. Len(t) \in Nat /\ Len(q) \in Nat /\ Depth \in Nat
      BY IpcAssumption
    <2> QED
      BY <2>1
  <1>2. \A k \in 1 .. Len(t) : at[k] \in K /\ at[k] \in 1 .. Len(q)
    OBVIOUS
  <1>3. \A k \in 1 .. Len(t) : Fine(t[k], r, d, n, L, inc)
    BY <1>2
  <1>4. \A i, j \in 1 .. Len(t) : j < i => t[j].number < t[i].number
    BY <1>2
  <1> QED
    BY <1>1, <1>3, <1>4 DEF Good

-----------------------------------------------------------------------------
(* The steps *)

(* The properties follow from the invariant. *)
LEMMA Follows == IInv => NoDeadLetters /\ InOrder
  <1> SUFFICES ASSUME IInv
               PROVE  NoDeadLetters /\ InOrder
    OBVIOUS
  <1>1. \A r \in Pids : /\ queue[r] \in Seq(Messages)
                        /\ Len(queue[r]) <= Depth
                        /\ \A i \in 1 .. Len(queue[r]) :
                              Fine(queue[r][i], r, delivered, sends, live, incarnation)
                        /\ \A i, j \in 1 .. Len(queue[r]) :
                              j < i => queue[r][j].number < queue[r][i].number
    BY DEF IInv, Good
  <1>2. NoDeadLetters
    BY <1>1 DEF NoDeadLetters, Fine
  <1>3. \A r \in Pids : \A i \in 1 .. Len(queue[r]) : queue[r][i] \in Messages
    BY <1>1
  <1>4. TypeOK
    BY <1>1, <1>3 DEF TypeOK, IInv, Rest
  <1>5. \A r \in Pids : Len(queue[r]) \in Nat
    BY <1>1
  <1>6. \A r \in Pids : \A i \in 1 .. Len(queue[r]) : \A j \in 1 .. i - 1 :
            j \in 1 .. Len(queue[r]) /\ j < i
    BY <1>5
  <1>7. \A r \in Pids : \A i \in 1 .. Len(queue[r]) :
           LET m == queue[r][i]
           IN  /\ delivered[<<r, m.sender, m.type>>] < m.number
               /\ \A j \in 1 .. i - 1 : queue[r][j].number < m.number
    BY <1>1, <1>6 DEF Fine
  <1> QED
    BY <1>2, <1>4, <1>7 DEF InOrder

(* ipc_init *)
LEMMA InitInv == Init => IInv
  <1> SUFFICES ASSUME Init
               PROVE  IInv
    OBVIOUS
  <1>1. Depth \in Nat /\ MaxSends \in Nat /\ MaxSpawns \in Nat
    BY IpcAssumption, LifecycleAssumption
  <1>2. Rest
    BY <1>1 DEF Rest, Init, LifecycleInit, LifecycleTypeOK
  <1>3. \A r \in Pids : queue[r] = <<>>
    BY DEF Init
  <1>4. <<>> \in Seq(Messages) /\ Len(<<>>) = 0
    OBVIOUS
  <1>5. \A r \in Pids : Good(queue[r], r, delivered, sends, live, incarnation)
    BY <1>3, EmptyGood
  <1>6. queue \in [Pids -> Seq(Messages)]
    BY <1>4 DEF Init
  <1> QED
    BY <1>2, <1>5, <1>6 DEF IInv

(* ipc_send_typed *)
LEMMA SendInv ==
  ASSUME IInv, NEW s \in Pids, NEW r \in Pids, NEW ty \in MsgTypes, Send(s, r, ty)
  PROVE  IInv'
  <1> DEFINE m == [sender |-> s, type |-> ty, number |-> sends + 1,
                   from |-> incarnation[s], to |-> incarnation[r]]
             q == queue[r]
             t == Append(q, m)
             N == sends + 1
  <1>0. MaxSends \in Nat /\ MaxSpawns \in Nat /\ Depth \in Nat
    BY IpcAssumption, LifecycleAssumption
  <1>1. /\ Rest /\ queue \in [Pids -> Seq(Messages)]
        /\ \A p \in Pids : Good(queue[p], p, delivered, sends, live, incarnation)
    BY DEF IInv
  <1>2. /\ {s, r} \subseteq live /\ Len(q) < Depth /\ sends < MaxSends /\ sends' = N
        /\ queue' = [queue EXCEPT ![r] = t]
        /\ lastSender' = lastSender /\ delivered' = delivered
        /\ live' = live /\ incarnation' = incarnation
    BY DEF Send
  <1>3. /\ sends \in Nat /\ N \in 1 .. MaxSends /\ sends < N
        /\ incarnation[s] \in 1 .. MaxSpawns /\ incarnation[r] \in 1 .. MaxSpawns
    BY <1>0, <1>1, <1>2 DEF Rest, LifecycleTypeOK
  <1>4. m \in Messages
    BY <1>3 DEF Messages
  <1>5. /\ m.sender = s /\ m.type = ty /\ m.number = N
        /\ m.from = incarnation[s] /\ m.to = incarnation[r]
    OBVIOUS
  <1>6. Fine(m, r, delivered, N, live, incarnation)
    <2>1. <<r, s, ty>> \in Pids \X Pids \X MsgTypes
      OBVIOUS
    <2>2. delivered[<<r, s, ty>>] <= sends /\ delivered[<<r, s, ty>>] \in Nat
      BY <1>0, <1>1, <2>1 DEF Rest
    <2> HIDE DEF m, N
    <2>3. N \in Nat
      BY <1>3, <1>0
    <2> QED
      BY <1>2, <1>3, <1>5, <2>2, <2>3 DEF Fine
  <1>7. \A x \in Messages : x.number \in Nat
    BY <1>0 DEF Messages
  <1> HIDE DEF m, N
  <1>8. \A p \in Pids : \A x \in Messages :
           Fine(x, p, delivered, sends, live, incarnation) => Fine(x, p, delivered, N, live, incarnation)
    BY <1>0, <1>3, <1>7 DEF Fine
  <1>9. \A p \in Pids : Good(queue[p], p, delivered, N, live, incarnation)
    <2> SUFFICES ASSUME NEW p \in Pids
                 PROVE  Good(queue[p], p, delivered, N, live, incarnation)
      OBVIOUS
    <2>1. \A i \in 1 .. Len(queue[p]) : queue[p][i] \in Messages
      BY <1>1 DEF Good
    <2> QED
      BY <1>1, <1>8, <2>1 DEF Good
  <1>10. Good(t, r, delivered, N, live, incarnation)
    <2>1. q \in Seq(Messages) /\ Good(q, r, delivered, sends, live, incarnation)
      BY <1>1
    <2> HIDE DEF q
    <2>2. Len(q) \in Nat /\ \A i \in 1 .. Len(q) : q[i] \in Messages
      BY <2>1
    <2>3. /\ t \in Seq(Messages) /\ Len(t) = Len(q) + 1 /\ t[Len(q) + 1] = m
          /\ \A i \in 1 .. Len(q) : t[i] = q[i]
      BY <2>1, <1>4
    <2> HIDE DEF t
    <2>4. \A i \in 1 .. Len(q) : Fine(q[i], r, delivered, sends, live, incarnation)
      BY <2>1 DEF Good
    <2>5. \A i \in 1 .. Len(q) : Fine(q[i], r, delivered, N, live, incarnation)
      BY <2>2, <2>4, <1>8
    <2>6. \A i \in 1 .. Len(t) : i \in 1 .. Len(q) \/ i = Len(q) + 1
      BY <2>2, <2>3
    <2>7. \A i \in 1 .. Len(t) : Fine(t[i], r, delivered, N, live, incarnation)
      BY <2>3, <2>5, <2>6, <1>6
    <2>8. \A i \in 1 .. Len(q) : q[i].number < N
      <3>1. \A i \in 1 .. Len(q) : q[i].number <= sends
        BY <2>4 DEF Fine
      <3>2. \A i \in 1 .. Len(q) : q[i].number \in Nat
        BY <2>2, <1>7
      <3>3. N \in Nat
        BY <1>0, <1>3
      <3> QED
        BY <3>1, <3>2, <3>3, <1>3
    <2>9. \A i, j \in 1 .. Len(t) : j < i => t[j].number < t[i].number
      <3> SUFFICES ASSUME NEW i \in 1 .. Len(t), NEW j \in 1 .. Len(t), j < i
                   PROVE  t[j].number < t[i].number
        OBVIOUS
      <3>1. j \in 1 .. Len(q)
        BY <2>2, <2>3
      <3>2. CASE i = Len(q) + 1
        BY <3>1, <3>2, <2>3, <2>8, <1>5
      <3>3. CASE i \in 1 .. Len(q)
        BY <3>1, <3>3, <2>1, <2>3 DEF Good
      <3> QED
        BY <3>2, <3>3, <2>6
    <2>10. Len(t) <= Depth
      BY <1>0, <1>2, <2>2, <2>3 DEF q
    <2> QED
      BY <2>3, <2>7, <2>9, <2>10 DEF Good
  <1>11. t \in Seq(Messages)
    BY <1>10 DEF Good
  <1> HIDE DEF t
  <1>12. queue' \in [Pids -> Seq(Messages)]
    BY <1>1, <1>2, <1>11
  <1>13. \A p \in Pids : Good(queue'[p], p, delivered, N, live, incarnation)
    BY <1>1, <1>2, <1>9, <1>10
  <1>14. Rest'
    BY <1>0, <1>1, <1>2, <1>3 DEF Rest, LifecycleTypeOK
  <1> QED
    BY <1>2, <1>12, <1>13, <1>14 DEF IInv

(* ipc_receive_typed.  A message of the same sender and type as the one      *)
(* taken passes the same filter, so it does not come before it.              *)
LEMMA ReceiveInv ==
  ASSUME IInv, NEW r \in Pids, NEW from \in Pids \union {None}, NEW ty \in MsgTypes \union {None},
         Receive(r, from, ty)
  PROVE  IInv'
  <1> DEFINE q == queue[r]
  <1>0. MaxSends \in Nat /\ Depth \in Nat
    BY IpcAssumption
  <1>1. /\ Rest /\ queue \in [Pids -> Seq(Messages)]
        /\ \A p \in Pids : Good(queue[p], p, delivered, sends, live, incarnation)
    BY DEF IInv
  <1>2. PICK i \in 1 .. Len(q) :
           /\ FirstMatch(r, i, from, ty)
           /\ queue' = [queue EXCEPT ![r] = RemoveAt(q, i)]
           /\ lastSender' = [lastSender EXCEPT ![r] = q[i].sender]
           /\ delivered' = [delivered EXCEPT ![<<r, q[i].sender, q[i].type>>] = q[i].number]
    BY DEF Receive
  <1>3. sends' = sends /\ live' = live /\ incarnation' = incarnation
    BY DEF Receive
  <1> DEFINE m == q[i]
             t == RemoveAt(q, i)
             D == [delivered EXCEPT ![<<r, m.sender, m.type>>] = m.number]
             K == (1 .. Len(q)) \ {i}
  <1>4. /\ q \in Seq(Messages) /\ Len(q) \in Nat /\ Len(q) <= Depth
        /\ \A j \in 1 .. Len(q) : q[j] \in Messages
        /\ \A j \in 1 .. Len(q) : Fine(q[j], r, delivered, sends, live, incarnation)
        /\ \A j, k \in 1 .. Len(q) : k < j => q[k].number < q[j].number
    BY <1>1 DEF Good
  <1>5. \A x \in Messages : x.number \in 1 .. MaxSends /\ x.sender \in Pids /\ x.type \in MsgTypes
    BY DEF Messages
  <1>6. m \in Messages /\ m.number \in 1 .. MaxSends /\ m.number <= sends
    BY <1>4, <1>5 DEF Fine
  <1>7. \A j \in 1 .. i - 1 : ~(q[j].sender = m.sender /\ q[j].type = m.type)
    BY <1>2 DEF FirstMatch, Matches
  <1>8. \A j \in K : Fine(q[j], r, D, sends, live, incarnation)
    <2> SUFFICES ASSUME NEW j \in K
                 PROVE  Fine(q[j], r, D, sends, live, incarnation)
      OBVIOUS
    <2>1. j \in 1 .. Len(q) /\ j # i /\ q[j] \in Messages
      BY <1>4
    <2>2. Fine(q[j], r, delivered, sends, live, incarnation)
      BY <1>4, <2>1
    <2>3. <<r, q[j].sender, q[j].type>> \in Pids \X Pids \X MsgTypes
      BY <1>5, <2>1
    <2>4. DOMAIN delivered = Pids \X Pids \X MsgTypes
      BY <1>1 DEF Rest
    <2>5. CASE q[j].sender = m.sender /\ q[j].type = m.type
      <3>1. j \notin 1 .. i - 1
        BY <1>7, <2>5
      <3>2. i < j
        BY <3>1, <2>1, <1>4
      <3>3. m.number < q[j].number
        BY <3>2, <1>4, <2>1
      <3>4. D[<<r, q[j].sender, q[j].type>>] = m.number
        BY <2>3, <2>4, <2>5
      <3> HIDE DEF D, m
      <3> QED
        BY <2>2, <3>3, <3>4 DEF Fine
    <2>6. CASE ~(q[j].sender = m.sender /\ q[j].type = m.type)
      <3>1. <<r, q[j].sender, q[j].type>> # <<r, m.sender, m.type>>
        BY <2>6
      <3>2. D[<<r, q[j].sender, q[j].type>>] = delivered[<<r, q[j].sender, q[j].type>>]
        BY <2>3, <2>4, <3>1
      <3> HIDE DEF D
      <3> QED
        BY <2>2, <3>2 DEF Fine
    <2> QED
      BY <2>5, <2>6
  <1>9. Good(t, r, D, sends, live, incarnation)
    <2> DEFINE at == [k \in 1 .. Len(q) - 1 |-> IF k < i THEN k ELSE k + 1]
               n == Len(q)
    <2>1. /\ t \in Seq(Messages) /\ Len(t) = n - 1
          /\ \A k \in 1 .. n - 1 : t[k] = IF k < i THEN q[k] ELSE q[k + 1]
      BY <1>4, RemoveAtProperties
    <2> HIDE DEF q, t
    <2>2. at \in [1 .. n - 1 -> K] /\ \A j, k \in 1 .. n - 1 : j < k => at[j] < at[k]
      BY <1>4
    <2>3. \A k \in 1 .. n - 1 : t[k] = q[at[k]]
      BY <2>1
    <2> HIDE DEF at, D
    <2>4. Len(t) <= Len(q)
      BY <1>4, <2>1
    <2>5. K \in SUBSET (1 .. Len(q)) /\ at \in [1 .. Len(t) -> K]
      BY <2>1, <2>2
    <2> HIDE DEF K
    <2> QED
      BY <1>4, <1>8, <2>1, <2>2, <2>3, <2>4, <2>5, GoodSelection
  <1>10. \A p \in Pids \ {r} : Good(queue[p], p, D, sends, live, incarnation)
    <2> SUFFICES ASSUME NEW p \in Pids \ {r}
                 PROVE  Good(queue[p], p, D, sends, live, incarnation)
      OBVIOUS
    <2>1. DOMAIN delivered = Pids \X Pids \X MsgTypes
      BY <1>1 DEF Rest
    <2>2. \A x \in Messages : D[<<p, x.sender, x.type>>] = delivered[<<p, x.sender, x.type>>]
      <3> SUFFICES ASSUME NEW x \in Messages
                   PROVE  D[<<p, x.sender, x.type>>] = delivered[<<p, x.sender, x.type>>]
        OBVIOUS
      <3>1. <<p, x.sender, x.type>> \in Pids \X Pids \X MsgTypes
        BY <1>5
      <3>2. <<p, x.sender, x.type>> # <<r, m.sender, m.type>>
        OBVIOUS
      <3> QED
        BY <3>1, <3>2, <2>1
    <2> HIDE DEF D
    <2>3. \A j \in 1 .. Len(queue[p]) : queue[p][j] \in Messages
      BY <1>1 DEF Good
    <2>4. \A j \in 1 .. Len(queue[p]) : Fine(queue[p][j], p, D, sends, live, incarnation)
      BY <1>1, <2>2, <2>3 DEF Good, Fine
    <2> QED
      BY <1>1, <2>4 DEF Good
  <1>11. /\ D \in [Pids \X Pids \X MsgTypes -> 0 .. MaxSends]
         /\ \A k \in Pids \X Pids \X MsgTypes : D[k] <= sends
    <2>1. /\ delivered \in [Pids \X Pids \X MsgTypes -> 0 .. MaxSends]
          /\ \A k \in Pids \X Pids \X MsgTypes : delivered[k] <= sends
      BY <1>1 DEF Rest
    <2>2. m.number \in 0 .. MaxSends
      BY <1>0, <1>6
    <2> HIDE DEF m
    <2> QED
      BY <2>1, <2>2, <1>6
  <1>12. [lastSender EXCEPT ![r] = m.sender] \in [Pids -> Pids \union {None}]
    BY <1>1, <1>5, <1>6 DEF Rest
  <1>13. delivered' = D /\ queue' = [queue EXCEPT ![r] = t] /\ t \in Seq(Messages)
    BY <1>2, <1>9 DEF Good
  <1> HIDE DEF D, t
  <1>14. Rest'
    BY <1>1, <1>2, <1>3, <1>11, <1>12, <1>13 DEF Rest, LifecycleTypeOK
  <1>15. queue' \in [Pids -> Seq(Messages)]
    BY <1>1, <1>13
  <1>16. \A p \in Pids : Good(queue'[p], p, D, sends, live, incarnation)
    BY <1>1, <1>9, <1>10, <1>13
  <1> QED
    BY <1>3, <1>13, <1>14, <1>15, <1>16 DEF IInv

(* ipc_close_owner at the end of the processes S *)
LEMMA ExitInv ==
  ASSUME IInv, NEW S \in SUBSET Pids, Exit(S)
  PROVE  IInv'
  <1> DEFINE Kept(r) == {i \in 1 .. Len(queue[r]) : queue[r][i].sender \notin S}
             L == live \ S
             D == [k \in Pids \X Pids \X MsgTypes |->
                      IF k[1] \in S \/ k[2] \in S THEN 0 ELSE delivered[k]]
  <1>0. MaxSends \in Nat /\ Depth \in Nat
    BY IpcAssumption
  <1>1. /\ Rest /\ queue \in [Pids -> Seq(Messages)]
        /\ \A p \in Pids : Good(queue[p], p, delivered, sends, live, incarnation)
    BY DEF IInv
  <1>2. /\ live' = L /\ incarnation' = incarnation /\ sends' = sends /\ delivered' = D
        /\ queue' = [r \in Pids |-> IF r \in S THEN <<>> ELSE Compact(queue[r], Kept(r))]
        /\ lastSender' = [r \in Pids |-> IF r \in S THEN None ELSE lastSender[r]]
    BY DEF Exit, End, CloseOwner, Forget
  <1>3. /\ D \in [Pids \X Pids \X MsgTypes -> 0 .. MaxSends]
        /\ \A k \in Pids \X Pids \X MsgTypes : D[k] <= sends
    <2>1. /\ delivered \in [Pids \X Pids \X MsgTypes -> 0 .. MaxSends]
          /\ \A k \in Pids \X Pids \X MsgTypes : delivered[k] <= sends
          /\ sends \in Nat
      BY <1>0, <1>1 DEF Rest
    <2> QED
      BY <1>0, <2>1
  <1>4. Rest'
    <2> HIDE DEF D
    <2>1. lastSender' \in [Pids -> Pids \union {None}]
      BY <1>1, <1>2 DEF Rest
    <2> QED
      BY <1>1, <1>2, <1>3, <2>1 DEF Rest, LifecycleTypeOK
  <1>5. \A r \in Pids : Good(queue'[r], r, D, sends, L, incarnation)
    <2> SUFFICES ASSUME NEW r \in Pids
                 PROVE  Good(queue'[r], r, D, sends, L, incarnation)
      OBVIOUS
    <2>1. CASE r \in S
      BY <1>2, <2>1, EmptyGood
    <2>2. CASE r \notin S
      <3> DEFINE q == queue[r]
                 K == Kept(r)
                 t == Compact(q, K)
      <3>1. queue'[r] = t
        BY <1>2, <2>2
      <3>2. /\ q \in Seq(Messages) /\ Len(q) <= Depth
            /\ \A i \in 1 .. Len(q) : q[i] \in Messages /\ Fine(q[i], r, delivered, sends, live, incarnation)
            /\ \A i, j \in 1 .. Len(q) : j < i => q[j].number < q[i].number
        BY <1>1 DEF Good
      <3>3. K \in SUBSET (1 .. Len(q))
        OBVIOUS
      <3>4. \A i \in K : Fine(q[i], r, D, sends, L, incarnation)
        <4> SUFFICES ASSUME NEW i \in K
                     PROVE  Fine(q[i], r, D, sends, L, incarnation)
          OBVIOUS
        <4> DEFINE m == q[i]
        <4>1. m \in Messages /\ Fine(m, r, delivered, sends, live, incarnation) /\ m.sender \notin S
          BY <3>2
        <4> HIDE DEF m
        <4>2. m.sender \in Pids /\ m.type \in MsgTypes
          BY <4>1 DEF Messages
        <4>3. <<r, m.sender, m.type>> \in Pids \X Pids \X MsgTypes
          BY <4>2
        <4>4. D[<<r, m.sender, m.type>>] = delivered[<<r, m.sender, m.type>>]
          BY <4>1, <4>3, <2>2
        <4> HIDE DEF D
        <4>5. Fine(m, r, D, sends, L, incarnation)
          BY <4>1, <4>4, <2>2 DEF Fine
        <4> QED
          BY <4>5 DEF m
      <3> HIDE DEF K, q, D, L
      <3>5. PICK at \in [1 .. Len(t) -> K] :
               /\ \A k \in 1 .. Len(t) : t[k] = q[at[k]]
               /\ \A j, k \in 1 .. Len(t) : j < k => at[j] < at[k]
        BY <3>2, <3>3, CompactProperties
      <3>6. t \in Seq(Messages) /\ Len(t) <= Len(q)
        BY <3>2, <3>3, CompactProperties
      <3> HIDE DEF t
      <3>7. Good(t, r, D, sends, L, incarnation)
        BY <3>2, <3>3, <3>4, <3>5, <3>6, GoodSelection
      <3> QED
        BY <3>1, <3>7
    <2> QED
      BY <2>1, <2>2
  <1>6. queue' \in [Pids -> Seq(Messages)]
    <2>1. \A r \in Pids : queue'[r] \in Seq(Messages)
      BY <1>5 DEF Good
    <2>2. queue' = [r \in Pids |-> queue'[r]]
      BY <1>2
    <2> QED
      BY <2>1, <2>2
  <1> QED
    BY <1>2, <1>4, <1>5, <1>6 DEF IInv

(* A PID is taken again: it was not live, so no message names it. *)
LEMMA SpawnInv ==
  ASSUME IInv, NEW p \in Pids, Spawn(p)
  PROVE  IInv'
  <1> DEFINE J == [incarnation EXCEPT ![p] = @ + 1]
             L == live \union {p}
  <1>0. MaxSpawns \in Nat
    BY LifecycleAssumption
  <1>1. /\ Rest /\ queue \in [Pids -> Seq(Messages)]
        /\ \A r \in Pids : Good(queue[r], r, delivered, sends, live, incarnation)
    BY DEF IInv
  <1>2. /\ p \notin live /\ incarnation[p] < MaxSpawns /\ live' = L /\ incarnation' = J
        /\ queue' = queue /\ lastSender' = lastSender /\ sends' = sends /\ delivered' = delivered
    BY DEF Spawn, Begin, FirstFree, ipcVars
  <1>3. live \subseteq Pids /\ incarnation \in [Pids -> 0 .. MaxSpawns]
    BY <1>1 DEF Rest, LifecycleTypeOK
  <1>4. J \in [Pids -> 0 .. MaxSpawns] /\ \A x \in live : J[x] = incarnation[x]
    BY <1>0, <1>2, <1>3
  <1>5. J[p] >= 1
    BY <1>0, <1>3
  <1> HIDE DEF J
  <1>6. Rest'
    BY <1>1, <1>2, <1>3, <1>4, <1>5 DEF Rest, LifecycleTypeOK
  <1>7. \A r \in Pids : Good(queue[r], r, delivered, sends, L, J)
    <2>1. \A r, m : Fine(m, r, delivered, sends, live, incarnation) => Fine(m, r, delivered, sends, L, J)
      BY <1>4 DEF Fine
    <2> QED
      BY <1>1, <2>1 DEF Good
  <1> QED
    BY <1>1, <1>2, <1>6, <1>7 DEF IInv

(* Every step keeps the invariant. *)
LEMMA NextInv == IInv /\ [Next]_vars => IInv'
  <1> SUFFICES ASSUME IInv, [Next]_vars
               PROVE  IInv'
    OBVIOUS
  <1>1. CASE \E s, r \in Pids, ty \in MsgTypes : Send(s, r, ty)
    BY <1>1, SendInv
  <1>2. CASE \E r \in Pids, from \in Pids \union {None}, ty \in MsgTypes \union {None} :
                Receive(r, from, ty)
    BY <1>2, ReceiveInv
  <1>3. CASE \E S \in SUBSET Pids : Exit(S)
    BY <1>3, ExitInv
  <1>4. CASE \E p \in Pids : Spawn(p)
    BY <1>4, SpawnInv
  <1>5. CASE UNCHANGED vars
    BY <1>5 DEF vars, IInv, Rest, LifecycleTypeOK
  <1> QED
    BY <1>1, <1>2, <1>3, <1>4, <1>5 DEF Next

-----------------------------------------------------------------------------
(* Theorems *)

(* The inductive invariant holds of every reachable state of the queues.    *)
THEOREM Invariance == Spec => []IInv
  BY InitInv, NextInv, PTL DEF Spec

(* Whatever waits in a queue was sent by the present holder of the sender's *)
(* PID to the present holder of the receiver's, however often PIDs are      *)
(* reused: ipc_close_owner leaves nothing of a process that ended.          *)
THEOREM LettersAreAlive == Spec => []NoDeadLetters
  BY Invariance, Follows, PTL

(* Filtered receives and purges keep the order of arrival, and no queue     *)
(* grows past its table.                                                    *)
THEOREM MessagesInOrder == Spec => []InOrder
  BY Invariance, Follows, PTL

(* The action behind NoLoss. *)
Keeps ==
    \A r \in Pids : \A i \in 1 .. Len(queue[r]) :
        LET m == queue[r][i]
        IN  \/ \E j \in 1 .. Len(queue'[r]) : queue'[r][j] = m
            \/ delivered'[<<r, m.sender, m.type>>] = m.number /\ lastSender'[r] = m.sender
            \/ r \notin live' \/ m.sender \notin live'

(* A message leaves a queue only by delivery to its receiver or with the end *)
(* of one of its two processes: neither a receive from the middle of a queue *)
(* nor a purge loses one of the others.                                      *)
THEOREM NothingIsLost == Spec => NoLoss
  <1>1. IInv /\ Next => Keeps
    <2> SUFFICES ASSUME IInv, Next, NEW r \in Pids, NEW i \in 1 .. Len(queue[r])
                 PROVE  LET m == queue[r][i]
                        IN  \/ \E j \in 1 .. Len(queue'[r]) : queue'[r][j] = m
                            \/ delivered'[<<r, m.sender, m.type>>] = m.number /\ lastSender'[r] = m.sender
                            \/ r \notin live' \/ m.sender \notin live'
      BY DEF Keeps
    <2> DEFINE q == queue[r]
               m == q[i]
               Stays == \E j \in 1 .. Len(queue'[r]) : queue'[r][j] = m
               Taken == delivered'[<<r, m.sender, m.type>>] = m.number /\ lastSender'[r] = m.sender
    <2>0. /\ queue \in [Pids -> Seq(Messages)] /\ q \in Seq(Messages)
          /\ Len(q) \in Nat /\ m \in Messages /\ Rest
      BY DEF IInv
    <2>1. ASSUME queue'[r] = q PROVE Stays
      BY <2>1
    <2>2. ASSUME NEW s \in Pids, NEW p \in Pids, NEW ty \in MsgTypes, Send(s, p, ty)
          PROVE  Stays
      <3>1. CASE p # r
        BY <3>1, <2>0, <2>1, <2>2 DEF Send
      <3>2. CASE p = r
        <4> DEFINE x == [sender |-> s, type |-> ty, number |-> sends + 1,
                         from |-> incarnation[s], to |-> incarnation[p]]
                   t == Append(q, x)
        <4>1. queue' = [queue EXCEPT ![r] = t]
          BY <2>2, <3>2 DEF Send
        <4> HIDE DEF x
        <4>2. Len(t) = Len(q) + 1 /\ t[i] = q[i]
          BY <2>0, AppendProperties
        <4>3. queue'[r] = t
          BY <2>0, <4>1
        <4> HIDE DEF t
        <4>4. i \in 1 .. Len(t)
          BY <2>0, <4>2
        <4> QED
          BY <4>2, <4>3, <4>4
      <3> QED
        BY <3>1, <3>2
    <2>3. ASSUME NEW p \in Pids, NEW from \in Pids \union {None}, NEW ty \in MsgTypes \union {None},
                 Receive(p, from, ty)
          PROVE  Stays \/ Taken
      <3>1. CASE p # r
        BY <3>1, <2>0, <2>1, <2>3 DEF Receive
      <3>2. CASE p = r
        <4>1. PICK h \in 1 .. Len(q) :
                 /\ queue' = [queue EXCEPT ![r] = RemoveAt(q, h)]
                 /\ lastSender' = [lastSender EXCEPT ![r] = q[h].sender]
                 /\ delivered' = [delivered EXCEPT ![<<r, q[h].sender, q[h].type>>] = q[h].number]
          BY <2>3, <3>2 DEF Receive
        <4> DEFINE t == RemoveAt(q, h)
        <4>2. /\ Len(t) = Len(q) - 1
              /\ \A k \in 1 .. Len(q) - 1 : t[k] = IF k < h THEN q[k] ELSE q[k + 1]
          BY <2>0, RemoveAtProperties
        <4>3. queue'[r] = t
          BY <2>0, <4>1
        <4> HIDE DEF t
        <4>4. CASE i = h
          <5>1. <<r, m.sender, m.type>> \in Pids \X Pids \X MsgTypes
            BY <2>0 DEF Messages
          <5>2. DOMAIN delivered = Pids \X Pids \X MsgTypes /\ DOMAIN lastSender = Pids
            BY <2>0 DEF Rest
          <5>3. q[h] = m
            BY <4>4
          <5> HIDE DEF m
          <5>4. delivered' = [delivered EXCEPT ![<<r, m.sender, m.type>>] = m.number]
            BY <4>1, <5>3
          <5>5. delivered'[<<r, m.sender, m.type>>] = m.number
            BY <5>1, <5>2, <5>4
          <5>6. lastSender'[r] = m.sender
            BY <4>1, <5>2, <5>3
          <5> QED
            BY <5>5, <5>6
        <4>5. CASE i < h
          <5>1. i \in 1 .. Len(q) - 1 /\ t[i] = q[i]
            BY <2>0, <4>2, <4>5
          <5> QED
            BY <4>2, <4>3, <5>1
        <4>6. CASE h < i
          <5>1. i - 1 \in 1 .. Len(q) - 1 /\ ~(i - 1 < h) /\ (i - 1) + 1 = i
            BY <2>0, <4>6
          <5>2. t[i - 1] = q[i]
            BY <4>2, <5>1
          <5> QED
            BY <4>2, <4>3, <5>1, <5>2
        <4>7. i = h \/ i < h \/ h < i
          BY <2>0
        <4> QED
          BY <4>4, <4>5, <4>6, <4>7
      <3> QED
        BY <3>1, <3>2
    <2>4. ASSUME NEW S \in SUBSET Pids, Exit(S), r \in live', m.sender \in live'
          PROVE  Stays
      <3> DEFINE K == {k \in 1 .. Len(q) : q[k].sender \notin S}
                 t == Compact(q, K)
      <3>1. r \notin S /\ m.sender \notin S
        BY <2>4 DEF Exit, End
      <3>2. queue'[r] = t
        BY <2>4, <3>1 DEF Exit, CloseOwner
      <3>3. K \in SUBSET (1 .. Len(q)) /\ i \in K
        BY <3>1
      <3> HIDE DEF K, q
      <3>4. PICK at \in [1 .. Len(t) -> K] :
               /\ \A k \in 1 .. Len(t) : t[k] = q[at[k]]
               /\ \A j, k \in 1 .. Len(t) : j < k => at[j] < at[k]
               /\ \A j \in K : \E k \in 1 .. Len(t) : at[k] = j
        <4>1. q \in Seq(Messages)
          BY <2>0
        <4> QED
          BY <4>1, <3>3, CompactProperties
      <3> HIDE DEF t
      <3> QED
        BY <3>2, <3>3, <3>4
    <2>5. ASSUME NEW p \in Pids, Spawn(p) PROVE Stays
      BY <2>1, <2>5 DEF Spawn, ipcVars
    <2> HIDE DEF Stays, Taken
    <2>6. Stays \/ Taken \/ r \notin live' \/ m.sender \notin live'
      BY <2>2, <2>3, <2>4, <2>5 DEF Next
    <2> QED
      BY <2>6 DEF Stays, Taken
  <1>2. [][Keeps]_vars <=> NoLoss
    BY DEF Keeps, NoLoss
  <1> QED
    BY <1>1, <1>2, Invariance, PTL DEF Spec
=============================================================================
