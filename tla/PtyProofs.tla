----------------------------- MODULE PtyProofs -----------------------------
(***************************************************************************)
(* Proofs about Pty, for every number and size of terminals.               *)
(***************************************************************************)
EXTENDS Pty, SequenceTheorems, TLAPS

-----------------------------------------------------------------------------
(* The bytes between the two ends *)

(* s is what was sent and not yet read, r the last byte read, K and G the    *)
(* bytes kept and gone, n the last byte typed anywhere.                      *)
Flow(s, r, K, G, n) ==
    /\ \A j, k \in 1 .. Len(s) : j < k => s[j] < s[k]
    /\ \A k \in 1 .. Len(s) : r < s[k] /\ s[k] <= n
    /\ r <= n
    /\ \A k \in K \union G : k <= n
    /\ \A k \in K : k <= r \/ k \in Range(s)
    /\ \A k \in G : k \notin Range(s)

(* A byte is in a longer sequence when it was in the shorter or is the new   *)
(* one.                                                                      *)
LEMMA RangeAppend ==
  ASSUME NEW s \in Seq(Nat), NEW x \in Nat
  PROVE  Range(Append(s, x)) = Range(s) \union {x}
  <1>1. Append(s, x) = s \o <<x>> /\ <<x>> \in Seq(Nat)
    BY AppendIsConcat
  <1>2. Range(<<x>>) = {x}
    BY DEF Range
  <1>3. Range(s \o <<x>>) = Range(s) \union Range(<<x>>)
    BY <1>1, RangeConcatenation, Zenon
  <1> QED
    BY <1>1, <1>2, <1>3, Zenon

(* A byte typed elsewhere, or refused, disturbs nothing. *)
LEMMA FlowLater ==
  ASSUME NEW s \in Seq(Nat), NEW r \in Nat, NEW K \in SUBSET Nat, NEW G \in SUBSET Nat,
         NEW n \in Nat, Flow(s, r, K, G, n)
  PROVE  Flow(s, r, K, G, n + 1)
  <1>1. \A k \in 1 .. Len(s) : s[k] \in Nat
    OBVIOUS
  <1> QED
    BY <1>1 DEF Flow

(* The byte just typed joins the end, whether it was reported or not. *)
LEMMA FlowAppend ==
  ASSUME NEW s \in Seq(Nat), NEW r \in Nat, NEW K \in SUBSET Nat, NEW G \in SUBSET Nat,
         NEW n \in Nat, Flow(s, r, K, G, n), NEW L \in {K, K \union {n + 1}}
  PROVE  Flow(Append(s, n + 1), r, L, G, n + 1)
  <1> DEFINE u == Append(s, n + 1)
  <1>1. /\ Len(u) = Len(s) + 1 /\ u \in Seq(Nat)
        /\ \A k \in 1 .. Len(s) : u[k] = s[k]
        /\ u[Len(s) + 1] = n + 1
    BY AppendProperties
  <1>2. Range(u) = Range(s) \union {n + 1}
    BY RangeAppend
  <1>3. \A k \in 1 .. Len(s) : s[k] \in Nat
    OBVIOUS
  <1>4. Len(s) \in Nat
    OBVIOUS
  <1>0. Len(u) = Len(s) + 1
    BY <1>1
  <1> HIDE DEF u
  <1>5. \A j, k \in 1 .. Len(u) : j < k => u[j] < u[k]
    <2> SUFFICES ASSUME NEW j \in 1 .. Len(u), NEW k \in 1 .. Len(u), j < k
                 PROVE  u[j] < u[k]
      OBVIOUS
    <2>1. j \in 1 .. Len(s) /\ s[j] \in Nat /\ s[j] <= n
      BY <1>1, <1>3, <1>4 DEF Flow
    <2>2. CASE k = Len(s) + 1
      BY <1>1, <2>1, <2>2
    <2>3. CASE k \in 1 .. Len(s)
      BY <1>1, <2>1, <2>3 DEF Flow
    <2>4. k = Len(s) + 1 \/ k \in 1 .. Len(s)
      BY <1>0, <1>4
    <2> QED
      BY <2>2, <2>3, <2>4
  <1>6. \A k \in 1 .. Len(u) : r < u[k] /\ u[k] <= n + 1
    <2> SUFFICES ASSUME NEW k \in 1 .. Len(u) PROVE r < u[k] /\ u[k] <= n + 1
      OBVIOUS
    <2>1. CASE k = Len(s) + 1
      BY <1>1, <2>1 DEF Flow
    <2>2. CASE k \in 1 .. Len(s)
      <3>1. u[k] = s[k] /\ s[k] \in Nat
        BY <1>1, <1>3, <2>2
      <3> QED
        BY <2>2, <3>1 DEF Flow
    <2>3. k = Len(s) + 1 \/ k \in 1 .. Len(s)
      BY <1>0, <1>4
    <2> QED
      BY <2>1, <2>2, <2>3
  <1>7. r <= n + 1 /\ \A k \in L \union G : k <= n + 1
    BY DEF Flow
  <1>8. \A k \in L : k <= r \/ k \in Range(u)
    BY <1>2 DEF Flow
  <1>9. \A k \in G : k \notin Range(u)
    BY <1>2 DEF Flow
  <1> QED
    BY <1>5, <1>6, <1>7, <1>8, <1>9 DEF Flow, u

(* Taking the last byte back leaves it out of what is kept. *)
LEMMA FlowUndo ==
  ASSUME NEW s \in Seq(Nat), NEW r \in Nat, NEW K \in SUBSET Nat, NEW G \in SUBSET Nat,
         NEW n \in Nat, NEW x \in Nat, Flow(Append(s, x), r, K, G, n)
  PROVE  Flow(s, r, K \ {x}, G \union {x}, n)
  <1> DEFINE u == Append(s, x)
  <1>1. /\ Len(u) = Len(s) + 1 /\ u \in Seq(Nat)
        /\ \A k \in 1 .. Len(s) : u[k] = s[k]
        /\ u[Len(s) + 1] = x
    BY AppendProperties
  <1>2. Range(u) = Range(s) \union {x}
    BY RangeAppend
  <1>3. \A k \in 1 .. Len(s) : s[k] \in Nat
    OBVIOUS
  <1>4. Len(s) \in Nat
    OBVIOUS
  <1>5. Range(s) = {s[k] : k \in 1 .. Len(s)}
    BY RangeEquality
  <1>6. Flow(u, r, K, G, n)
    OBVIOUS
  <1> HIDE DEF u
  <1>7. x \notin Range(s) /\ x <= n
    BY <1>1, <1>3, <1>4, <1>5, <1>6 DEF Flow
  <1>8. \A j, k \in 1 .. Len(s) : j < k => s[j] < s[k]
    BY <1>1, <1>4, <1>6 DEF Flow
  <1>9. \A k \in 1 .. Len(s) : r < s[k] /\ s[k] <= n
    BY <1>1, <1>4, <1>6 DEF Flow
  <1>10. \A k \in K \ {x} : k <= r \/ k \in Range(s)
    BY <1>2, <1>6 DEF Flow
  <1>11. \A k \in G \union {x} : k \notin Range(s)
    BY <1>2, <1>6, <1>7 DEF Flow
  <1> QED
    BY <1>6, <1>7, <1>8, <1>9, <1>10, <1>11 DEF Flow

(* Reading takes the first byte. *)
LEMMA FlowRead ==
  ASSUME NEW s \in Seq(Nat), NEW r \in Nat, NEW K \in SUBSET Nat, NEW G \in SUBSET Nat,
         NEW n \in Nat, NEW x \in Nat, Flow(<<x>> \o s, r, K, G, n)
  PROVE  Flow(s, x, K, G, n)
  <1> DEFINE u == <<x>> \o s
  <1>a. <<x>> \in Seq(Nat) /\ Len(<<x>>) = 1 /\ <<x>>[1] = x /\ Range(<<x>>) = {x}
    BY DEF Range
  <1>b. Len(s) \in Nat
    OBVIOUS
  <1>1. /\ Len(u) = Len(s) + 1 /\ u \in Seq(Nat)
        /\ \A k \in 1 .. Len(s) : u[k + 1] = s[k]
        /\ u[1] = x
    <2>1. /\ u \in Seq(Nat) /\ Len(u) = Len(<<x>>) + Len(s)
          /\ \A k \in 1 .. Len(<<x>>) + Len(s) :
                u[k] = IF k <= Len(<<x>>) THEN <<x>>[k] ELSE s[k - Len(<<x>>)]
      BY <1>a, ConcatProperties, Zenon
    <2> HIDE DEF u
    <2>2. /\ u \in Seq(Nat) /\ Len(u) = Len(s) + 1
          /\ \A k \in 1 .. Len(s) + 1 : u[k] = IF k <= 1 THEN <<x>>[k] ELSE s[k - 1]
      BY <1>a, <1>b, <2>1
    <2> QED
      BY <1>a, <1>b, <2>2
  <1>2. Range(u) = Range(s) \union {x}
    <2>0. <<x>> \in Seq(Nat)
      BY <1>a
    <2>1. Range(<<x>> \o s) = Range(<<x>>) \union Range(s)
      BY <2>0, RangeConcatenation, Zenon
    <2> QED
      BY <1>a, <2>1
  <1>3. \A k \in 1 .. Len(s) : s[k] \in Nat
    OBVIOUS
  <1>6. Flow(u, r, K, G, n)
    OBVIOUS
  <1> HIDE DEF u
  <1>7. r < x /\ x <= n
    BY <1>1, <1>b, <1>6 DEF Flow
  <1>8. \A j, k \in 1 .. Len(s) : j < k => s[j] < s[k]
    <2> SUFFICES ASSUME NEW j \in 1 .. Len(s), NEW k \in 1 .. Len(s), j < k
                 PROVE  s[j] < s[k]
      OBVIOUS
    <2>1. j + 1 \in 1 .. Len(u) /\ k + 1 \in 1 .. Len(u) /\ j + 1 < k + 1
      BY <1>1, <1>b
    <2> QED
      BY <1>1, <1>6, <2>1 DEF Flow
  <1>9. \A k \in 1 .. Len(s) : x < s[k] /\ s[k] <= n
    <2> SUFFICES ASSUME NEW k \in 1 .. Len(s) PROVE x < s[k] /\ s[k] <= n
      OBVIOUS
    <2>1. k + 1 \in 1 .. Len(u) /\ 1 \in 1 .. Len(u) /\ 1 < k + 1
      BY <1>1, <1>b
    <2> QED
      BY <1>1, <1>6, <2>1 DEF Flow
  <1>10. \A k \in K : k <= x \/ k \in Range(s)
    BY <1>2, <1>6, <1>7 DEF Flow
  <1>11. \A k \in G : k \notin Range(s)
    BY <1>2, <1>6 DEF Flow
  <1> QED
    BY <1>6, <1>7, <1>8, <1>9, <1>10, <1>11 DEF Flow

(* Dropping the line leaves the ring, and what was in the line is gone. *)
LEMMA FlowDrop ==
  ASSUME NEW a \in Seq(Nat), NEW b \in Seq(Nat), NEW r \in Nat,
         NEW K \in SUBSET Nat, NEW G \in SUBSET Nat,
         NEW n \in Nat, Flow(a \o b, r, K, G, n)
  PROVE  Flow(a \o <<>>, r, K \ Range(b), G \union (Range(b) \intersect K), n)
  <1> DEFINE u == a \o b
  <1>a. Len(a) \in Nat /\ Len(b) \in Nat
    OBVIOUS
  <1>1. /\ Len(u) = Len(a) + Len(b) /\ u \in Seq(Nat)
        /\ \A k \in 1 .. Len(a) + Len(b) : u[k] = IF k <= Len(a) THEN a[k] ELSE b[k - Len(a)]
    BY ConcatProperties, Zenon
  <1>2. Range(u) = Range(a) \union Range(b)
    BY RangeConcatenation, Zenon
  <1>3. Range(a) = {a[k] : k \in 1 .. Len(a)} /\ Range(b) = {b[k] : k \in 1 .. Len(b)}
    BY RangeEquality, Zenon
  <1>4. a \o <<>> = a
    BY ConcatEmptySeq, Zenon
  <1>5. Flow(u, r, K, G, n)
    OBVIOUS
  <1> HIDE DEF u
  <1>6. \A k \in 1 .. Len(a) : k \in 1 .. Len(u) /\ a[k] = u[k]
    BY <1>a, <1>1
  <1>7. ASSUME NEW k \in 1 .. Len(b)
        PROVE  Len(a) + k \in 1 .. Len(u) /\ b[k] = u[Len(a) + k]
    <2>1. Len(a) + k \in 1 .. Len(a) + Len(b) /\ ~(Len(a) + k <= Len(a)) /\ (Len(a) + k) - Len(a) = k
      BY <1>a
    <2>2. u[Len(a) + k] = b[(Len(a) + k) - Len(a)]
      BY <1>1, <2>1
    <2> QED
      BY <1>1, <2>1, <2>2
  <1>8. \A k \in Range(b) : k \notin Range(a)
    <2> SUFFICES ASSUME NEW i \in 1 .. Len(a), NEW j \in 1 .. Len(b) PROVE a[i] # b[j]
      BY <1>3
    <2>1. i \in 1 .. Len(u) /\ Len(a) + j \in 1 .. Len(u) /\ i < Len(a) + j
      BY <1>a, <1>6, <1>7
    <2>2. u[i] < u[Len(a) + j]
      BY <1>5, <2>1 DEF Flow
    <2>3. a[i] \in Nat
      OBVIOUS
    <2> QED
      BY <1>6, <1>7, <2>2, <2>3
  <1>9. \A j, k \in 1 .. Len(a) : j < k => a[j] < a[k]
    BY <1>5, <1>6 DEF Flow
  <1>10. \A k \in 1 .. Len(a) : r < a[k] /\ a[k] <= n
    BY <1>5, <1>6 DEF Flow
  <1>11. \A k \in K \ Range(b) : k <= r \/ k \in Range(a)
    BY <1>2, <1>5 DEF Flow
  <1>12. \A k \in G \union (Range(b) \intersect K) : k \notin Range(a)
    BY <1>2, <1>5, <1>8 DEF Flow
  <1> QED
    BY <1>4, <1>5, <1>9, <1>10, <1>11, <1>12 DEF Flow

(* A non-empty line is its front and its last byte, a non-empty ring its     *)
(* first byte and the rest.                                                  *)
LEMMA Split ==
  ASSUME NEW S, NEW s \in Seq(S), s # <<>>
  PROVE  /\ Last(s) \in S /\ Front(s) \in Seq(S) /\ Len(Front(s)) = Len(s) - 1
         /\ s = Append(Front(s), Last(s))
         /\ Head(s) \in S /\ Tail(s) \in Seq(S) /\ Len(Tail(s)) = Len(s) - 1
         /\ s = <<Head(s)>> \o Tail(s)
         /\ \A k \in 1 .. Len(Tail(s)) : Tail(s)[k] = s[k + 1]
  <1>1. Len(s) \in Nat \ {0}
    BY EmptySeq
  <1>2. \A i \in 1 .. Len(s) - 1 : s[i] \in S
    BY <1>1
  <1>3. Front(s) = SubSeq(s, 1, Len(s) - 1) /\ Last(s) = s[Len(s)]
    BY DEF Front, Last
  <1>4. Front(s) \in Seq(S) /\ Len(Front(s)) = Len(s) - 1
    <2> DEFINE m == Len(s) - 1
               f == SubSeq(s, 1, m)
    <2>1. m \in Int /\ 1 \in Int /\ \A i \in 1 .. m : s[i] \in S
      BY <1>1, <1>2
    <2> HIDE DEF m
    <2>2. f \in Seq(S) /\ Len(f) = IF 1 <= m THEN m - 1 + 1 ELSE 0
      BY <2>1, SubSeqProperties
    <2> HIDE DEF f
    <2>3. m \in Nat
      BY <1>1 DEF m
    <2>4. Len(f) = m
      BY <2>2, <2>3
    <2>5. Front(s) = f
      BY <1>3 DEF f, m
    <2> QED
      BY <2>2, <2>4, <2>5 DEF m
  <1>5. Last(s) \in S /\ Head(s) = s[1]
    BY <1>1, <1>3
  <1>6. 1 \in 1 .. Len(s) /\ Len(s) \in 1 .. Len(s)
    BY <1>1
  <1>7. s = Front(s) \o <<Last(s)>>
    BY <1>3, <1>6, SubSeqRecursiveSecond, SubSeqFull
  <1>8. s = Append(Front(s), Last(s))
    BY <1>4, <1>5, <1>7, AppendIsConcat
  <1>9. Tail(s) = SubSeq(s, 2, Len(s))
    BY TailIsSubSeq
  <1>10. SubSeq(s, 1, Len(s)) = <<s[1]>> \o SubSeq(s, 2, Len(s))
    <2>1. Len(s) \in 1 .. Len(s) /\ 1 \in 1 .. Len(s) /\ 1 + 1 = 2
      BY <1>1
    <2> QED
      BY <2>1, SubSeqRecursiveFirst
  <1>11. s = <<Head(s)>> \o Tail(s)
    BY <1>5, <1>9, <1>10, SubSeqFull
  <1> QED
    BY <1>4, <1>5, <1>8, <1>11, HeadTailProperties

(* What is appended to the second of two sequences. *)
LEMMA ConcatAppend ==
  ASSUME NEW S, NEW a \in Seq(S), NEW b \in Seq(S), NEW x \in S
  PROVE  a \o Append(b, x) = Append(a \o b, x)
  <1> DEFINE c == <<x>>
  <1>1. <<x>> \in Seq(S) /\ a \o b \in Seq(S)
    OBVIOUS
  <1>2. Append(b, x) = b \o c /\ Append(a \o b, x) = (a \o b) \o c /\ c \in Seq(S)
    BY <1>1, AppendIsConcat, Zenon
  <1> HIDE DEF c
  <1>3. (a \o b) \o c = a \o (b \o c)
    BY <1>2, ConcatAssociative
  <1> QED
    BY <1>2, <1>3, Zenon

(* Reading takes a byte from the front of what was sent. *)
LEMMA ConcatFirst ==
  ASSUME NEW S, NEW a \in Seq(S), NEW b \in Seq(S), a # <<>>
  PROVE  a \o b = <<Head(a)>> \o (Tail(a) \o b)
  <1> DEFINE h == <<Head(a)>>
             d == Tail(a)
  <1>1. h \in Seq(S) /\ d \in Seq(S) /\ a = h \o d
    BY Split
  <1> HIDE DEF h, d
  <1>2. (h \o d) \o b = h \o (d \o b)
    BY <1>1, ConcatAssociative
  <1>3. a \o b = h \o (d \o b)
    BY <1>1, <1>2, Zenon
  <1> QED
    BY <1>3, Zenon DEF h, d

-----------------------------------------------------------------------------
(* The line discipline *)

(* The rings and the line within their sizes. *)
Fits(t) == /\ Len(t.line) <= LineSize
           /\ Len(t.input) <= RingSize
           /\ Len(t.output) <= RingSize

(* What holds of the bytes of a terminal in use once n bytes were typed.     *)
Sound(t, n) ==
    /\ t.session # 0
    /\ ~t.canonical => t.line = <<>>
    /\ \A k \in DOMAIN t.output : t.output[k] = t.session
    /\ Flow(Sent(t), t.lastRead, t.kept, t.gone, n)

(* u is t but for what the line discipline changes. *)
SameEnds(t, u) ==
    /\ u.allocated = t.allocated /\ u.masterOpen = t.masterOpen
    /\ u.slaveOpen = t.slaveOpen /\ u.master = t.master /\ u.slave = t.slave
    /\ u.holders = t.holders

(* What each branch of the line discipline has to preserve. *)
Kept(t, u, n) == u \in PtyType /\ Fits(u) /\ Sound(u, n) /\ SameEnds(t, u)

(* The constants that bound numbers and lengths are numbers. *)
LEMMA Bounds == /\ RingSize \in Nat /\ RingSize > 0 /\ LineSize \in Nat /\ LineSize > 0
                /\ MaxTyped \in Nat /\ MaxPtys \in Nat /\ Ids \subseteq Nat
  BY PtyAssumption DEF Ids

(* The fields of a terminal that hold bytes. *)
LEMMA Fields ==
  ASSUME NEW t \in PtyType
  PROVE  /\ t.line \in Seq(Ids) /\ t.input \in Seq(Ids)
         /\ t.line \in Seq(Nat) /\ t.input \in Seq(Nat) /\ Sent(t) \in Seq(Nat)
         /\ t.output \in Seq(1 .. MaxPtys)
         /\ t.lastRead \in Nat /\ t.session \in 0 .. MaxPtys
         /\ t.kept \in SUBSET Ids /\ t.gone \in SUBSET Ids
         /\ t.kept \in SUBSET Nat /\ t.gone \in SUBSET Nat
         /\ Len(t.line) \in Nat /\ Len(t.input) \in Nat /\ Len(t.output) \in Nat
  <1>1. /\ t.line \in Seq(Ids) /\ t.input \in Seq(Ids)
        /\ t.output \in Seq(1 .. MaxPtys)
        /\ t.lastRead \in Nat /\ t.session \in 0 .. MaxPtys
        /\ t.kept \in SUBSET Ids /\ t.gone \in SUBSET Ids
    BY DEF PtyType
  <1>2. t.line \in Seq(Nat) /\ t.input \in Seq(Nat)
    BY <1>1, Bounds, SeqMonotonic
  <1>3. Sent(t) \in Seq(Nat)
    BY <1>2 DEF Sent
  <1>4. Len(t.line) \in Nat /\ Len(t.input) \in Nat /\ Len(t.output) \in Nat
    BY <1>1
  <1>5. t.kept \in SUBSET Nat /\ t.gone \in SUBSET Nat
    BY <1>1, Bounds
  <1> QED
    BY <1>1, <1>2, <1>3, <1>4, <1>5

(* A byte at the end of the line is a byte at the end of what was sent. *)
LEMMA SentAppend ==
  ASSUME NEW t \in PtyType, NEW u, NEW x \in Ids,
         u.input = t.input, u.line = Append(t.line, x)
  PROVE  Sent(u) = Append(Sent(t), x)
  <1> DEFINE a == t.input
             l == t.line
  <1>1. a \in Seq(Ids) /\ l \in Seq(Ids) /\ Sent(u) = a \o Append(l, x) /\ Sent(t) = a \o l
    BY Fields DEF Sent
  <1> HIDE DEF a, l
  <1>2. a \o Append(l, x) = Append(a \o l, x)
    BY <1>1, ConcatAppend
  <1> QED
    BY <1>1, <1>2

(* ring_write keeps the ring within its size and adds nothing of its own. *)
LEMMA RingWriteOK ==
  ASSUME NEW S, NEW r \in Seq(S), NEW s \in Seq(S), Len(r) <= RingSize, NEW x,
         \A k \in DOMAIN r : r[k] = x, \A k \in DOMAIN s : s[k] = x
  PROVE  /\ RingWrite(r, s) \in Seq(S)
         /\ Len(RingWrite(r, s)) <= RingSize
         /\ \A k \in DOMAIN RingWrite(r, s) : RingWrite(r, s)[k] = x
  BY PtyAssumption DEF RingWrite

(* The echo of a byte, which the output ring may not have room for, is of    *)
(* this terminal.                                                            *)
LEMMA EchoOK ==
  ASSUME NEW t \in PtyType, Fits(t), t.session # 0, NEW n \in Nat,
         \A k \in DOMAIN t.output : t.output[k] = t.session
  PROVE  /\ Echo(t, n) \in Seq(1 .. MaxPtys)
         /\ Len(Echo(t, n)) <= RingSize
         /\ \A k \in DOMAIN Echo(t, n) : Echo(t, n)[k] = t.session
  <1> DEFINE s == [k \in 1 .. n |-> t.session]
  <1>1. t.session \in 1 .. MaxPtys
    BY PtyAssumption DEF PtyType
  <1>2. s \in Seq(1 .. MaxPtys) /\ \A k \in DOMAIN s : s[k] = t.session
    BY <1>1
  <1>3. t.output \in Seq(1 .. MaxPtys) /\ Len(t.output) <= RingSize
    BY DEF PtyType, Fits
  <1> HIDE DEF s
  <1>4. CASE t.echo
    <2>1. Echo(t, n) = RingWrite(t.output, s)
      BY <1>4 DEF Echo, s
    <2> QED
      BY <1>1, <1>2, <1>3, <2>1, RingWriteOK
  <1>5. CASE ~t.echo
    BY <1>3, <1>5 DEF Echo
  <1> QED
    BY <1>4, <1>5

(* A byte that is refused, or typed at another terminal. *)
LEMMA SameIsKept ==
  ASSUME NEW t \in PtyType, Fits(t), NEW n \in Nat, Sound(t, n)
  PROVE  Kept(t, t, n + 1)
  <1>1. Flow(Sent(t), t.lastRead, t.kept, t.gone, n + 1)
    BY Fields, FlowLater DEF Sound
  <1> QED
    BY <1>1 DEF Kept, SameEnds, Sound

(* A byte in raw mode. *)
LEMMA RawOK ==
  ASSUME NEW t \in PtyType, Fits(t), NEW n \in Nat, n + 1 \in Ids, Sound(t, n), ~t.canonical
  PROVE  Kept(t, Raw(t, n + 1), n + 1)
  <1> DEFINE u == Raw(t, n + 1)
  <1>1. CASE Room(t.input) = 0
    BY <1>1, SameIsKept DEF Raw
  <1>2. CASE Room(t.input) # 0
    <2>1. u = [t EXCEPT !.kept = @ \union {n + 1}, !.input = Append(@, n + 1),
                        !.output = Echo(t, 1)]
      BY <1>2 DEF Raw, Take, PtyType
    <2>2. /\ Echo(t, 1) \in Seq(1 .. MaxPtys)
          /\ Len(Echo(t, 1)) <= RingSize
          /\ \A k \in DOMAIN Echo(t, 1) : Echo(t, 1)[k] = t.session
      BY EchoOK DEF Sound
    <2>3. /\ t.kept \union {n + 1} \in SUBSET Ids
          /\ Append(t.input, n + 1) \in Seq(Ids)
          /\ Len(Append(t.input, n + 1)) = Len(t.input) + 1
      BY Fields
    <2>4. Len(t.input) + 1 <= RingSize
      BY <1>2, Fields, Bounds DEF Room, Fits
    <2>5. u \in PtyType
      BY <2>1, <2>2, <2>3 DEF PtyType
    <2>6. /\ u.session = t.session /\ u.lastRead = t.lastRead /\ u.line = t.line
          /\ u.canonical = t.canonical /\ u.kept = t.kept \union {n + 1}
          /\ u.gone = t.gone /\ u.output = Echo(t, 1) /\ u.input = Append(t.input, n + 1)
          /\ SameEnds(t, u)
      BY <2>1 DEF PtyType, SameEnds
    <2> HIDE DEF u
    <2>7. Fits(u)
      BY <2>2, <2>3, <2>4, <2>6 DEF Fits
    <2>8. Sent(u) = Append(Sent(t), n + 1)
      <3>1. t.line = <<>>
        BY DEF Sound
      <3>2. Sent(t) = t.input
        BY <3>1, Fields, ConcatEmptySeq, Zenon DEF Sent
      <3>3. Append(t.input, n + 1) \o <<>> = Append(t.input, n + 1)
        BY <2>3, ConcatEmptySeq, Zenon
      <3> QED
        BY <2>6, <3>1, <3>2, <3>3 DEF Sent
    <2>9. Flow(Sent(u), u.lastRead, u.kept, u.gone, n + 1)
      <3>1. /\ Sent(t) \in Seq(Nat) /\ t.lastRead \in Nat
            /\ t.kept \in SUBSET Nat /\ t.gone \in SUBSET Nat
        BY Fields
      <3>2. Flow(Sent(t), t.lastRead, t.kept, t.gone, n)
        BY DEF Sound
      <3>3. Flow(Append(Sent(t), n + 1), t.lastRead, t.kept \union {n + 1}, t.gone, n + 1)
        BY <3>1, <3>2, FlowAppend
      <3> QED
        BY <2>6, <2>8, <3>3
    <2> QED
      BY <2>2, <2>5, <2>6, <2>7, <2>9 DEF Kept, Sound, u
  <1> QED
    BY <1>1, <1>2

(* Backspace. *)
LEMMA EraseOK ==
  ASSUME NEW t \in PtyType, Fits(t), NEW n \in Nat, Sound(t, n), t.canonical
  PROVE  Kept(t, Erase(t), n + 1)
  <1> DEFINE u == Erase(t)
             b == Last(t.line)
  <1>1. CASE t.line = <<>>
    BY <1>1, SameIsKept DEF Erase
  <1>2. CASE t.line # <<>>
    <2>1. u = [t EXCEPT !.line = Front(@), !.output = Echo(t, 3),
                        !.kept = @ \ {b}, !.gone = @ \union {b}]
      BY <1>2 DEF Erase
    <2>2. /\ Echo(t, 3) \in Seq(1 .. MaxPtys)
          /\ Len(Echo(t, 3)) <= RingSize
          /\ \A k \in DOMAIN Echo(t, 3) : Echo(t, 3)[k] = t.session
      BY EchoOK DEF Sound
    <2>3. /\ Front(t.line) \in Seq(Ids) /\ Len(Front(t.line)) = Len(t.line) - 1
          /\ b \in Ids /\ t.line = Append(Front(t.line), b)
      BY <1>2, Fields, Split
    <2>4. t.kept \ {b} \in SUBSET Ids /\ t.gone \union {b} \in SUBSET Ids
      BY <2>3, Fields
    <2>5. u \in PtyType
      BY <2>1, <2>2, <2>3, <2>4 DEF PtyType
    <2>6. /\ u.session = t.session /\ u.lastRead = t.lastRead /\ u.line = Front(t.line)
          /\ u.canonical = t.canonical /\ u.kept = t.kept \ {b}
          /\ u.gone = t.gone \union {b} /\ u.output = Echo(t, 3) /\ u.input = t.input
          /\ SameEnds(t, u)
      BY <2>1 DEF PtyType, SameEnds
    <2> HIDE DEF u
    <2>7. Fits(u)
      BY <2>2, <2>3, <2>6, Fields, Bounds DEF Fits
    <2>8. Sent(t) = Append(Sent(u), b) /\ Sent(u) \in Seq(Nat) /\ b \in Nat
      <3>1. b \in Nat /\ Sent(u) \in Seq(Nat)
        BY <2>3, <2>5, Bounds, Fields
      <3>2. t.line = Append(u.line, b) /\ t.input = u.input /\ b \in Ids
        BY <2>3, <2>6
      <3> HIDE DEF b
      <3> QED
        BY <2>5, <3>1, <3>2, SentAppend
    <2>9. Flow(Sent(u), u.lastRead, u.kept, u.gone, n)
      <3>1. /\ t.lastRead \in Nat /\ t.kept \in SUBSET Nat /\ t.gone \in SUBSET Nat
        BY Fields
      <3>2. Flow(Append(Sent(u), b), t.lastRead, t.kept, t.gone, n)
        BY <2>8 DEF Sound
      <3>3. Flow(Sent(u), t.lastRead, t.kept \ {b}, t.gone \union {b}, n)
        BY <2>8, <3>1, <3>2, FlowUndo
      <3> QED
        BY <2>6, <3>3
    <2>10. Flow(Sent(u), u.lastRead, u.kept, u.gone, n + 1)
      BY <2>5, <2>9, Fields, FlowLater
    <2> QED
      BY <2>2, <2>5, <2>6, <2>7, <2>10 DEF Kept, Sound, u
  <1> QED
    BY <1>1, <1>2

(* A line that goes to the ring changes nothing of what was sent. *)
LEMMA FlushOK ==
  ASSUME NEW t \in PtyType, Fits(t), NEW n \in Nat, Sound(t, n)
  PROVE  Kept(t, Flush(t), n)
  <1> DEFINE u == Flush(t)
  <1>1. CASE Room(t.input) < Len(t.line)
    BY <1>1 DEF Flush, Kept, SameEnds
  <1>2. CASE ~(Room(t.input) < Len(t.line))
    <2>1. u = [t EXCEPT !.input = @ \o t.line, !.line = <<>>]
      BY <1>2 DEF Flush
    <2>2. /\ t.input \o t.line \in Seq(Ids) /\ <<>> \in Seq(Ids)
          /\ Len(t.input \o t.line) = Len(t.input) + Len(t.line)
          /\ (t.input \o t.line) \o <<>> = t.input \o t.line
      BY Fields, ConcatEmptySeq
    <2>3. Len(t.input) + Len(t.line) <= RingSize
      <3>1. Len(t.input) \in Nat /\ Len(t.line) \in Nat
        BY Fields
      <3>2. ~(RingSize - Len(t.input) < Len(t.line)) /\ RingSize \in Nat
        BY <1>2, Bounds DEF Room
      <3> DEFINE i == Len(t.input)
                 l == Len(t.line)
      <3>3. i \in Nat /\ l \in Nat /\ ~(RingSize - i < l) /\ RingSize \in Nat
        BY <3>1, <3>2
      <3> HIDE DEF i, l
      <3>4. i + l <= RingSize
        BY <3>3
      <3> QED
        BY <3>4 DEF i, l
    <2>4. u \in PtyType
      BY <2>1, <2>2 DEF PtyType
    <2>5. /\ u.session = t.session /\ u.lastRead = t.lastRead /\ u.line = <<>>
          /\ u.canonical = t.canonical /\ u.kept = t.kept
          /\ u.gone = t.gone /\ u.output = t.output /\ u.input = t.input \o t.line
          /\ SameEnds(t, u)
      BY <2>1 DEF PtyType, SameEnds
    <2> HIDE DEF u
    <2>6. Fits(u)
      <3>1. Len(u.line) = 0 /\ Len(u.input) <= RingSize /\ u.output = t.output
        BY <2>2, <2>3, <2>5
      <3> QED
        BY <3>1, Bounds DEF Fits
    <2>7. Sent(u) = Sent(t)
      BY <2>2, <2>5 DEF Sent
    <2> QED
      BY <2>4, <2>5, <2>6, <2>7 DEF Kept, Sound, u
  <1> QED
    BY <1>1, <1>2

(* An ordinary byte in canonical mode. *)
LEMMA StoreOK ==
  ASSUME NEW t \in PtyType, Fits(t), NEW n \in Nat, n + 1 \in Ids, Sound(t, n),
         t.canonical, NEW c
  PROVE  Kept(t, Store(t, n + 1, c), n + 1)
  <1> DEFINE L == Append(t.line, n + 1)
             O == Echo(t, 1)
             u == [t EXCEPT !.line = L, !.output = O]
             v == [t EXCEPT !.line = L, !.output = O, !.kept = @ \union {n + 1}]
  <1>1. CASE Len(t.line) >= LineSize
    BY <1>1, SameIsKept DEF Store
  <1>2. CASE ~(Len(t.line) >= LineSize)
    <2>1. /\ O \in Seq(1 .. MaxPtys) /\ Len(O) <= RingSize
          /\ \A k \in DOMAIN O : O[k] = t.session
      BY EchoOK DEF Sound
    <2>2. L \in Seq(Ids) /\ Len(L) = Len(t.line) + 1 /\ t.kept \union {n + 1} \in SUBSET Ids
      BY Fields
    <2>3. Len(t.line) + 1 <= LineSize
      BY <1>2, Fields, Bounds
    <2>4. Store(t, n + 1, c) \in {u, v, Flush(v)}
      BY <1>2 DEF Store, Take, PtyType
    <2> HIDE DEF L, O
    <2>5. u \in PtyType /\ v \in PtyType
      BY <2>1, <2>2 DEF PtyType
    <2>6. /\ u.session = t.session /\ u.lastRead = t.lastRead /\ u.line = L
          /\ u.canonical = t.canonical /\ u.kept = t.kept
          /\ u.gone = t.gone /\ u.output = O /\ u.input = t.input
          /\ SameEnds(t, u)
      BY DEF PtyType, SameEnds
    <2>7. /\ v.session = t.session /\ v.lastRead = t.lastRead /\ v.line = L
          /\ v.canonical = t.canonical /\ v.kept = t.kept \union {n + 1}
          /\ v.gone = t.gone /\ v.output = O /\ v.input = t.input
          /\ SameEnds(t, v)
      BY DEF PtyType, SameEnds
    <2> HIDE DEF u, v
    <2>8. Fits(u) /\ Fits(v)
      BY <2>1, <2>2, <2>3, <2>6, <2>7 DEF Fits
    <2>9. Sent(u) = Append(Sent(t), n + 1) /\ Sent(v) = Append(Sent(t), n + 1)
      BY <2>6, <2>7, SentAppend DEF L
    <2>10. /\ Flow(Sent(u), u.lastRead, u.kept, u.gone, n + 1)
           /\ Flow(Sent(v), v.lastRead, v.kept, v.gone, n + 1)
      <3>1. /\ Sent(t) \in Seq(Nat) /\ t.lastRead \in Nat
            /\ t.kept \in SUBSET Nat /\ t.gone \in SUBSET Nat
        BY Fields
      <3>2. Flow(Sent(t), t.lastRead, t.kept, t.gone, n)
        BY DEF Sound
      <3>3. /\ Flow(Append(Sent(t), n + 1), t.lastRead, t.kept, t.gone, n + 1)
            /\ Flow(Append(Sent(t), n + 1), t.lastRead, t.kept \union {n + 1}, t.gone, n + 1)
        BY <3>1, <3>2, FlowAppend
      <3> QED
        BY <2>6, <2>7, <2>9, <3>3
    <2>11. Kept(t, u, n + 1) /\ Kept(t, v, n + 1)
      BY <2>1, <2>5, <2>6, <2>7, <2>8, <2>10 DEF Kept, Sound
    <2>12. Kept(v, Flush(v), n + 1)
      BY <2>11, FlushOK DEF Kept
    <2> QED
      BY <2>4, <2>7, <2>11, <2>12 DEF Kept, SameEnds
  <1> QED
    BY <1>1, <1>2

(* Every byte the master types, in either mode. *)
LEMMA DisciplineOK ==
  ASSUME NEW t \in PtyType, Fits(t), NEW n \in Nat, n + 1 \in Ids, Sound(t, n), NEW c
  PROVE  Kept(t, Discipline(t, n + 1, c), n + 1)
  <1>1. CASE ~t.canonical
    BY <1>1, RawOK DEF Discipline
  <1>2. CASE t.canonical /\ c = "erase"
    BY <1>2, EraseOK DEF Discipline
  <1>3. CASE t.canonical /\ c = "eof"
    <2>1. Sound(t, n + 1)
      BY SameIsKept DEF Kept
    <2>2. Kept(t, Flush(t), n + 1)
      BY <2>1, FlushOK
    <2> QED
      BY <1>3, <2>2 DEF Discipline
  <1>4. CASE t.canonical /\ c # "erase" /\ c # "eof"
    BY <1>4, StoreOK DEF Discipline
  <1> QED
    BY <1>1, <1>2, <1>3, <1>4

-----------------------------------------------------------------------------
(* The inductive invariant *)

(* The open ends of t belong to processes of L, in the incarnations I. *)
Holds(t, L, I) ==
    /\ t.masterOpen => t.master \in L /\ t.holders[1] = <<t.master, I[t.master]>>
    /\ t.slaveOpen => t.slave \in L /\ t.holders[2] = <<t.slave, I[t.slave]>>

Good(t, n, L, I) ==
    /\ t \in PtyType /\ Fits(t)
    /\ Holds(t, L, I)
    /\ t.allocated <=> t.masterOpen \/ t.slaveOpen
    /\ t.allocated => Sound(t, n)

Rest ==
    /\ LifecycleTypeOK
    /\ tty \in [Ttys -> {Nobody} \union Programs]
    /\ \A i \in Ttys : tty[i] # Nobody => tty[i][1] \in live /\ tty[i] = Program(tty[i][1])
    /\ files \in [Pids -> SUBSET (Ptys \X {"stdio", "extra"})]
    /\ control \in [Pids -> Ptys \union {None}]
    /\ group \in [Pids -> Pids]
    /\ typed \in 0 .. MaxTyped
    /\ created \in 0 .. MaxPtys
    /\ workload \in Workloads

(* Ownership of the ends, use of the slot and flow of the bytes have to go   *)
(* together: only a slot whose ends are owned is used, and only a slot in    *)
(* use has an order of bytes to keep.                                        *)
IInv ==
    /\ Rest
    /\ pty \in [Ptys -> PtyType]
    /\ \A i \in Ptys : Good(pty[i], typed, live, incarnation)

(* The slot a program takes when it starts is that of a PID. *)
LEMMA ProgramType ==
  ASSUME LifecycleTypeOK, NEW p \in Pids
  PROVE  Program(p) \in Programs /\ Program(p) = <<p, incarnation[p]>>
  BY DEF LifecycleTypeOK, Program, Programs

(* An unused slot. *)
LEMMA NoPtyOK == NoPty \in PtyType /\ NoPty.line = <<>> /\ NoPty.input = <<>> /\ NoPty.output = <<>>
  <1>1. <<<<0, 0>>, <<0, 0>>>> \in Programs \X Programs
    BY LifecycleAssumption DEF Programs, Pids
  <1>2. /\ <<>> \in Seq(Ids) /\ <<>> \in Seq(1 .. MaxPtys) /\ {} \in SUBSET Ids
        /\ 0 \in 0 .. MaxPtys /\ 0 \in 0 .. MaxTyped
    BY Bounds
  <1> QED
    BY <1>1, <1>2 DEF NoPty, PtyType

(* Boot. *)
LEMMA InitIInv == Init => IInv
  <1> SUFFICES ASSUME Init PROVE IInv
    OBVIOUS
  <1>1. Rest
    BY PtyAssumption, LifecycleAssumption
    DEF Init, Rest, LifecycleInit, LifecycleTypeOK, Pids, Nobody
  <1>2. pty = [i \in Ptys |-> NoPty]
    BY DEF Init
  <1>3. Fits(NoPty)
    BY NoPtyOK, Bounds DEF Fits
  <1>4. ~NoPty.allocated /\ ~NoPty.masterOpen /\ ~NoPty.slaveOpen
    BY DEF NoPty
  <1>5. Good(NoPty, typed, live, incarnation)
    BY <1>3, <1>4, NoPtyOK DEF Good, Holds
  <1> QED
    BY <1>1, <1>2, <1>5, NoPtyOK DEF IInv

(* A step that changes one terminal, and perhaps types one byte there. *)
LEMMA OneTerminal ==
  ASSUME IInv, NEW i \in Ptys, NEW u, Good(u, typed', live, incarnation),
         pty' = [pty EXCEPT ![i] = u], Rest', typed' \in {typed, typed + 1},
         UNCHANGED <<live, incarnation>>
  PROVE  IInv'
  <1>1. u \in PtyType
    BY DEF Good
  <1>2. pty' \in [Ptys -> PtyType]
    BY <1>1 DEF IInv
  <1>3. ASSUME NEW j \in Ptys PROVE Good(pty'[j], typed', live', incarnation')
    <2>1. CASE j = i
      BY <2>1 DEF IInv
    <2>2. CASE j # i
      <3>1. pty'[j] = pty[j] /\ Good(pty[j], typed, live, incarnation) /\ typed \in Nat
        BY <2>2 DEF IInv, Rest
      <3>2. pty[j].allocated => Sound(pty[j], typed')
        BY <3>1, SameIsKept DEF Good, Kept
      <3> QED
        BY <3>1, <3>2 DEF Good
    <2> QED
      BY <2>1, <2>2
  <1> QED
    BY <1>2, <1>3 DEF IInv

(* A step that changes no terminal, no process and types nothing. *)
LEMMA NoTerminal ==
  ASSUME IInv, Rest', UNCHANGED <<pty, typed, live, incarnation>>
  PROVE  IInv'
  BY DEF IInv

(* pty_create *)
LEMMA CreateStep ==
  ASSUME IInv, NEW p \in Pids, NEW i \in Ptys, Create(p, i)
  PROVE  IInv'
  <1> DEFINE h == <<Program(p), Program(p)>>
             u == [NoPty EXCEPT !.allocated = TRUE, !.masterOpen = TRUE, !.slaveOpen = TRUE,
                        !.master = p, !.slave = p, !.session = created + 1,
                        !.holders = h, !.lastRead = typed]
  <1>1. pty' = [pty EXCEPT ![i] = u] /\ p \in live
    BY DEF Create
  <1>2. /\ Rest' /\ created + 1 \in 0 .. MaxPtys /\ created + 1 # 0 /\ typed \in 0 .. MaxTyped
        /\ typed' = typed /\ UNCHANGED <<live, incarnation>>
    BY Bounds DEF Create, IInv, Rest, LifecycleTypeOK, Program
  <1>3. h \in Programs \X Programs /\ h[1] = <<p, incarnation[p]>> /\ h[2] = <<p, incarnation[p]>>
    BY ProgramType DEF IInv, Rest
  <1> HIDE DEF h
  <1>4. u \in PtyType
    BY <1>2, <1>3, NoPtyOK DEF PtyType
  <1>5. /\ u.allocated /\ u.masterOpen /\ u.slaveOpen /\ u.master = p /\ u.slave = p
        /\ u.session = created + 1 /\ u.holders = h /\ u.lastRead = typed
        /\ u.line = <<>> /\ u.input = <<>> /\ u.output = <<>> /\ u.canonical
        /\ u.kept = {} /\ u.gone = {}
    BY DEF NoPty
  <1> HIDE DEF u
  <1>6. Holds(u, live, incarnation)
    BY <1>1, <1>3, <1>5 DEF Holds
  <1>7. Fits(u)
    BY <1>5, Bounds DEF Fits
  <1>8. Sent(u) = <<>>
    BY <1>5 DEF Sent
  <1>9. Flow(<<>>, typed, {}, {}, typed)
    BY <1>2 DEF Flow
  <1>10. Sound(u, typed)
    BY <1>2, <1>5, <1>8, <1>9 DEF Sound
  <1> QED
    BY <1>1, <1>2, <1>4, <1>5, <1>6, <1>7, <1>10, OneTerminal DEF Good

(* The ends of t and what is recorded of them change, the bytes do not. *)
SameBytes(t, u) ==
    /\ u.line = t.line /\ u.input = t.input /\ u.output = t.output
    /\ u.canonical = t.canonical /\ u.session = t.session /\ u.lastRead = t.lastRead
    /\ u.kept = t.kept /\ u.gone = t.gone

(* What was sound stays sound while the bytes stay. *)
LEMMA SameBytesOK ==
  ASSUME NEW t, NEW u, NEW n, SameBytes(t, u)
  PROVE  (Fits(t) => Fits(u)) /\ (Sound(t, n) => Sound(u, n))
  BY DEF SameBytes, Fits, Sound, Sent

(* The record of who holds the slave. *)
LEMMA SecondHolder ==
  ASSUME NEW h \in Programs \X Programs, NEW x \in Programs
  PROVE  /\ [h EXCEPT ![2] = x] \in Programs \X Programs
         /\ [h EXCEPT ![2] = x][1] = h[1] /\ [h EXCEPT ![2] = x][2] = x
  OBVIOUS

(* pty_attach *)
LEMMA AttachStep ==
  ASSUME IInv, NEW p \in Pids, NEW i \in Ptys, NEW t \in Pids, Attach(p, i, t)
  PROVE  IInv'
  <1> DEFINE h == [pty[i].holders EXCEPT ![2] = Program(t)]
             u == [pty[i] EXCEPT !.slave = t, !.foreground = group[t], !.holders = h]
  <1>1. pty[i] \in PtyType /\ Good(pty[i], typed, live, incarnation)
    BY DEF IInv
  <1>2. pty' = [pty EXCEPT ![i] = u]
    BY <1>1 DEF Attach, IInv, PtyType
  <1>3. Rest' /\ UNCHANGED <<typed, live, incarnation>> /\ group[t] \in Pids /\ t \in live
    BY DEF Attach, IInv, Rest, LifecycleTypeOK, Program
  <1>4. pty[i].holders \in Programs \X Programs
    BY <1>1 DEF PtyType
  <1>5. Program(t) \in Programs /\ Program(t) = <<t, incarnation[t]>>
    BY ProgramType DEF IInv, Rest
  <1>6. h \in Programs \X Programs /\ h[1] = pty[i].holders[1] /\ h[2] = <<t, incarnation[t]>>
    BY <1>4, <1>5, SecondHolder
  <1> HIDE DEF h
  <1>7. u \in PtyType
    BY <1>1, <1>3, <1>6 DEF PtyType
  <1>8. /\ SameBytes(pty[i], u) /\ u.allocated = pty[i].allocated
        /\ u.masterOpen = pty[i].masterOpen /\ u.slaveOpen = pty[i].slaveOpen
        /\ u.master = pty[i].master /\ u.slave = t /\ u.holders = h
    BY <1>1 DEF SameBytes, PtyType
  <1> HIDE DEF u
  <1>9. Holds(u, live, incarnation)
    BY <1>1, <1>3, <1>6, <1>8 DEF Holds, Good
  <1>10. Good(u, typed, live, incarnation)
    BY <1>1, <1>7, <1>8, <1>9, SameBytesOK DEF Good
  <1> QED
    BY <1>2, <1>3, <1>10, OneTerminal

(* Closing ends keeps a terminal good, among the processes that remain. *)
LEMMA ClosedOK ==
  ASSUME NEW t, NEW n, NEW L, NEW M, NEW I, Good(t, n, L, I),
         NEW m \in BOOLEAN, NEW s \in BOOLEAN, M \subseteq L,
         t.masterOpen /\ ~m => t.master \in M,
         t.slaveOpen /\ ~s => t.slave \in M
  PROVE  Good(Closed(t, m, s), n, M, I)
  <1> DEFINE mo == t.masterOpen /\ ~m
             so == t.slaveOpen /\ ~s
             al == mo \/ so
             u == [t EXCEPT !.masterOpen = mo, !.slaveOpen = so, !.allocated = al]
  <1>1. Closed(t, m, s) = u
    BY DEF Closed
  <1>2. mo \in BOOLEAN /\ so \in BOOLEAN /\ al \in BOOLEAN /\ t \in PtyType
    BY DEF Good, PtyType
  <1>3. /\ mo => t.masterOpen /\ t.master \in M
        /\ so => t.slaveOpen /\ t.slave \in M
        /\ al <=> mo \/ so
        /\ al => t.allocated
    BY DEF Good
  <1> HIDE DEF mo, so, al
  <1>4. u \in PtyType
    BY <1>2 DEF PtyType
  <1>5. /\ SameBytes(t, u) /\ u.allocated = al
        /\ u.masterOpen = mo /\ u.slaveOpen = so
        /\ u.master = t.master /\ u.slave = t.slave /\ u.holders = t.holders
    BY <1>2 DEF SameBytes, PtyType
  <1> HIDE DEF u
  <1>6. Holds(u, M, I)
    BY <1>3, <1>5 DEF Holds, Good
  <1> QED
    BY <1>1, <1>3, <1>4, <1>5, <1>6, SameBytesOK DEF Good

(* pty_close *)
LEMMA CloseEndStep ==
  ASSUME IInv, NEW p \in Pids, NEW i \in Ptys, NEW slave \in BOOLEAN, CloseEnd(p, i, slave)
  PROVE  IInv'
  <1>1. Good(pty[i], typed, live, incarnation) /\ (~slave) \in BOOLEAN
    BY DEF IInv
  <1>2. pty' = [pty EXCEPT ![i] = Closed(pty[i], ~slave, slave)]
    BY DEF CloseEnd
  <1>3. Rest' /\ UNCHANGED <<typed, live, incarnation>>
    BY DEF CloseEnd, IInv, Rest, LifecycleTypeOK, Program
  <1>4. Good(Closed(pty[i], ~slave, slave), typed, live, incarnation)
    <2> DEFINE m == ~slave
    <2>1. /\ m \in BOOLEAN /\ live \subseteq live
          /\ pty[i].masterOpen /\ ~m => pty[i].master \in live
          /\ pty[i].slaveOpen /\ ~slave => pty[i].slave \in live
      BY <1>1 DEF Good, Holds
    <2> HIDE DEF m
    <2>2. Good(Closed(pty[i], m, slave), typed, live, incarnation)
      BY <1>1, <2>1, ClosedOK
    <2> QED
      BY <2>2 DEF m
  <1> QED
    BY <1>2, <1>3, <1>4, OneTerminal

(* fd_close of the last descriptor of an open file of a terminal. *)
LEMMA CloseFileStep ==
  ASSUME IInv, NEW p \in Pids, NEW f \in files[p], CloseFile(p, f)
  PROVE  IInv'
  <1> DEFINE i == f[1]
             u == IF SlaveAllowed(p, i) THEN Closed(pty[i], FALSE, TRUE) ELSE pty[i]
  <1>1. i \in Ptys
    BY DEF IInv, Rest
  <1>2. pty' = [pty EXCEPT ![i] = u]
    BY DEF CloseFile
  <1>3. Rest' /\ UNCHANGED <<typed, live, incarnation>>
    BY DEF CloseFile, IInv, Rest, LifecycleTypeOK, Program
  <1>4. Good(pty[i], typed, live, incarnation)
    BY <1>1 DEF IInv
  <1>5. Good(Closed(pty[i], FALSE, TRUE), typed, live, incarnation)
    <2>1. /\ FALSE \in BOOLEAN /\ TRUE \in BOOLEAN /\ live \subseteq live
          /\ pty[i].masterOpen /\ ~FALSE => pty[i].master \in live
          /\ pty[i].slaveOpen /\ ~TRUE => pty[i].slave \in live
      BY <1>4 DEF Good, Holds
    <2> QED
      BY <1>4, <2>1, ClosedOK
  <1>6. Good(u, typed, live, incarnation)
    BY <1>4, <1>5
  <1> QED
    BY <1>1, <1>2, <1>3, <1>6, OneTerminal

(* The end of processes closes the ends they hold, and every plain terminal  *)
(* they own.                                                                 *)
LEMMA ExitStep ==
  ASSUME IInv, NEW S \in SUBSET Pids, Exit(S)
  PROVE  IInv'
  <1>1. /\ live' = live \ S /\ incarnation' = incarnation /\ typed' = typed
        /\ pty' = [i \in Ptys |-> Closed(pty[i], pty[i].master \in S, pty[i].slave \in S)]
    BY DEF Exit, End
  <1>2. Rest'
    <2>1. LifecycleTypeOK'
      BY <1>1 DEF IInv, Rest, LifecycleTypeOK
    <2>2. /\ tty' = [i \in Ttys |-> IF Owned(S, i) THEN Nobody ELSE tty[i]]
          /\ files' = [p \in Pids |-> IF p \in S THEN {} ELSE files[p]]
          /\ UNCHANGED <<control, group, typed, created, workload>>
      BY DEF Exit
    <2>3. tty' \in [Ttys -> {Nobody} \union Programs]
      BY <2>2 DEF IInv, Rest
    <2>4. ASSUME NEW i \in Ttys, tty'[i] # Nobody
          PROVE  tty'[i][1] \in live' /\ tty'[i] = <<tty'[i][1], incarnation'[tty'[i][1]]>>
      BY <1>1, <2>2, <2>4 DEF IInv, Rest, Owned, Program
    <2>5. files' \in [Pids -> SUBSET (Ptys \X {"stdio", "extra"})]
      BY <2>2 DEF IInv, Rest
    <2> QED
      BY <2>1, <2>2, <2>3, <2>4, <2>5 DEF IInv, Rest, Program
  <1>3. ASSUME NEW i \in Ptys PROVE Good(pty'[i], typed', live', incarnation')
    <2> DEFINE m == pty[i].master \in S
               s == pty[i].slave \in S
    <2>1. Good(pty[i], typed, live, incarnation)
      BY DEF IInv
    <2>2. /\ m \in BOOLEAN /\ s \in BOOLEAN /\ live' \subseteq live
          /\ pty[i].masterOpen /\ ~m => pty[i].master \in live'
          /\ pty[i].slaveOpen /\ ~s => pty[i].slave \in live'
      BY <1>1, <2>1 DEF Good, Holds
    <2>3. pty'[i] = Closed(pty[i], m, s)
      BY <1>1
    <2> HIDE DEF m, s
    <2> QED
      BY <1>1, <2>1, <2>2, <2>3, ClosedOK
  <1>4. pty' \in [Ptys -> PtyType]
    BY <1>1, <1>3 DEF Good
  <1> QED
    BY <1>2, <1>3, <1>4 DEF IInv

(* A new program under a PID nobody holds: no open end names that PID. *)
LEMMA SpawnStep ==
  ASSUME IInv, NEW p \in Pids, Spawn(p)
  PROVE  IInv'
  <1>1. /\ p \in Pids \ live /\ live' = live \union {p}
        /\ incarnation' = [incarnation EXCEPT ![p] = @ + 1]
        /\ UNCHANGED <<pty, tty, files, typed, created, workload>>
    BY DEF Spawn, Begin, FirstFree
  <1>2. incarnation \in [Pids -> 0 .. MaxSpawns] /\ live \subseteq Pids
    BY DEF IInv, Rest, LifecycleTypeOK
  <1>3. \A q \in live : incarnation'[q] = incarnation[q]
    BY <1>1, <1>2
  <1>4. Rest'
    <2>1. LifecycleTypeOK'
      BY LifecycleAssumption DEF Spawn, Begin, FirstFree, IInv, Rest, LifecycleTypeOK
    <2>2. control' \in [Pids -> Ptys \union {None}] /\ group' \in [Pids -> Pids]
      BY DEF Spawn, IInv, Rest
    <2>3. \A i \in Ttys : tty[i] # Nobody => tty[i][1] \in live' /\ tty[i] = Program(tty[i][1])'
      BY <1>1, <1>3 DEF IInv, Rest, Program
    <2> QED
      BY <1>1, <2>1, <2>2, <2>3 DEF IInv, Rest
  <1>5. ASSUME NEW i \in Ptys PROVE Good(pty'[i], typed', live', incarnation')
    <2>1. Good(pty[i], typed, live, incarnation)
      BY DEF IInv
    <2>2. Holds(pty[i], live', incarnation')
      BY <1>1, <1>3, <2>1 DEF Good, Holds
    <2> QED
      BY <1>1, <2>1, <2>2 DEF Good
  <1> QED
    BY <1>1, <1>4, <1>5 DEF IInv

(* pty_write at the master. *)
LEMMA TypeStep ==
  ASSUME IInv, NEW p \in Pids, NEW i \in Ptys, NEW c \in Chars, Type(p, i, c)
  PROVE  IInv'
  <1> DEFINE u == Discipline(pty[i], typed + 1, c)
  <1>1. /\ pty' = [pty EXCEPT ![i] = u] /\ pty[i].allocated /\ typed' = typed + 1
        /\ UNCHANGED <<live, incarnation>>
    BY DEF Type, MasterAllowed
  <1>2. Rest' /\ typed \in Nat /\ typed + 1 \in Ids
    BY Bounds DEF Type, IInv, Rest, LifecycleTypeOK, Program, Ids
  <1>3. Good(pty[i], typed, live, incarnation)
    BY DEF IInv
  <1>4. Kept(pty[i], u, typed + 1)
    BY <1>1, <1>2, <1>3, DisciplineOK DEF Good
  <1>5. Good(u, typed + 1, live, incarnation)
    BY <1>3, <1>4 DEF Good, Kept, Holds, SameEnds
  <1> QED
    BY <1>1, <1>2, <1>5, OneTerminal

(* pty_write at the slave. *)
LEMMA AnswerStep ==
  ASSUME IInv, NEW p \in Pids, NEW i \in Ptys, Answer(p, i)
  PROVE  IInv'
  <1> DEFINE t == pty[i]
             o == RingWrite(t.output, <<t.session>>)
             u == [t EXCEPT !.output = o]
  <1>1. t \in PtyType /\ Good(t, typed, live, incarnation) /\ t.allocated /\ Sound(t, typed)
    BY DEF IInv, Good, Answer, SlaveAllowed
  <1>2. pty' = [pty EXCEPT ![i] = u]
    BY DEF Answer
  <1>3. Rest' /\ UNCHANGED <<typed, live, incarnation>>
    BY DEF Answer, IInv, Rest, LifecycleTypeOK, Program
  <1>4. o \in Seq(1 .. MaxPtys) /\ Len(o) <= RingSize /\ \A k \in DOMAIN o : o[k] = t.session
    <2> DEFINE r == t.output
               x == t.session
               w == <<x>>
    <2>1. /\ r \in Seq(1 .. MaxPtys) /\ Len(r) <= RingSize /\ x \in 1 .. MaxPtys
          /\ \A k \in DOMAIN r : r[k] = x
      BY <1>1, Fields, Bounds DEF Good, Fits, Sound
    <2> HIDE DEF r, x
    <2>2. w \in Seq(1 .. MaxPtys) /\ \A k \in DOMAIN w : w[k] = x
      BY <2>1
    <2>3. o = RingWrite(r, w)
      BY DEF r, x
    <2> HIDE DEF w, o
    <2>4. o \in Seq(1 .. MaxPtys) /\ Len(o) <= RingSize /\ \A k \in DOMAIN o : o[k] = x
      BY <2>1, <2>2, <2>3, RingWriteOK
    <2> QED
      BY <2>4 DEF x
  <1> HIDE DEF o
  <1>5. u \in PtyType
    BY <1>1, <1>4 DEF PtyType
  <1>6. /\ u.session = t.session /\ u.lastRead = t.lastRead /\ u.line = t.line
        /\ u.canonical = t.canonical /\ u.kept = t.kept
        /\ u.gone = t.gone /\ u.output = o /\ u.input = t.input
        /\ SameEnds(t, u)
    BY <1>1 DEF PtyType, SameEnds
  <1> HIDE DEF u
  <1>7. Fits(u) /\ Sound(u, typed)
    BY <1>1, <1>4, <1>6 DEF Good, Fits, Sound, Sent
  <1>8. Good(u, typed, live, incarnation)
    BY <1>1, <1>5, <1>6, <1>7 DEF Good, Holds, SameEnds
  <1> QED
    BY <1>2, <1>3, <1>8, OneTerminal

(* pty_read at the slave. *)
LEMMA ReadInputStep ==
  ASSUME IInv, NEW p \in Pids, NEW i \in Ptys, ReadInput(p, i)
  PROVE  IInv'
  <1> DEFINE t == pty[i]
             u == [t EXCEPT !.input = Tail(@), !.lastRead = Head(t.input)]
  <1>1. /\ t \in PtyType /\ Good(t, typed, live, incarnation)
        /\ t.allocated /\ t.input # <<>> /\ Sound(t, typed)
    BY DEF IInv, Good, ReadInput, SlaveAllowed
  <1>2. pty' = [pty EXCEPT ![i] = u]
    BY <1>1 DEF ReadInput, IInv, PtyType
  <1>3. Rest' /\ UNCHANGED <<typed, live, incarnation>> /\ typed \in Nat
    BY DEF ReadInput, IInv, Rest, LifecycleTypeOK, Program
  <1>4. /\ Head(t.input) \in Ids /\ Tail(t.input) \in Seq(Ids)
        /\ Len(Tail(t.input)) = Len(t.input) - 1
    BY <1>1, Fields, Split
  <1>5. Head(t.input) \in 0 .. MaxTyped /\ Head(t.input) \in Nat
    BY <1>4, Bounds DEF Ids
  <1>6. u \in PtyType
    BY <1>1, <1>4, <1>5 DEF PtyType
  <1>7. /\ u.session = t.session /\ u.lastRead = Head(t.input) /\ u.line = t.line
        /\ u.canonical = t.canonical /\ u.kept = t.kept
        /\ u.gone = t.gone /\ u.output = t.output /\ u.input = Tail(t.input)
        /\ SameEnds(t, u)
    BY <1>1 DEF PtyType, SameEnds
  <1> HIDE DEF u
  <1>8. Fits(u)
    <2>1. Len(u.line) = Len(t.line) /\ Len(u.output) = Len(t.output) /\ Len(u.input) = Len(t.input) - 1
      BY <1>4, <1>7
    <2>2. Len(t.input) \in Nat /\ Len(t.input) <= RingSize
      BY <1>1, Fields DEF Good, Fits
    <2>3. Len(t.input) - 1 <= RingSize
      BY <2>2, Bounds
    <2> QED
      BY <1>1, <2>1, <2>3 DEF Good, Fits
  <1>9. Sent(t) = <<Head(t.input)>> \o Sent(u)
    <2> DEFINE a == t.input
               l == t.line
    <2>1. a \in Seq(Nat) /\ l \in Seq(Nat) /\ a # <<>> /\ Sent(u) = Tail(a) \o l /\ Sent(t) = a \o l
      BY <1>1, <1>7, Fields DEF Sent
    <2> HIDE DEF a, l
    <2>2. Sent(t) = <<Head(a)>> \o Sent(u)
      BY <2>1, ConcatFirst
    <2> QED
      BY <2>2 DEF a
  <1>10. Flow(Sent(u), u.lastRead, u.kept, u.gone, typed)
    <2> DEFINE x == Head(t.input)
               v == Sent(u)
    <2>1. /\ v \in Seq(Nat) /\ x \in Nat /\ t.lastRead \in Nat
          /\ t.kept \in SUBSET Nat /\ t.gone \in SUBSET Nat
      BY <1>1, <1>5, <1>6, Fields
    <2>2. Flow(<<x>> \o v, t.lastRead, t.kept, t.gone, typed)
      BY <1>1, <1>9 DEF Sound
    <2>3. u.lastRead = x /\ u.kept = t.kept /\ u.gone = t.gone
      BY <1>7
    <2> HIDE DEF x, v
    <2>4. Flow(v, x, t.kept, t.gone, typed)
      BY <1>3, <2>1, <2>2, FlowRead
    <2> QED
      BY <2>3, <2>4 DEF v
  <1>11. Sound(u, typed)
    BY <1>1, <1>7, <1>10 DEF Sound
  <1>12. Good(u, typed, live, incarnation)
    BY <1>1, <1>6, <1>7, <1>8, <1>11 DEF Good, Holds, SameEnds
  <1> QED
    BY <1>2, <1>3, <1>12, OneTerminal

(* pty_read at the master. *)
LEMMA ReadOutputStep ==
  ASSUME IInv, NEW p \in Pids, NEW i \in Ptys, ReadOutput(p, i)
  PROVE  IInv'
  <1> DEFINE t == pty[i]
             u == [t EXCEPT !.output = Tail(@)]
  <1>1. /\ t \in PtyType /\ Good(t, typed, live, incarnation)
        /\ t.allocated /\ t.output # <<>> /\ Sound(t, typed)
    BY DEF IInv, Good, ReadOutput, MasterAllowed
  <1>2. pty' = [pty EXCEPT ![i] = u]
    BY <1>1 DEF ReadOutput, IInv, PtyType
  <1>3. Rest' /\ UNCHANGED <<typed, live, incarnation>>
    BY DEF ReadOutput, IInv, Rest, LifecycleTypeOK, Program
  <1>4. /\ Tail(t.output) \in Seq(1 .. MaxPtys) /\ Len(Tail(t.output)) <= RingSize
        /\ \A k \in DOMAIN Tail(t.output) : Tail(t.output)[k] = t.session
    <2> DEFINE o == t.output
               x == t.session
    <2>1. /\ o \in Seq(1 .. MaxPtys) /\ o # <<>> /\ Len(o) <= RingSize
          /\ \A k \in DOMAIN o : o[k] = x
      BY <1>1, Fields DEF Good, Fits, Sound
    <2> HIDE DEF o, x
    <2>2. /\ Tail(o) \in Seq(1 .. MaxPtys) /\ Len(Tail(o)) = Len(o) - 1
          /\ \A k \in 1 .. Len(Tail(o)) : Tail(o)[k] = o[k + 1]
      BY <2>1, Split
    <2>3. Len(o) \in Nat /\ DOMAIN o = 1 .. Len(o) /\ DOMAIN Tail(o) = 1 .. Len(Tail(o))
      BY <2>1, <2>2
    <2>4. Len(Tail(o)) <= RingSize
      BY <2>1, <2>2, <2>3, Bounds
    <2>5. \A k \in 1 .. Len(Tail(o)) : k + 1 \in 1 .. Len(o)
      BY <2>2, <2>3
    <2>6. \A k \in DOMAIN Tail(o) : Tail(o)[k] = x
      BY <2>1, <2>2, <2>3, <2>5
    <2> QED
      BY <2>2, <2>4, <2>6 DEF o, x
  <1>5. u \in PtyType
    BY <1>1, <1>4 DEF PtyType
  <1>6. /\ u.session = t.session /\ u.lastRead = t.lastRead /\ u.line = t.line
        /\ u.canonical = t.canonical /\ u.kept = t.kept
        /\ u.gone = t.gone /\ u.output = Tail(t.output) /\ u.input = t.input
        /\ SameEnds(t, u)
    BY <1>1 DEF PtyType, SameEnds
  <1> HIDE DEF u
  <1>7. Fits(u) /\ Sound(u, typed)
    BY <1>1, <1>4, <1>6 DEF Good, Fits, Sound, Sent
  <1>8. Good(u, typed, live, incarnation)
    BY <1>1, <1>5, <1>6, <1>7 DEF Good, Holds, SameEnds
  <1> QED
    BY <1>2, <1>3, <1>8, OneTerminal

(* pty_set_mode *)
LEMMA SetModeStep ==
  ASSUME IInv, NEW p \in Pids, NEW i \in Ptys, NEW canonical \in BOOLEAN, NEW echo \in BOOLEAN,
         SetMode(p, i, canonical, echo)
  PROVE  IInv'
  <1> DEFINE t == pty[i]
             K == t.kept \ Range(t.line)
             G == t.gone \union (Range(t.line) \intersect t.kept)
             u == [t EXCEPT !.canonical = canonical, !.echo = echo, !.line = <<>>,
                            !.kept = K, !.gone = G]
  <1>1. /\ t \in PtyType /\ Good(t, typed, live, incarnation)
        /\ t.allocated /\ Sound(t, typed)
    BY DEF IInv, Good, SetMode, IsMaster
  <1>2. pty' = [pty EXCEPT ![i] = u]
    BY <1>1 DEF SetMode, IInv, PtyType
  <1>3. Rest' /\ UNCHANGED <<typed, live, incarnation>> /\ typed \in Nat
    BY DEF SetMode, IInv, Rest, LifecycleTypeOK, Program
  <1>4. K \in SUBSET Ids /\ G \in SUBSET Ids /\ <<>> \in Seq(Ids)
    BY <1>1, Fields
  <1>5. Flow(t.input \o <<>>, t.lastRead, K, G, typed)
    <2> DEFINE a == t.input
               l == t.line
               r == t.lastRead
               k == t.kept
               g == t.gone
    <2>1. /\ a \in Seq(Nat) /\ l \in Seq(Nat) /\ r \in Nat
          /\ k \in SUBSET Nat /\ g \in SUBSET Nat
      BY <1>1, Fields
    <2>2. Flow(a \o l, r, k, g, typed)
      BY <1>1 DEF Sound, Sent
    <2> HIDE DEF a, l, r, k, g
    <2>3. Flow(a \o <<>>, r, k \ Range(l), g \union (Range(l) \intersect k), typed)
      BY <1>3, <2>1, <2>2, FlowDrop
    <2> QED
      BY <2>3 DEF a, l, r, k, g
  <1> HIDE DEF K, G
  <1>6. u \in PtyType
    BY <1>1, <1>4 DEF PtyType
  <1>7. /\ u.session = t.session /\ u.lastRead = t.lastRead /\ u.line = <<>>
        /\ u.kept = K /\ u.gone = G /\ u.output = t.output /\ u.input = t.input
        /\ SameEnds(t, u)
    BY <1>1 DEF PtyType, SameEnds
  <1> HIDE DEF u
  <1>8. Fits(u)
    <2>1. Len(u.line) = 0 /\ Len(u.output) = Len(t.output) /\ Len(u.input) = Len(t.input)
      BY <1>7
    <2> QED
      BY <1>1, <2>1, Bounds DEF Good, Fits
  <1>9. Sound(u, typed)
    BY <1>1, <1>5, <1>7 DEF Sound, Sent
  <1>10. Good(u, typed, live, incarnation)
    BY <1>1, <1>6, <1>7, <1>8, <1>9 DEF Good, Holds, SameEnds
  <1> QED
    BY <1>2, <1>3, <1>10, OneTerminal

(* pty_set_foreground *)
LEMMA SetForegroundStep ==
  ASSUME IInv, NEW p \in Pids, NEW i \in Ptys, NEW g \in Pids, SetForeground(p, i, g)
  PROVE  IInv'
  <1> DEFINE t == pty[i]
             u == [t EXCEPT !.foreground = g]
  <1>1. t \in PtyType /\ Good(t, typed, live, incarnation)
    BY DEF IInv
  <1>2. pty' = [pty EXCEPT ![i] = u]
    BY DEF SetForeground
  <1>3. Rest' /\ UNCHANGED <<typed, live, incarnation>>
    BY DEF SetForeground, IInv, Rest, LifecycleTypeOK, Program
  <1>4. u \in PtyType
    BY <1>1 DEF PtyType
  <1>5. SameBytes(t, u) /\ SameEnds(t, u)
    BY <1>1 DEF SameBytes, SameEnds, PtyType
  <1> HIDE DEF u
  <1>6. Good(u, typed, live, incarnation)
    BY <1>1, <1>4, <1>5, SameBytesOK DEF Good, Holds, SameEnds
  <1> QED
    BY <1>2, <1>3, <1>6, OneTerminal

(* Steps that leave the pseudo terminals alone. *)
LEMMA OpenFdStep ==
  ASSUME IInv, NEW p \in Pids, OpenFd(p)
  PROVE  IInv'
  <1>1. Rest'
    BY DEF OpenFd, IInv, Rest, LifecycleTypeOK, Program
  <1> QED
    BY <1>1, NoTerminal DEF OpenFd

(* process_set_group *)
LEMMA SetGroupStep ==
  ASSUME IInv, NEW p \in Pids, NEW g \in Pids, SetGroup(p, g)
  PROVE  IInv'
  <1>1. Rest'
    BY DEF SetGroup, IInv, Rest, LifecycleTypeOK, Program
  <1> QED
    BY <1>1, NoTerminal DEF SetGroup

(* tty_create and tty_close *)
LEMMA TtyStep ==
  ASSUME IInv, NEW p \in Pids, NEW i \in Ttys, TtyCreate(p, i) \/ TtyClose(p, i)
  PROVE  IInv'
  <1>1. Program(p) \in Programs /\ Program(p) = <<p, incarnation[p]>>
    BY ProgramType DEF IInv, Rest
  <1>2. Rest'
    BY <1>1 DEF TtyCreate, TtyClose, IInv, Rest, LifecycleTypeOK, Program
  <1> QED
    BY <1>2, NoTerminal DEF TtyCreate, TtyClose

-----------------------------------------------------------------------------
(* Theorems *)

(* Every step, by whichever process and terminal, keeps the invariant. *)
LEMMA StepIInv == IInv /\ [Next]_vars => IInv'
  <1> SUFFICES ASSUME IInv, [Next]_vars PROVE IInv'
    OBVIOUS
  <1>1. CASE UNCHANGED vars
    BY <1>1 DEF vars, IInv, Rest, LifecycleTypeOK, Program
  <1>2. ASSUME NEW p \in Pids, NEW i \in Ptys, Ends(p, i) PROVE IInv'
    <2>1. CASE Create(p, i)
      BY <2>1, CreateStep
    <2>2. CASE \E t \in Pids : Attach(p, i, t)
      BY <2>2, AttachStep
    <2>3. CASE \E slave \in BOOLEAN : CloseEnd(p, i, slave)
      BY <2>3, CloseEndStep
    <2>4. CASE TypeInterrupt(p, i)
      <3>1. Members(i) \in SUBSET Pids
        BY DEF Members, IInv, Rest, LifecycleTypeOK
      <3> QED
        BY <2>4, <3>1, ExitStep DEF TypeInterrupt
    <2> QED
      BY <1>2, <2>1, <2>2, <2>3, <2>4 DEF Ends
  <1>3. ASSUME NEW p \in Pids, NEW i \in Ptys, Bytes(p, i) PROVE IInv'
    <2>1. CASE \E c \in Chars : Type(p, i, c)
      BY <2>1, TypeStep
    <2>2. CASE ReadInput(p, i)
      BY <2>2, ReadInputStep
    <2>3. CASE \E m \in Modes : SetMode(p, i, m[1], m[2])
      <3>1. PICK m \in Modes : SetMode(p, i, m[1], m[2])
        BY <2>3
      <3>2. m[1] \in BOOLEAN /\ m[2] \in BOOLEAN
        BY PtyAssumption
      <3> QED
        BY <3>1, <3>2, SetModeStep
    <2> QED
      BY <1>3, <2>1, <2>2, <2>3 DEF Bytes
  <1>4. ASSUME NEW p \in Pids, Jobs(p) PROVE IInv'
    <2>1. CASE \E g \in Pids : SetGroup(p, g) \/ \E i \in Ptys : SetForeground(p, i, g)
      BY <2>1, SetGroupStep, SetForegroundStep
    <2>2. ASSUME NEW i \in Ptys, SignalForeground(p, i) PROVE IInv'
      <3>1. Members(i) \in SUBSET Pids
        BY DEF Members, IInv, Rest, LifecycleTypeOK
      <3> QED
        BY <2>2, <3>1, ExitStep DEF SignalForeground
    <2>3. CASE \E i \in Ptys : SignalForeground(p, i) \/ Answer(p, i) \/ ReadOutput(p, i)
      BY <2>2, <2>3, AnswerStep, ReadOutputStep
    <2>4. CASE \E i \in Ttys : TtyCreate(p, i) \/ TtyClose(p, i)
      BY <2>4, TtyStep
    <2>5. CASE OpenFd(p)
      BY <2>5, OpenFdStep
    <2> QED
      BY <1>4, <2>1, <2>3, <2>4, <2>5 DEF Jobs
  <1>5. ASSUME NEW p \in Pids, Spawn(p) \/ \E f \in files[p] : CloseFile(p, f) PROVE IInv'
    BY <1>5, SpawnStep, CloseFileStep
  <1>6. ASSUME NEW S \in SUBSET Pids, Exit(S) PROVE IInv'
    BY <1>6, ExitStep
  <1> QED
    BY <1>1, <1>2, <1>3, <1>4, <1>5, <1>6 DEF Next

(* The inductive invariant holds in every reachable state. *)
THEOREM Invariance == Spec => []IInv
  BY InitIInv, StepIInv, PTL DEF Spec

(* Every open end, and every plain terminal, belongs to the very program it  *)
(* was given to, however often its PID was reused: tty_close_owner closes    *)
(* what a process holds before its slot can be taken.                        *)
THEOREM EndsAreOwned == Spec => []EndsOwned
  <1>1. IInv => EndsOwned
    <2> SUFFICES ASSUME IInv PROVE EndsOwned
      OBVIOUS
    <2>1. TypeOK
      BY DEF IInv, Rest, TypeOK, Good, Fits
    <2>2. ASSUME NEW i \in Ptys PROVE Holds(pty[i], live, incarnation)
      BY DEF IInv, Good
    <2> QED
      BY <2>1, <2>2 DEF IInv, Rest, EndsOwned, Holds, Program
  <1> QED
    BY <1>1, Invariance, PTL

(* A slot is in use exactly while one of its ends is open. *)
THEOREM SlotsAreHeld == Spec => []SlotHeld
  <1>1. IInv => SlotHeld
    BY DEF IInv, Good, SlotHeld
  <1> QED
    BY <1>1, Invariance, PTL

(* The slave reads bytes in the order the master typed them, whatever was    *)
(* erased, refused or dropped in between.                                    *)
THEOREM BytesInOrder == Spec => []InOrder
  <1>1. IInv => InOrder
    <2> SUFFICES ASSUME IInv, NEW i \in Ptys, pty[i].allocated
                 PROVE  LET s == Sent(pty[i])
                        IN  /\ \A k \in 1 .. Len(s) - 1 : s[k] < s[k + 1]
                            /\ s # <<>> => pty[i].lastRead < s[1]
                            /\ \A k \in DOMAIN pty[i].output : pty[i].output[k] = pty[i].session
      BY DEF InOrder
    <2> DEFINE s == Sent(pty[i])
    <2>1. Sound(pty[i], typed) /\ s \in Seq(Nat)
      BY Fields DEF IInv, Good
    <2>2. Flow(s, pty[i].lastRead, pty[i].kept, pty[i].gone, typed)
      BY <2>1 DEF Sound
    <2>3. \A k \in DOMAIN pty[i].output : pty[i].output[k] = pty[i].session
      BY <2>1 DEF Sound
    <2> HIDE DEF s
    <2>4. Len(s) \in Nat /\ (s # <<>> => Len(s) > 0)
      BY <2>1, EmptySeq
    <2>5. \A k \in 1 .. Len(s) - 1 : k \in 1 .. Len(s) /\ k + 1 \in 1 .. Len(s) /\ k < k + 1
      BY <2>4
    <2>6. \A k \in 1 .. Len(s) - 1 : s[k] < s[k + 1]
      BY <2>2, <2>5 DEF Flow
    <2>7. s # <<>> => pty[i].lastRead < s[1]
      BY <2>2, <2>4 DEF Flow
    <2> QED
      BY <2>3, <2>6, <2>7 DEF s
  <1> QED
    BY <1>1, Invariance, PTL

(* A byte reported as consumed is read, can still be read or was taken back: *)
(* no full ring, full line or end-of-file loses it.                          *)
THEOREM NothingIsLost == Spec => []NoLoss
  <1>1. IInv => NoLoss
    BY DEF IInv, Good, Sound, Flow, NoLoss
  <1> QED
    BY <1>1, Invariance, PTL

(* A byte that was erased, or dropped with a mode change, is never read. *)
THEOREM ErasedIsGone == Spec => []NoErased
  <1>1. IInv => NoErased
    BY DEF IInv, Good, Sound, Flow, NoErased
  <1> QED
    BY <1>1, Invariance, PTL
=============================================================================
