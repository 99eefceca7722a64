--------------------------- MODULE ServiceProofs ---------------------------
(***************************************************************************)
(* Proofs about the service manager, for every number of services and of   *)
(* processes, every acyclic choice of dependencies, every limit and every  *)
(* timeout.                                                                *)
(*                                                                         *)
(* The manager recurses over dependencies and loops over the services, so  *)
(* the proofs need induction.  It is done with the least element of the    *)
(* set of counterexamples (LeastElement), which needs no operator          *)
(* parameter: first that a recursive function over 0 .. n exists           *)
(* (RecursionExists), so that the ones of Service satisfy their equations, *)
(* then that what every step keeps holds at the end (Ranked).              *)
(***************************************************************************)
EXTENDS Service, FiniteSetTheorems, WellFoundedInduction, TLAPS

-----------------------------------------------------------------------------
(* Induction *)

(* Every nonempty set of natural numbers has a least element. *)
LEMMA LeastElement ==
    ASSUME NEW T, T \subseteq Nat, T # {}
    PROVE  \E n \in T : \A m \in T : n <= m
<1>1. PICK n \in T : \A m \in T : ~(<<m, n>> \in OpToRel(<, Nat))
      BY NatLessThanWellFounded, WFMin, Zenon
<1>2. \A m \in T : ~(m < n)
      BY <1>1 DEF OpToRel
<1> QED BY <1>2

(* What holds of a number when it holds of the smaller ones holds of all. *)
LEMMA Ranked ==
    ASSUME NEW N \in Nat, NEW I,
           \A j \in 0 .. N : (\A i \in 0 .. N : i < j => i \in I) => j \in I
    PROVE  \A j \in 0 .. N : j \in I
<1> DEFINE T == {j \in 0 .. N : j \notin I}
<1>1. SUFFICES ASSUME T # {} PROVE FALSE
      OBVIOUS
<1>2. T \subseteq Nat
      OBVIOUS
<1>3. PICK n \in T : \A m \in T : n <= m
   <2> HIDE DEF T
   <2> QED BY <1>1, <1>2, LeastElement
<1>4. ASSUME NEW i \in 0 .. N, i < n PROVE i \in I
   <2>1. SUFFICES ASSUME i \in T PROVE FALSE
         OBVIOUS
   <2>2. n <= i BY <2>1, <1>3
   <2>3. n \in Int /\ i \in Int OBVIOUS
   <2> HIDE DEF T
   <2> QED BY <2>2, <2>3, <1>4
<1>5. n \in 0 .. N /\ n \notin I
      OBVIOUS
<1> HIDE DEF T
<1> QED BY <1>4, <1>5

(* g obeys a recursion over 0 .. N: from s at 0, each j from a smaller D[j]. *)
Recursion(N, D, St, F, s, g) ==
    /\ g \in [0 .. N -> St]
    /\ g[0] = s
    /\ \A j \in 1 .. N : g[j] = F[<<j, g[D[j]]>>]

(* Every such recursion has a solution. *)
LEMMA RecursionExists ==
    ASSUME NEW N \in Nat, NEW D \in [1 .. N -> 0 .. N], \A j \in 1 .. N : D[j] < j,
           NEW St, NEW s \in St, NEW F \in [(1 .. N) \X St -> St]
    PROVE  \E g : Recursion(N, D, St, F, s, g)
<1> DEFINE T == {n \in 0 .. N : \E g : Recursion(n, D, St, F, s, g)}
<1>1. ASSUME NEW n \in 0 .. N, \A i \in 0 .. N : i < n => i \in T
      PROVE  n \in T
   <2>1. CASE n = 0
      <3> DEFINE g == [k \in 0 .. 0 |-> s]
      <3>1. Recursion(0, D, St, F, s, g) BY DEF Recursion
      <3> HIDE DEF g
      <3> QED BY <3>1, <2>1
   <2>2. CASE n # 0
      <3> DEFINE p == n - 1
      <3>1. n \in 1 .. N /\ p \in 0 .. N /\ p < n /\ p \in Nat /\ p \in Int
            BY <2>2
      <3>2. p \in T BY <3>1, <1>1
      <3>3. PICK h : Recursion(p, D, St, F, s, h) BY <3>2
      <3>4. D[n] \in 0 .. p BY <3>1
      <3>5. \A j \in 1 .. p : D[j] \in 0 .. p BY <3>1
      <3>6. /\ h \in [0 .. p -> St]
            /\ h[0] = s
            /\ \A j \in 1 .. p : h[j] = F[<<j, h[D[j]]>>]
            BY <3>3 DEF Recursion
      <3> DEFINE g == [k \in 0 .. n |-> IF k = n THEN F[<<n, h[D[n]]>>] ELSE h[k]]
      <3>7. \A k \in 0 .. n : k = n \/ k \in 0 .. p BY <3>1
      <3>8. F[<<n, h[D[n]]>>] \in St BY <3>1, <3>4, <3>6
      <3>9. g \in [0 .. n -> St] BY <3>6, <3>7, <3>8
      <3>10. g[0] = s BY <3>6, <3>1
      <3>11. \A k \in 0 .. p : g[k] = h[k] BY <3>1
      <3>12. g[n] = F[<<n, h[D[n]]>>] BY <3>1
      <3> HIDE DEF g
      <3>13. ASSUME NEW j \in 1 .. n PROVE g[j] = F[<<j, g[D[j]]>>]
         <4>1. CASE j = n BY <4>1, <3>4, <3>11, <3>12
         <4>2. CASE j # n
            <5>1. j \in 1 .. p /\ j \in 0 .. p BY <4>2, <3>1
            <5> QED BY <5>1, <3>11, <3>5, <3>6
         <4> QED BY <4>1, <4>2
      <3>14. Recursion(n, D, St, F, s, g)
             BY <3>9, <3>10, <3>13 DEF Recursion
      <3> QED BY <3>14
   <2> QED BY <2>1, <2>2
<1>2. N \in T
   <2> HIDE DEF T
   <2>1. \A j \in 0 .. N : j \in T BY <1>1, Ranked
   <2> QED BY <2>1
<1> QED BY <1>2

(* The constants as the recursions of Service use them. *)
Above == [j \in Services |-> Dependency[j]]
Before == [j \in Services |-> j - 1]

LEMMA ConstantTypes ==
    /\ NServices \in Nat /\ NProcs \in Nat
    /\ NServices \in Services
    /\ \A i \in Services : i \in Int /\ i \in 0 .. NServices
    /\ \A i \in Services : Dependency[i] \in 0 .. NServices /\ Dependency[i] < i
    /\ \A i \in Services : Dependency[i] # 0 => Dependency[i] \in Services
    /\ \A i \in Services : Limit[i] \in 0 .. 16 /\ Timeout[i] \in Nat
<1>1. /\ NServices \in Nat \ {0} /\ NProcs \in Nat \ {0}
      /\ \A i \in 1 .. NServices : Dependency[i] \in 0 .. i - 1
      BY ServiceAssumption DEF Services
<1>2. Limit \in [Services -> 0 .. 16] /\ Timeout \in [Services -> Nat \ {0}]
      BY ServiceAssumption
<1>3. \A i \in Services : Limit[i] \in 0 .. 16 /\ Timeout[i] \in Nat
      BY <1>2
<1> QED BY <1>1, <1>3 DEF Services

LEMMA AboveType ==
    /\ Above \in [1 .. NServices -> 0 .. NServices]
    /\ \A j \in 1 .. NServices : Above[j] < j /\ Above[j] = Dependency[j]
BY ConstantTypes DEF Above, Services

LEMMA BeforeType ==
    /\ Before \in [1 .. NServices -> 0 .. NServices]
    /\ \A j \in 1 .. NServices : Before[j] < j /\ Before[j] = j - 1
BY ConstantTypes DEF Before, Services

-----------------------------------------------------------------------------
(* The recursive functions of Service satisfy their equations. *)

LEMMA AncestorsDef ==
    Ancestors = [i \in 0 .. NServices |->
                    IF i = 0 THEN {} ELSE {i} \union Ancestors[Dependency[i]]]
<1> DEFINE St == SUBSET Services
           F == [z \in (1 .. NServices) \X St |-> {z[1]} \union z[2]]
<1>1. F \in [(1 .. NServices) \X St -> St] BY DEF Services
<1>2. \A j \in 1 .. NServices, x \in St : F[<<j, x>>] = {j} \union x
      OBVIOUS
<1>3. {} \in St OBVIOUS
<1> HIDE DEF F
<1>4. PICK g : Recursion(NServices, Above, St, F, {}, g)
   <2> HIDE DEF St
   <2> QED BY <1>1, <1>3, AboveType, ConstantTypes, RecursionExists
<1>5. ASSUME NEW i \in 0 .. NServices
      PROVE  g[i] = IF i = 0 THEN {} ELSE {i} \union g[Dependency[i]]
   <2>1. CASE i = 0 BY <2>1, <1>4 DEF Recursion
   <2>2. CASE i # 0
      <3>1. i \in 1 .. NServices BY <2>2, ConstantTypes
      <3>2. g[i] = F[<<i, g[Above[i]]>>] /\ g[Above[i]] \in St
            BY <3>1, <1>4, AboveType DEF Recursion
      <3>3. F[<<i, g[Above[i]]>>] = {i} \union g[Above[i]]
         <4> HIDE DEF St
         <4> QED BY <3>1, <3>2, <1>2
      <3> QED BY <3>1, <3>2, <3>3, <2>2, AboveType
   <2> QED BY <2>1, <2>2
<1>6. g = [i \in 0 .. NServices |-> g[i]] BY <1>4 DEF Recursion
<1>7. g = [i \in 0 .. NServices |->
              IF i = 0 THEN {} ELSE {i} \union g[Dependency[i]]]
      BY <1>5, <1>6, Zenon
<1> QED BY <1>7, Zenon DEF Ancestors

LEMMA AncestorsEquations ==
    /\ Ancestors[0] = {}
    /\ \A i \in Services : Ancestors[i] = {i} \union Ancestors[Dependency[i]]
<1>1. ASSUME NEW i \in 0 .. NServices
      PROVE  Ancestors[i] = IF i = 0 THEN {} ELSE {i} \union Ancestors[Dependency[i]]
      BY AncestorsDef, Zenon
<1>2. 0 \in 0 .. NServices /\ \A i \in Services : i \in 0 .. NServices /\ i # 0
      BY ConstantTypes DEF Services
<1> QED BY <1>1, <1>2, Zenon

(* A service depends on earlier ones only. *)
LEMMA AncestorsBefore ==
    \A j \in 0 .. NServices : \A k \in Services : k \in Ancestors[j] => k <= j
<1> DEFINE I == {j \in 0 .. NServices : \A k \in Services : k \in Ancestors[j] => k <= j}
<1>1. ASSUME NEW j \in 0 .. NServices,
             \A i \in 0 .. NServices : i < j => i \in I
      PROVE  j \in I
   <2>1. CASE j = 0 BY <2>1, AncestorsEquations
   <2>2. CASE j # 0
      <3>1. j \in Services BY <2>2, ConstantTypes DEF Services
      <3>2. Dependency[j] \in I /\ Dependency[j] < j /\ Dependency[j] \in Int
            BY <3>1, <1>1, ConstantTypes
      <3>3. Ancestors[j] = {j} \union Ancestors[Dependency[j]]
            BY <3>1, AncestorsEquations
      <3> QED BY <3>2, <3>3, ConstantTypes
   <2> QED BY <2>1, <2>2
<1>2. \A j \in 0 .. NServices : j \in I
   <2> HIDE DEF I
   <2> QED BY <1>1, ConstantTypes, Ranked
<1> QED BY <1>2

LEMMA PartialSumsDef ==
    ASSUME NEW f \in [Services -> Nat]
    PROVE  PartialSums(f) = [k \in 0 .. NServices |->
                                IF k = 0 THEN 0 ELSE PartialSums(f)[k - 1] + f[k]]
<1> DEFINE F == [z \in (1 .. NServices) \X Nat |-> z[2] + f[z[1]]]
<1>1. F \in [(1 .. NServices) \X Nat -> Nat] BY DEF Services
<1>2. \A j \in 1 .. NServices, x \in Nat : F[<<j, x>>] = x + f[j]
      OBVIOUS
<1> HIDE DEF F
<1>4. PICK g : Recursion(NServices, Before, Nat, F, 0, g)
      BY <1>1, BeforeType, ConstantTypes, RecursionExists
<1>5. ASSUME NEW i \in 0 .. NServices
      PROVE  g[i] = IF i = 0 THEN 0 ELSE g[i - 1] + f[i]
   <2>1. CASE i = 0 BY <2>1, <1>4 DEF Recursion
   <2>2. CASE i # 0
      <3>1. i \in 1 .. NServices BY <2>2, ConstantTypes
      <3>2. g[i] = F[<<i, g[Before[i]]>>] /\ g[Before[i]] \in Nat
            BY <3>1, <1>4, BeforeType DEF Recursion
      <3> QED BY <3>1, <3>2, <2>2, <1>2, BeforeType
   <2> QED BY <2>1, <2>2
<1>6. g = [i \in 0 .. NServices |-> g[i]] BY <1>4 DEF Recursion
<1>7. g = [i \in 0 .. NServices |-> IF i = 0 THEN 0 ELSE g[i - 1] + f[i]]
      BY <1>5, <1>6, Zenon
<1> QED BY <1>7, Zenon DEF PartialSums

LEMMA PartialSumsEquations ==
    ASSUME NEW f \in [Services -> Nat]
    PROVE  /\ PartialSums(f)[0] = 0
           /\ \A k \in Services : PartialSums(f)[k] = PartialSums(f)[k - 1] + f[k]
           /\ \A k \in 0 .. NServices : PartialSums(f)[k] \in Nat
<1>1. ASSUME NEW k \in 0 .. NServices
      PROVE  PartialSums(f)[k] = IF k = 0 THEN 0 ELSE PartialSums(f)[k - 1] + f[k]
      BY PartialSumsDef, Zenon
<1>2. /\ PartialSums(f)[0] = 0
      /\ \A k \in Services : PartialSums(f)[k] = PartialSums(f)[k - 1] + f[k]
      BY <1>1, ConstantTypes DEF Services
<1> DEFINE I == {k \in 0 .. NServices : PartialSums(f)[k] \in Nat}
<1>3. ASSUME NEW j \in 0 .. NServices,
             \A i \in 0 .. NServices : i < j => i \in I
      PROVE  j \in I
   <2>1. CASE j = 0 BY <2>1, <1>2
   <2>2. CASE j # 0
      <3>1. j \in Services /\ j - 1 \in 0 .. NServices /\ j - 1 < j
            BY <2>2, ConstantTypes DEF Services
      <3>2. j - 1 \in I BY <3>1, <1>3
      <3>3. PartialSums(f)[j - 1] \in Nat /\ f[j] \in Nat BY <3>2, <3>1
      <3>4. PartialSums(f)[j] = PartialSums(f)[j - 1] + f[j] BY <3>1, <1>2
      <3> QED BY <3>3, <3>4
   <2> QED BY <2>1, <2>2
<1>4. \A k \in 0 .. NServices : k \in I
   <2> HIDE DEF I
   <2> QED BY <1>3, ConstantTypes, Ranked
<1> QED BY <1>2, <1>4

(* The total of greater numbers is greater, and by one if one of them is. *)
LEMMA TotalGrows ==
    ASSUME NEW f \in [Services -> Nat], NEW g \in [Services -> Nat],
           \A j \in Services : f[j] <= g[j]
    PROVE  /\ Total(f) \in Nat /\ Total(g) \in Nat
           /\ Total(f) <= Total(g)
           /\ \A i \in Services : f[i] < g[i] => Total(f) < Total(g)
<1> DEFINE a == PartialSums(f)
           b == PartialSums(g)
<1>1. /\ a[0] = 0 /\ b[0] = 0
      /\ \A k \in Services : a[k] = a[k - 1] + f[k] /\ b[k] = b[k - 1] + g[k]
      /\ \A k \in 0 .. NServices : a[k] \in Nat /\ b[k] \in Nat
      BY PartialSumsEquations
<1>2. Total(f) = a[NServices] /\ Total(g) = b[NServices] BY DEF Total
<1> HIDE DEF a, b
<1> DEFINE I == {k \in 0 .. NServices :
                   /\ a[k] <= b[k]
                   /\ \A i \in Services : i <= k /\ f[i] < g[i] => a[k] < b[k]}
<1>3. ASSUME NEW j \in 0 .. NServices,
             \A i \in 0 .. NServices : i < j => i \in I
      PROVE  j \in I
   <2>1. CASE j = 0
      <3>1. \A i \in Services : ~(i <= 0) BY DEF Services
      <3> QED BY <2>1, <3>1, <1>1
   <2>2. CASE j # 0
      <3> DEFINE p == j - 1
      <3>1. j \in Services /\ p \in 0 .. NServices /\ p < j
            BY <2>2, ConstantTypes DEF Services
      <3>2. p \in I BY <3>1, <1>3
      <3>3. a[j] = a[p] + f[j] /\ b[j] = b[p] + g[j] BY <3>1, <1>1
      <3>4. a[p] \in Nat /\ b[p] \in Nat /\ f[j] \in Nat /\ g[j] \in Nat
            BY <3>1, <1>1
      <3>5. \A i \in Services : i <= j => i = j \/ i <= p
            BY ConstantTypes
      <3> HIDE DEF p
      <3>6. f[j] <= g[j] BY <3>1
      <3>7. a[p] <= b[p] /\ \A i \in Services : i <= p /\ f[i] < g[i] => a[p] < b[p]
            BY <3>2
      <3>8. a[j] <= b[j] BY <3>3, <3>4, <3>6, <3>7
      <3>9. ASSUME NEW i \in Services, i <= j, f[i] < g[i] PROVE a[j] < b[j]
         <4>1. CASE i = j BY <4>1, <3>9, <3>3, <3>4, <3>7
         <4>2. CASE i <= p
            <5>1. a[p] < b[p] BY <4>2, <3>9, <3>7
            <5> QED BY <5>1, <3>3, <3>4, <3>6
         <4> QED BY <4>1, <4>2, <3>5, <3>9
      <3> QED BY <3>8, <3>9
   <2> QED BY <2>1, <2>2
<1>4. \A k \in 0 .. NServices : k \in I
   <2> HIDE DEF I
   <2> QED BY <1>3, ConstantTypes, Ranked
<1>5. NServices \in 0 .. NServices /\ NServices \in I BY <1>4, ConstantTypes
<1>6. \A i \in Services : i <= NServices BY DEF Services
<1> QED BY <1>1, <1>2, <1>5, <1>6

-----------------------------------------------------------------------------
(* The tables, and what the manager keeps of them. *)

Table == [state  : [Services -> States],
          count  : [Services -> Nat],
          starts : [Services -> Nat],
          pid    : [Services -> Pids \union {None}],
          age    : [Services -> Nat],
          wait   : [Services -> Nat],
          holder : [Pids -> Services \union {Free, Other}]]

Bounded(S) ==
    \A i \in Services : /\ S.count[i] <= Limit[i]
                        /\ S.age[i] <= Timeout[i] + 1
                        /\ S.wait[i] <= Backoff(Limit[i])

(* The program of a service runs at the PID the service knows, and only     *)
(* while the service is READY.                                              *)
Owned(S) ==
    \A p \in Pids, i \in Services :
        S.holder[p] = i => /\ i \in Userspace
                           /\ S.state[i] = "READY"
                           /\ S.pid[i] = p

Sound(S) == S \in Table /\ Bounded(S) /\ Owned(S)

(* Dependencies are respected among the first k services. *)
Ordered(S, k) ==
    \A i \in Services : i <= k /\ S.state[i] = "READY" => DependencyReady(S, i)

(* Each try of a service, at boot (b) or counted, starts a service above it *)
(* or itself at most once.                                                  *)
Tries(S, b, i) ==
    [j \in Services |-> IF i \in Ancestors[j] THEN b[j] + S.count[j] ELSE 0]

Paid(S, b) == \A i \in Services : S.starts[i] <= Total(Tries(S, b, i))

LEMMA TableFields ==
    ASSUME NEW S \in Table
    PROVE  /\ S.state \in [Services -> States]
           /\ S.count \in [Services -> Nat]
           /\ S.starts \in [Services -> Nat]
           /\ S.pid \in [Services -> Pids \union {None}]
           /\ S.age \in [Services -> Nat]
           /\ S.wait \in [Services -> Nat]
           /\ S.holder \in [Pids -> Services \union {Free, Other}]
BY DEF Table

LEMMA BackoffGrows ==
    ASSUME NEW m \in 0 .. 16, NEW n \in 0 .. 16, m <= n
    PROVE  Backoff(m) \in Nat /\ 1 <= Backoff(m) /\ Backoff(m) <= Backoff(n)
<1> DEFINE a == IF m < 5 THEN m ELSE 5
           c == IF n < 5 THEN n ELSE 5
<1>1. a \in 0 .. 5 /\ c \in 0 .. 5 /\ a <= c OBVIOUS
<1> DEFINE Power(x) == 2 ^ x
<1>2. Backoff(m) = Power(a) /\ Backoff(n) = Power(c) BY DEF Backoff
<1>3. /\ Power(0) = 1 /\ Power(1) = 2 /\ Power(2) = 4
      /\ Power(3) = 8 /\ Power(4) = 16 /\ Power(5) = 32
      OBVIOUS
<1> HIDE DEF a, c, Power
<1>4. \A x \in 0 .. 5 : x = 0 \/ x = 1 \/ x = 2 \/ x = 3 \/ x = 4 \/ x = 5
      OBVIOUS
<1> QED BY <1>1, <1>2, <1>3, <1>4

-----------------------------------------------------------------------------
(* Starting a service *)

LEMMA MinIsMember ==
    ASSUME NEW T, T \subseteq Nat, T # {}
    PROVE  Min(T) \in T
<1>1. \E n \in T : \A m \in T : n <= m BY LeastElement
<1> QED BY <1>1 DEF Min

(* What Launch does, p being the PID of the program, st the state reached. *)
Launched(S, U, i, p, st) ==
    /\ U \in Table
    /\ U.state = [S.state EXCEPT ![i] = st]
    /\ U.count = S.count
    /\ U.starts = [S.starts EXCEPT ![i] = S.starts[i] + 1]
    /\ U.pid = [S.pid EXCEPT ![i] = p]
    /\ U.age = [S.age EXCEPT ![i] = 0]
    /\ U.wait = S.wait
    /\ U.holder = [q \in Pids |-> IF q = p THEN i ELSE S.holder[q]]
    /\ p # None => i \in Userspace /\ st = "READY" /\ S.holder[p] = Free

LEMMA LaunchEffect ==
    ASSUME NEW S \in Table, NEW i \in Services, NEW fails
    PROVE  \E p \in Pids \union {None}, st \in States :
              Launched(S, Launch(S, i, fails), i, p, st)
<1> DEFINE spawned == i \in Userspace /\ i \notin fails /\ FreePids(S) # {}
           p  == IF spawned THEN Min(FreePids(S)) ELSE None
           st == IF i \in Userspace => spawned THEN "READY" ELSE "FAILED"
           U  == Launch(S, i, fails)
<1>1. FreePids(S) \subseteq Pids /\ \A q \in FreePids(S) : S.holder[q] = Free
      BY DEF FreePids
<1>2. Pids \subseteq Nat BY ConstantTypes DEF Pids
<1>3. spawned => Min(FreePids(S)) \in FreePids(S)
      BY <1>1, <1>2, MinIsMember
<1>4. p \in Pids \union {None} BY <1>1, <1>3
<1>5. st \in States BY DEF States
<1>6. p # None => i \in Userspace /\ st = "READY" /\ S.holder[p] = Free
      BY <1>1, <1>3
<1>7. U = [S EXCEPT !.state[i] = st, !.starts[i] = @ + 1, !.pid[i] = p, !.age[i] = 0,
                    !.holder = [q \in Pids |-> IF q = p THEN i ELSE @[q]]]
      BY DEF Launch
<1> HIDE DEF U, p, st
<1>8. /\ U.state = [S.state EXCEPT ![i] = st]
      /\ U.count = S.count
      /\ U.starts = [S.starts EXCEPT ![i] = S.starts[i] + 1]
      /\ U.pid = [S.pid EXCEPT ![i] = p]
      /\ U.age = [S.age EXCEPT ![i] = 0]
      /\ U.wait = S.wait
      /\ U.holder = [q \in Pids |-> IF q = p THEN i ELSE S.holder[q]]
      BY <1>7, TableFields DEF Table
<1>9. /\ [S.state EXCEPT ![i] = st] \in [Services -> States]
      /\ [S.starts EXCEPT ![i] = S.starts[i] + 1] \in [Services -> Nat]
      /\ [S.pid EXCEPT ![i] = p] \in [Services -> Pids \union {None}]
      /\ [S.age EXCEPT ![i] = 0] \in [Services -> Nat]
      /\ [q \in Pids |-> IF q = p THEN i ELSE S.holder[q]]
             \in [Pids -> Services \union {Free, Other}]
      BY <1>4, <1>5, TableFields
<1>10. U \in Table BY <1>7, <1>9 DEF Table
<1>11. Launched(S, U, i, p, st) BY <1>6, <1>8, <1>10 DEF Launched
<1> QED BY <1>4, <1>5, <1>11 DEF U

LEMMA LaunchKeepsSound ==
    ASSUME NEW S, NEW U, Sound(S), NEW i \in Services, S.state[i] # "READY",
           NEW p \in Pids \union {None}, NEW st \in States,
           Launched(S, U, i, p, st)
    PROVE  Sound(U)
<1>1. S \in Table /\ U \in Table BY DEF Sound, Launched
<1>2. Bounded(U)
   <2>1. \A k \in Services : U.age[k] = IF k = i THEN 0 ELSE S.age[k]
         BY <1>1, TableFields DEF Launched
   <2>2. U.count = S.count /\ U.wait = S.wait BY DEF Launched
   <2>3. \A k \in Services : 0 <= Timeout[k] + 1 BY ConstantTypes
   <2> QED BY <2>1, <2>2, <2>3 DEF Sound, Bounded
<1>3. Owned(U)
   <2> SUFFICES ASSUME NEW q \in Pids, NEW k \in Services, U.holder[q] = k
                PROVE  k \in Userspace /\ U.state[k] = "READY" /\ U.pid[k] = q
       BY DEF Owned
   <2>1. /\ U.holder[q] = IF q = p THEN i ELSE S.holder[q]
         /\ U.state[k] = IF k = i THEN st ELSE S.state[k]
         /\ U.pid[k] = IF k = i THEN p ELSE S.pid[k]
         BY <1>1, TableFields DEF Launched
   <2>2. None \notin Pids BY ConstantTypes DEF None, Pids
   <2>3. CASE q = p
      <3>1. k = i /\ p # None BY <2>1, <2>2, <2>3
      <3> QED BY <3>1, <2>1, <2>3 DEF Launched
   <2>4. CASE q # p
      <3>1. k \in Userspace /\ S.state[k] = "READY" /\ S.pid[k] = q
            BY <2>1, <2>4 DEF Sound, Owned
      <3>2. k # i BY <3>1
      <3> QED BY <3>1, <3>2, <2>1
   <2> QED BY <2>3, <2>4
<1> QED BY <1>1, <1>2, <1>3 DEF Sound

LEMMA DependencyReadyDepends ==
    ASSUME NEW S, NEW U, NEW i \in Services,
           \A k \in Services : k < i => U.state[k] = S.state[k]
    PROVE  DependencyReady(U, i) <=> DependencyReady(S, i)
<1>1. Dependency[i] # 0 => Dependency[i] \in Services /\ Dependency[i] < i
      BY ConstantTypes
<1> QED BY <1>1 DEF DependencyReady

(* What one level of service_start_one does. *)
LevelStarted(S, U, i) ==
    /\ U \in Table
    /\ U.count = S.count
    /\ \A k \in Services : k # i => U.starts[k] = S.starts[k] /\ U.state[k] = S.state[k]
    /\ U.starts[i] <= S.starts[i] + 1
    /\ U.state[i] = "READY" => DependencyReady(U, i)
    /\ Sound(S) /\ S.state[i] # "READY" => Sound(U)

LEMMA StartLevelEffect ==
    ASSUME NEW S \in Table, NEW i \in Services, NEW fails
    PROVE  LevelStarted(S, StartLevel(S, i, fails), i)
<1> DEFINE U == StartLevel(S, i, fails)
<1>1. CASE DependencyReady(S, i)
   <2>1. U = Launch(S, i, fails) BY <1>1 DEF StartLevel
   <2>2. PICK p \in Pids \union {None}, st \in States : Launched(S, U, i, p, st)
         BY <2>1, LaunchEffect
   <2> HIDE DEF U
   <2>3. U \in Table /\ U.count = S.count BY <2>2 DEF Launched
   <2>4. \A k \in Services :
            /\ U.starts[k] = IF k = i THEN S.starts[i] + 1 ELSE S.starts[k]
            /\ U.state[k] = IF k = i THEN st ELSE S.state[k]
         BY <2>2, TableFields DEF Launched
   <2>5. S.starts[i] \in Nat BY TableFields
   <2>6. DependencyReady(U, i)
      <3>1. \A k \in Services : k < i => k # i BY ConstantTypes
      <3>2. \A k \in Services : k < i => U.state[k] = S.state[k] BY <2>4, <3>1
      <3> QED BY <1>1, <3>2, DependencyReadyDepends
   <2>7. Sound(S) /\ S.state[i] # "READY" => Sound(U)
         BY <2>2, LaunchKeepsSound
   <2>8. U.starts[i] <= S.starts[i] + 1 BY <2>4, <2>5
   <2>9. \A k \in Services : k # i => U.starts[k] = S.starts[k] /\ U.state[k] = S.state[k]
         BY <2>4
   <2>10. LevelStarted(S, U, i)
          BY <2>3, <2>6, <2>7, <2>8, <2>9 DEF LevelStarted
   <2> QED BY <2>10 DEF U
<1>2. CASE ~DependencyReady(S, i)
   <2>1. U = [S EXCEPT !.state[i] = "FAILED"] BY <1>2 DEF StartLevel
   <2> HIDE DEF U
   <2>2. /\ U.state = [S.state EXCEPT ![i] = "FAILED"]
         /\ U.count = S.count /\ U.starts = S.starts /\ U.pid = S.pid
         /\ U.age = S.age /\ U.wait = S.wait /\ U.holder = S.holder
         BY <2>1, TableFields DEF Table
   <2>3. [S.state EXCEPT ![i] = "FAILED"] \in [Services -> States]
         BY TableFields DEF States
   <2>4. U \in Table BY <2>1, <2>3 DEF Table
   <2>5. \A k \in Services : U.state[k] = IF k = i THEN "FAILED" ELSE S.state[k]
         BY <2>2, TableFields
   <2>6. S.starts[i] \in Nat BY TableFields
   <2>7. ASSUME Sound(S), S.state[i] # "READY" PROVE Sound(U)
      <3>1. Bounded(U) BY <2>2, <2>7 DEF Sound, Bounded
      <3>2. Owned(U)
         <4> SUFFICES ASSUME NEW q \in Pids, NEW k \in Services, U.holder[q] = k
                      PROVE  k \in Userspace /\ U.state[k] = "READY" /\ U.pid[k] = q
             BY DEF Owned
         <4>1. k \in Userspace /\ S.state[k] = "READY" /\ S.pid[k] = q
               BY <2>2, <2>7 DEF Sound, Owned
         <4> QED BY <4>1, <2>2, <2>5, <2>7
      <3> QED BY <3>1, <3>2, <2>4 DEF Sound
   <2>8. LevelStarted(S, U, i)
         BY <2>2, <2>4, <2>5, <2>6, <2>7 DEF LevelStarted
   <2> QED BY <2>8 DEF U
<1> QED BY <1>1, <1>2

LEMMA StartedDef ==
    ASSUME NEW S \in Table, NEW fails
    PROVE  Started(S, fails) =
               [j \in 0 .. NServices |->
                   IF j = 0 \/ S.state[j] = "READY" THEN S
                   ELSE StartLevel(Started(S, fails)[Dependency[j]], j, fails)]
<1> DEFINE F == [z \in (1 .. NServices) \X Table |->
                    IF S.state[z[1]] = "READY" THEN S ELSE StartLevel(z[2], z[1], fails)]
<1>1. \A j \in 1 .. NServices, x \in Table : StartLevel(x, j, fails) \in Table
      BY StartLevelEffect DEF LevelStarted, Services
<1>2. F \in [(1 .. NServices) \X Table -> Table] BY <1>1
<1>3. \A j \in 1 .. NServices, x \in Table :
        F[<<j, x>>] = IF S.state[j] = "READY" THEN S ELSE StartLevel(x, j, fails)
      OBVIOUS
<1> HIDE DEF F
<1>4. PICK g : Recursion(NServices, Above, Table, F, S, g)
      BY <1>2, AboveType, ConstantTypes, RecursionExists
<1>5. ASSUME NEW j \in 0 .. NServices
      PROVE  g[j] = IF j = 0 \/ S.state[j] = "READY" THEN S
                    ELSE StartLevel(g[Dependency[j]], j, fails)
   <2>1. CASE j = 0 BY <2>1, <1>4 DEF Recursion
   <2>2. CASE j # 0
      <3>1. j \in 1 .. NServices BY <2>2, ConstantTypes
      <3>2. g[j] = F[<<j, g[Above[j]]>>] /\ g[Above[j]] \in Table
            BY <3>1, <1>4, AboveType DEF Recursion
      <3>3. Above[j] = Dependency[j] BY <3>1, AboveType
      <3> QED BY <3>1, <3>2, <3>3, <2>2, <1>3
   <2> QED BY <2>1, <2>2
<1>6. g = [j \in 0 .. NServices |-> g[j]] BY <1>4 DEF Recursion
<1>7. g = [j \in 0 .. NServices |->
              IF j = 0 \/ S.state[j] = "READY" THEN S
              ELSE StartLevel(g[Dependency[j]], j, fails)]
      BY <1>5, <1>6, Zenon
<1> QED BY <1>7, Zenon DEF Started

LEMMA StartedEquations ==
    ASSUME NEW S \in Table, NEW fails
    PROVE  /\ Started(S, fails)[0] = S
           /\ \A j \in Services :
                 /\ S.state[j] = "READY" => Started(S, fails)[j] = S
                 /\ S.state[j] # "READY" =>
                        Started(S, fails)[j]
                          = StartLevel(Started(S, fails)[Dependency[j]], j, fails)
<1>1. ASSUME NEW j \in 0 .. NServices
      PROVE  Started(S, fails)[j] =
                 IF j = 0 \/ S.state[j] = "READY" THEN S
                 ELSE StartLevel(Started(S, fails)[Dependency[j]], j, fails)
   <2> DEFINE T == Started(S, fails)
   <2>1. T = [k \in 0 .. NServices |->
                 IF k = 0 \/ S.state[k] = "READY" THEN S
                 ELSE StartLevel(T[Dependency[k]], k, fails)]
         BY StartedDef, Zenon
   <2> HIDE DEF T
   <2>2. T[j] = IF j = 0 \/ S.state[j] = "READY" THEN S
                ELSE StartLevel(T[Dependency[j]], j, fails)
         BY <2>1
   <2> QED BY <2>2 DEF T
<1>2. 0 \in 0 .. NServices /\ \A j \in Services : j \in 0 .. NServices /\ j # 0
      BY ConstantTypes DEF Services
<1>3. Started(S, fails)[0] = S BY <1>1, <1>2
<1>4. ASSUME NEW j \in Services
      PROVE  /\ S.state[j] = "READY" => Started(S, fails)[j] = S
             /\ S.state[j] # "READY" =>
                    Started(S, fails)[j]
                      = StartLevel(Started(S, fails)[Dependency[j]], j, fails)
      BY <1>1, <1>2
<1> QED BY <1>3, <1>4

(* What service_start_one does in the end: it starts no more than service j *)
(* and those it depends on, each at most once, and keeps what is sound.     *)
Climbed(S, U, j) ==
    /\ Sound(U) /\ Ordered(U, NServices)
    /\ U.count = S.count
    /\ \A k \in Services :
          /\ k \notin Ancestors[j] => U.starts[k] = S.starts[k] /\ U.state[k] = S.state[k]
          /\ U.starts[k] <= S.starts[k] + 1

LEMMA ClimbedLevel ==
    ASSUME NEW S, NEW T, NEW U, NEW j \in Services,
           Sound(S), S.state[j] # "READY",
           Climbed(S, T, Dependency[j]), LevelStarted(T, U, j)
    PROVE  Climbed(S, U, j)
<1> DEFINE d == Dependency[j]
<1>1. d \in 0 .. NServices /\ d < j /\ j \in Int BY ConstantTypes
<1>2. Ancestors[j] = {j} \union Ancestors[d] BY AncestorsEquations
<1>3. j \notin Ancestors[d] BY <1>1, AncestorsBefore
<1> HIDE DEF d
<1>4. /\ Sound(T) /\ Ordered(T, NServices) /\ T.count = S.count
      /\ \A k \in Services : k \notin Ancestors[d] =>
            T.starts[k] = S.starts[k] /\ T.state[k] = S.state[k]
      /\ \A k \in Services : T.starts[k] <= S.starts[k] + 1
      BY DEF Climbed, d
<1>5. T.state[j] # "READY" /\ T.starts[j] = S.starts[j] BY <1>3, <1>4
<1>6. /\ Sound(U) /\ U.count = T.count
      /\ \A k \in Services : k # j => U.starts[k] = T.starts[k] /\ U.state[k] = T.state[k]
      /\ U.starts[j] <= T.starts[j] + 1
      /\ U.state[j] = "READY" => DependencyReady(U, j)
      BY <1>4, <1>5 DEF LevelStarted
<1>7. ASSUME NEW k \in Services, U.state[k] = "READY" PROVE DependencyReady(U, k)
   <2>1. CASE k = j BY <2>1, <1>6, <1>7
   <2>2. CASE k # j
      <3>1. T.state[k] = "READY" BY <2>2, <1>6, <1>7
      <3>2. k <= NServices BY DEF Services
      <3>3. DependencyReady(T, k) BY <3>1, <3>2, <1>4 DEF Ordered
      <3>4. Dependency[k] # 0 =>
               /\ Dependency[k] \in Services
               /\ T.state[Dependency[k]] = "READY"
            BY <3>3, ConstantTypes DEF DependencyReady
      <3>5. Dependency[k] # 0 => Dependency[k] # j BY <3>4, <1>5
      <3> QED BY <3>4, <3>5, <1>6 DEF DependencyReady
   <2> QED BY <2>1, <2>2
<1>8. Ordered(U, NServices) BY <1>7 DEF Ordered
<1>9. \A k \in Services : k \notin Ancestors[j] =>
          U.starts[k] = S.starts[k] /\ U.state[k] = S.state[k]
      BY <1>2, <1>4, <1>6
<1>10. \A k \in Services : U.starts[k] <= S.starts[k] + 1
       BY <1>4, <1>5, <1>6
<1> QED BY <1>4, <1>6, <1>8, <1>9, <1>10 DEF Climbed

LEMMA StartOneEffect ==
    ASSUME NEW S, Sound(S), Ordered(S, NServices), NEW fails, NEW i \in Services
    PROVE  Climbed(S, StartOne(S, i, fails), i)
<1>1. S \in Table BY DEF Sound
<1> DEFINE T == Started(S, fails)
<1>2. /\ T[0] = S
      /\ \A j \in Services :
            /\ S.state[j] = "READY" => T[j] = S
            /\ S.state[j] # "READY" => T[j] = StartLevel(T[Dependency[j]], j, fails)
      BY <1>1, StartedEquations
<1> HIDE DEF T
<1>3. \A j : Climbed(S, S, j)
   <2>1. \A k \in Services : S.starts[k] \in Nat BY <1>1, TableFields
   <2>2. \A k \in Services : S.starts[k] <= S.starts[k] + 1 BY <2>1
   <2> QED BY <2>2 DEF Climbed
<1> DEFINE I == {j \in 0 .. NServices : Climbed(S, T[j], j)}
<1>4. ASSUME NEW j \in 0 .. NServices,
             \A k \in 0 .. NServices : k < j => k \in I
      PROVE  j \in I
   <2>1. CASE j = 0 BY <2>1, <1>2, <1>3
   <2>2. CASE j # 0 /\ S.state[j] = "READY"
      <3>1. j \in Services BY <2>2, ConstantTypes DEF Services
      <3> QED BY <3>1, <2>2, <1>2, <1>3
   <2>3. CASE j # 0 /\ S.state[j] # "READY"
      <3> DEFINE d == Dependency[j]
      <3>1. j \in Services BY <2>3, ConstantTypes DEF Services
      <3>2. d \in 0 .. NServices /\ d < j BY <3>1, ConstantTypes
      <3>3. Climbed(S, T[d], d) BY <3>2, <1>4
      <3>4. T[d] \in Table BY <3>3 DEF Climbed, Sound
      <3>5. LevelStarted(T[d], T[j], j)
            BY <3>1, <3>4, <1>2, <2>3, StartLevelEffect
      <3>6. Climbed(S, T[j], j)
            BY <3>1, <3>3, <3>5, <2>3, ClimbedLevel
      <3> QED BY <3>6
   <2> QED BY <2>1, <2>2, <2>3
<1>5. \A j \in 0 .. NServices : j \in I
   <2> HIDE DEF I
   <2> QED BY <1>4, ConstantTypes, Ranked
<1>6. Climbed(S, T[i], i) BY <1>5, ConstantTypes
<1> QED BY <1>6 DEF StartOne, T

(* With its dependency READY, a service is started alone. *)
LEMMA StartOneAlone ==
    ASSUME NEW S \in Table, NEW fails, NEW i \in Services,
           S.state[i] # "READY", DependencyReady(S, i)
    PROVE  StartOne(S, i, fails) = Launch(S, i, fails)
<1> DEFINE T == Started(S, fails)
           d == Dependency[i]
<1>1. d # 0 => d \in Services /\ S.state[d] = "READY"
      BY ConstantTypes DEF DependencyReady
<1>2. T[d] = S BY <1>1, StartedEquations
<1>3. T[i] = StartLevel(T[d], i, fails) BY StartedEquations
<1> QED BY <1>2, <1>3 DEF StartOne, StartLevel

-----------------------------------------------------------------------------
(* The budget of starts *)

LEMMA TriesType ==
    ASSUME NEW S \in Table, NEW b \in [Services -> Nat], NEW i \in Services
    PROVE  Tries(S, b, i) \in [Services -> Nat]
<1>1. \A j \in Services : b[j] + S.count[j] \in Nat BY TableFields
<1> QED BY <1>1 DEF Tries

(* Starts that stay as they are stay paid for. *)
LEMMA PaidStays ==
    ASSUME NEW S \in Table, NEW U \in Table, NEW b \in [Services -> Nat],
           Paid(S, b), U.starts = S.starts, U.count = S.count
    PROVE  Paid(U, b)
BY DEF Paid, Tries

(* One more try of service i pays for one more start of each service it     *)
(* depends on.                                                              *)
LEMMA PaidByTry ==
    ASSUME NEW S \in Table, NEW U \in Table, NEW i \in Services,
           NEW b \in [Services -> Nat], NEW c \in [Services -> Nat],
           Paid(S, b),
           \A j \in Services : b[j] + S.count[j] <= c[j] + U.count[j],
           b[i] + S.count[i] < c[i] + U.count[i],
           \A k \in Services :
              /\ k \notin Ancestors[i] => U.starts[k] = S.starts[k]
              /\ U.starts[k] <= S.starts[k] + 1
    PROVE  Paid(U, c)
<1> SUFFICES ASSUME NEW k \in Services PROVE U.starts[k] <= Total(Tries(U, c, k))
    BY DEF Paid
<1> DEFINE f == Tries(S, b, k)
           g == Tries(U, c, k)
<1>1. f \in [Services -> Nat] /\ g \in [Services -> Nat] BY TriesType
<1>2. \A j \in Services : f[j] <= g[j] BY DEF Tries
<1>3. k \in Ancestors[i] => f[i] < g[i] BY DEF Tries
<1>4. S.starts[k] <= Total(f) BY DEF Paid
<1> HIDE DEF f, g
<1>5. /\ Total(f) \in Nat /\ Total(g) \in Nat /\ Total(f) <= Total(g)
      /\ k \in Ancestors[i] => Total(f) < Total(g)
      BY <1>1, <1>2, <1>3, TotalGrows
<1>6. S.starts[k] \in Nat /\ U.starts[k] \in Nat BY TableFields
<1>7. U.starts[k] <= Total(g)
   <2>1. CASE k \in Ancestors[i]
      <3>1. U.starts[k] <= S.starts[k] + 1 OBVIOUS
      <3>2. Total(f) < Total(g) BY <2>1, <1>5
      <3> QED BY <3>1, <3>2, <1>4, <1>5, <1>6
   <2>2. CASE k \notin Ancestors[i]
      <3>1. U.starts[k] = S.starts[k] BY <2>2
      <3> QED BY <3>1, <1>4, <1>5, <1>6
   <2> QED BY <2>1, <2>2
<1> QED BY <1>7 DEF g

-----------------------------------------------------------------------------
(* Polling a service *)

(* The program of i, if any, is stopped; w is the delay before a restart. *)
Stopped(S, U, i, w) ==
    /\ U \in Table
    /\ U.state = [S.state EXCEPT ![i] = "FAILED"]
    /\ U.count = S.count /\ U.starts = S.starts /\ U.pid = S.pid /\ U.age = S.age
    /\ U.wait = [S.wait EXCEPT ![i] = w]
    /\ w <= Backoff(Limit[i])
    /\ \A q \in Pids : U.holder[q] = S.holder[q] \/ U.holder[q] = Free
    /\ \A q \in Pids : U.holder[q] # i

LEMMA StoppedKeepsSound ==
    ASSUME NEW S, NEW U, Sound(S), NEW i \in Services, NEW w \in Nat,
           Stopped(S, U, i, w)
    PROVE  Sound(U)
<1>1. S \in Table /\ U \in Table BY DEF Sound, Stopped
<1>2. Bounded(U)
   <2>1. \A k \in Services : U.wait[k] = IF k = i THEN w ELSE S.wait[k]
         BY <1>1, TableFields DEF Stopped
   <2> QED BY <2>1 DEF Sound, Bounded, Stopped
<1>3. Owned(U)
   <2> SUFFICES ASSUME NEW q \in Pids, NEW k \in Services, U.holder[q] = k
                PROVE  k \in Userspace /\ U.state[k] = "READY" /\ U.pid[k] = q
       BY DEF Owned
   <2>1. U.holder[q] # Free BY DEF Services, Free
   <2>2. S.holder[q] = k /\ k # i BY <2>1 DEF Stopped
   <2>3. k \in Userspace /\ S.state[k] = "READY" /\ S.pid[k] = q
         BY <2>2 DEF Sound, Owned
   <2>4. U.state[k] = S.state[k] /\ U.pid = S.pid
         BY <2>2, <1>1, TableFields DEF Stopped
   <2> QED BY <2>3, <2>4
<1> QED BY <1>1, <1>2, <1>3 DEF Sound

LEMMA KillProgramEffect ==
    ASSUME NEW S \in Table, NEW i \in Services
    PROVE  LET K == KillProgram(S, i)
           IN  /\ K \in Table
               /\ K.state = S.state /\ K.count = S.count /\ K.starts = S.starts
               /\ K.pid = S.pid /\ K.age = S.age /\ K.wait = S.wait
               /\ \A q \in Pids : K.holder[q] = S.holder[q] \/ K.holder[q] = Free
               /\ S.pid[i] \in Pids => K.holder[S.pid[i]] = Free
<1> DEFINE K == KillProgram(S, i)
           p == S.pid[i]
<1>1. p \in Pids \union {None} BY TableFields
<1>2. CASE Exists(S, p)
   <2>1. K = [S EXCEPT !.holder[p] = Free] BY <1>2 DEF KillProgram
   <2>2. p \in Pids BY <1>1, <1>2 DEF Exists
   <2> HIDE DEF K, p
   <2>3. /\ K.state = S.state /\ K.count = S.count /\ K.starts = S.starts
         /\ K.pid = S.pid /\ K.age = S.age /\ K.wait = S.wait
         /\ K.holder = [S.holder EXCEPT ![p] = Free]
         BY <2>1, TableFields DEF Table
   <2>4. [S.holder EXCEPT ![p] = Free] \in [Pids -> Services \union {Free, Other}]
         BY TableFields
   <2>5. K \in Table BY <2>1, <2>4 DEF Table
   <2>6. \A q \in Pids : K.holder[q] = IF q = p THEN Free ELSE S.holder[q]
         BY <2>3, TableFields
   <2> QED BY <2>2, <2>3, <2>5, <2>6 DEF K, p
<1>3. CASE ~Exists(S, p)
   <2>1. K = S BY <1>3 DEF KillProgram
   <2>2. None \notin Pids BY ConstantTypes DEF None, Pids
   <2>3. p \in Pids => S.holder[p] = Free BY <1>3, <2>2 DEF Exists
   <2> QED BY <2>1, <2>3
<1> QED BY <1>2, <1>3

(* Killing the program and marking the service FAILED stops it. *)
LEMMA KillStops ==
    ASSUME NEW S, Sound(S), NEW i \in Services, NEW w \in Nat,
           w <= Backoff(Limit[i]),
           NEW K, K = KillProgram(S, i) \/ (i \notin Userspace /\ K = S),
           NEW U, U = [K EXCEPT !.state[i] = "FAILED", !.wait[i] = w]
    PROVE  Stopped(S, U, i, w)
<1>1. S \in Table BY DEF Sound
<1>2. /\ K \in Table
      /\ K.state = S.state /\ K.count = S.count /\ K.starts = S.starts
      /\ K.pid = S.pid /\ K.age = S.age /\ K.wait = S.wait
      /\ \A q \in Pids : K.holder[q] = S.holder[q] \/ K.holder[q] = Free
      BY <1>1, KillProgramEffect
<1>3. ASSUME NEW q \in Pids PROVE K.holder[q] # i
   <2> SUFFICES ASSUME K.holder[q] = i PROVE FALSE OBVIOUS
   <2>1. i # Free BY DEF Services, Free
   <2>2. S.holder[q] = i BY <1>2, <2>1
   <2>3. i \in Userspace /\ S.pid[i] = q BY <2>2 DEF Sound, Owned
   <2>4. K = KillProgram(S, i) BY <2>3
   <2>5. K.holder[q] = Free BY <2>3, <2>4, <1>1, KillProgramEffect
   <2> QED BY <2>1, <2>5
<1>4. /\ U.state = [K.state EXCEPT ![i] = "FAILED"]
      /\ U.count = K.count /\ U.starts = K.starts /\ U.pid = K.pid
      /\ U.age = K.age /\ U.wait = [K.wait EXCEPT ![i] = w] /\ U.holder = K.holder
      BY <1>2, TableFields DEF Table
<1>5. /\ [K.state EXCEPT ![i] = "FAILED"] \in [Services -> States]
      /\ [K.wait EXCEPT ![i] = w] \in [Services -> Nat]
      BY <1>2, TableFields DEF States
<1>6. U \in Table BY <1>2, <1>5 DEF Table
<1> QED BY <1>2, <1>3, <1>4, <1>6 DEF Stopped

(* What the poll of service i does: it leaves the state of the others, and  *)
(* keeps the tables sound and the starts paid for.                          *)
AllBooted == [j \in Services |-> 1]

Watched(S, U, i) ==
    /\ Sound(U) /\ Paid(U, AllBooted)
    /\ \A k \in Services : k # i => U.state[k] = S.state[k]

LEMMA StoppedWatched ==
    ASSUME NEW S, NEW U, Sound(S), Paid(S, AllBooted), NEW i \in Services,
           NEW w \in Nat, Stopped(S, U, i, w)
    PROVE  Watched(S, U, i) /\ U.state[i] = "FAILED"
<1>1. S \in Table /\ U \in Table BY DEF Sound, Stopped
<1>2. Sound(U) BY StoppedKeepsSound
<1>3. AllBooted \in [Services -> Nat] BY DEF AllBooted
<1>4. Paid(U, AllBooted) BY <1>1, <1>3, PaidStays DEF Stopped
<1>5. \A k \in Services : U.state[k] = IF k = i THEN "FAILED" ELSE S.state[k]
      BY <1>1, TableFields DEF Stopped
<1> QED BY <1>2, <1>4, <1>5 DEF Watched

LEMMA DetectLossEffect ==
    ASSUME NEW S, Sound(S), Paid(S, AllBooted), NEW i \in Services
    PROVE  Watched(S, DetectLoss(S, i), i)
<1> DEFINE U == DetectLoss(S, i)
           w == Backoff(S.count[i])
<1>1. CASE S.state[i] = "READY" /\ Lost(S, i)
   <2>1. U = [KillProgram(S, i) EXCEPT !.state[i] = "FAILED", !.wait[i] = w]
         BY <1>1 DEF DetectLoss
   <2>2. S.count[i] \in Nat /\ S.count[i] <= Limit[i] /\ Limit[i] \in 0 .. 16
         BY TableFields, ConstantTypes DEF Sound, Bounded
   <2>3. S.count[i] \in 0 .. 16 BY <2>2
   <2>4. w \in Nat /\ w <= Backoff(Limit[i]) BY <2>2, <2>3, BackoffGrows
   <2> HIDE DEF w
   <2>5. Stopped(S, U, i, w) BY <2>1, <2>4, KillStops
   <2> QED BY <2>4, <2>5, StoppedWatched
<1>2. CASE ~(S.state[i] = "READY" /\ Lost(S, i))
   <2>1. U = S BY <1>2 DEF DetectLoss
   <2> QED BY <2>1 DEF Watched
<1> QED BY <1>1, <1>2

LEMMA RestartDueEffect ==
    ASSUME NEW S, Sound(S), Paid(S, AllBooted), NEW i \in Services, NEW fails,
           DependencyReady(S, i)
    PROVE  Watched(S, RestartDue(S, i, fails), i)
<1> DEFINE U == RestartDue(S, i, fails)
           c == S.count[i]
<1>0. S \in Table BY DEF Sound
<1>1. CASE S.state[i] = "FAILED" /\ c < Limit[i] /\ S.wait[i] = 0
   <2> DEFINE T == [S EXCEPT !.count[i] = @ + 1, !.state[i] = "STOPPED"]
   <2>1. /\ T.state = [S.state EXCEPT ![i] = "STOPPED"]
         /\ T.count = [S.count EXCEPT ![i] = S.count[i] + 1]
         /\ T.starts = S.starts /\ T.pid = S.pid
         /\ T.age = S.age /\ T.wait = S.wait /\ T.holder = S.holder
         BY <1>0, TableFields DEF Table
   <2>2. /\ [S.state EXCEPT ![i] = "STOPPED"] \in [Services -> States]
         /\ [S.count EXCEPT ![i] = S.count[i] + 1] \in [Services -> Nat]
         BY <1>0, TableFields DEF States
   <2>3. T \in Table BY <1>0, <2>2 DEF Table
   <2>4. U = StartOne(T, i, fails) BY <1>1 DEF RestartDue
   <2> HIDE DEF T, U
   <2>5. \A k \in Services :
            /\ T.state[k] = IF k = i THEN "STOPPED" ELSE S.state[k]
            /\ T.count[k] = IF k = i THEN S.count[k] + 1 ELSE S.count[k]
         BY <2>1, <1>0, TableFields
   <2>6. \A k \in Services : S.count[k] \in Nat /\ Limit[k] \in Nat
      <3>1. \A k \in Services : S.count[k] \in Nat BY <1>0, TableFields
      <3>2. \A k \in Services : Limit[k] \in Nat BY ConstantTypes
      <3> QED BY <3>1, <3>2
   <2>7. Bounded(T)
      <3>1. \A k \in Services : T.count[k] <= Limit[k]
            BY <1>1, <2>5, <2>6 DEF Sound, Bounded
      <3> QED BY <3>1, <2>1 DEF Sound, Bounded
   <2>8. Owned(T)
      <3> SUFFICES ASSUME NEW q \in Pids, NEW k \in Services, T.holder[q] = k
                   PROVE  k \in Userspace /\ T.state[k] = "READY" /\ T.pid[k] = q
          BY DEF Owned
      <3>1. k \in Userspace /\ S.state[k] = "READY" /\ S.pid[k] = q
            BY <2>1 DEF Sound, Owned
      <3> QED BY <3>1, <1>1, <2>1, <2>5
   <2>9. Sound(T) BY <2>3, <2>7, <2>8 DEF Sound
   <2>10. DependencyReady(T, i)
      <3>1. \A k \in Services : k < i => k # i BY ConstantTypes
      <3>2. \A k \in Services : k < i => T.state[k] = S.state[k] BY <2>5, <3>1
      <3> QED BY <3>2, DependencyReadyDepends
   <2>11. T.state[i] # "READY" BY <2>5
   <2>12. U = Launch(T, i, fails) BY <2>3, <2>4, <2>10, <2>11, StartOneAlone
   <2>13. PICK p \in Pids \union {None}, st \in States : Launched(T, U, i, p, st)
          BY <2>12, <2>3, LaunchEffect
   <2>14. Sound(U) BY <2>9, <2>11, <2>13, LaunchKeepsSound
   <2>15. U \in Table /\ U.count = T.count BY <2>13 DEF Launched
   <2>16. \A k \in Services :
            /\ U.starts[k] = IF k = i THEN S.starts[k] + 1 ELSE S.starts[k]
            /\ U.state[k] = IF k = i THEN st ELSE T.state[k]
          BY <2>13, <2>1, <2>3, TableFields DEF Launched
   <2>17. AllBooted \in [Services -> Nat] BY DEF AllBooted
   <2>18. i \in Ancestors[i] BY AncestorsEquations
   <2>19. \A k \in Services :
             /\ k \notin Ancestors[i] => U.starts[k] = S.starts[k]
             /\ U.starts[k] <= S.starts[k] + 1
      <3>1. \A k \in Services : S.starts[k] \in Nat BY <1>0, TableFields
      <3> QED BY <3>1, <2>16, <2>18
   <2>20. /\ \A j \in Services :
               AllBooted[j] + S.count[j] <= AllBooted[j] + U.count[j]
          /\ AllBooted[i] + S.count[i] < AllBooted[i] + U.count[i]
      <3>1. \A j \in Services : AllBooted[j] = 1 BY DEF AllBooted
      <3> QED BY <3>1, <2>5, <2>6, <2>15
   <2>21. Paid(U, AllBooted)
          BY <1>0, <2>15, <2>17, <2>19, <2>20, PaidByTry
   <2>22. \A k \in Services : k # i => U.state[k] = S.state[k]
          BY <2>5, <2>16
   <2>23. Watched(S, U, i) BY <2>14, <2>21, <2>22 DEF Watched
   <2> QED BY <2>23 DEF U
<1>2. CASE ~(S.state[i] = "FAILED" /\ c < Limit[i] /\ S.wait[i] = 0)
   <2>1. U = S BY <1>2 DEF RestartDue
   <2> QED BY <2>1 DEF Watched
<1> QED BY <1>1, <1>2

LEMMA WatchedTwice ==
    ASSUME NEW S, NEW T, NEW U, NEW i \in Services, Watched(S, T, i), Watched(T, U, i)
    PROVE  Watched(S, U, i)
BY DEF Watched

LEMMA PollOneEffect ==
    ASSUME NEW S, Sound(S), Paid(S, AllBooted), NEW i \in Services, NEW fails
    PROVE  LET U == PollOne(S, i, fails)
           IN  Watched(S, U, i) /\ (U.state[i] = "READY" => DependencyReady(U, i))
<1> DEFINE U == PollOne(S, i, fails)
<1>0. \A k \in Services : k < i => k # i BY ConstantTypes
<1>1. CASE ~DependencyReady(S, i)
   <2> DEFINE K == IF i \in Userspace THEN KillProgram(S, i) ELSE S
   <2>1. U = [K EXCEPT !.state[i] = "FAILED", !.wait[i] = 1]
         BY <1>1 DEF PollOne, LoseDependency
   <2>2. K = KillProgram(S, i) \/ (i \notin Userspace /\ K = S) OBVIOUS
   <2>3. 1 \in Nat /\ 1 <= Backoff(Limit[i]) BY BackoffGrows, ConstantTypes
   <2> HIDE DEF K, U
   <2>4. Stopped(S, U, i, 1) BY <2>1, <2>2, <2>3, KillStops
   <2>5. Watched(S, U, i) /\ U.state[i] = "FAILED" BY <2>4, StoppedWatched
   <2> QED BY <2>5 DEF U
<1>2. CASE DependencyReady(S, i) /\ i \in Userspace
   <2> DEFINE T == DetectLoss(S, i)
   <2>1. U = RestartDue(T, i, fails) BY <1>2 DEF PollOne
   <2>2. Watched(S, T, i) BY DetectLossEffect
   <2> HIDE DEF T, U
   <2>3. \A k \in Services : k < i => T.state[k] = S.state[k]
         BY <2>2, <1>0 DEF Watched
   <2>4. DependencyReady(T, i) BY <2>3, <1>2, DependencyReadyDepends
   <2>5. Watched(T, U, i) BY <2>1, <2>2, <2>4, RestartDueEffect DEF Watched
   <2>6. Watched(S, U, i) BY <2>2, <2>5, WatchedTwice
   <2>7. \A k \in Services : k < i => U.state[k] = S.state[k]
         BY <2>6, <1>0 DEF Watched
   <2>8. DependencyReady(U, i) BY <2>7, <1>2, DependencyReadyDepends
   <2> QED BY <2>6, <2>8, <1>2 DEF U
<1>3. CASE DependencyReady(S, i) /\ i \notin Userspace
   <2>1. U = S BY <1>3 DEF PollOne
   <2> QED BY <2>1, <1>3 DEF Watched
<1> QED BY <1>1, <1>2, <1>3

(* The tables that a poll may begin with, and passes through. *)
PollTable == {S \in Table : Sound(S) /\ Paid(S, AllBooted)}

LEMMA PolledDef ==
    ASSUME NEW S \in PollTable, NEW fails
    PROVE  Polled(S, fails) =
               [k \in 0 .. NServices |->
                   IF k = 0 THEN S ELSE PollOne(Polled(S, fails)[k - 1], k, fails)]
<1> DEFINE F == [z \in (1 .. NServices) \X PollTable |-> PollOne(z[2], z[1], fails)]
<1>1. ASSUME NEW j \in 1 .. NServices, NEW x \in PollTable
      PROVE  PollOne(x, j, fails) \in PollTable
   <2>1. Watched(x, PollOne(x, j, fails), j) BY PollOneEffect DEF PollTable, Services
   <2> QED BY <2>1 DEF PollTable, Watched, Sound
<1>2. F \in [(1 .. NServices) \X PollTable -> PollTable] BY <1>1
<1>3. \A j \in 1 .. NServices, x \in PollTable : F[<<j, x>>] = PollOne(x, j, fails)
      OBVIOUS
<1> HIDE DEF F
<1>4. PICK g : Recursion(NServices, Before, PollTable, F, S, g)
      BY <1>2, BeforeType, ConstantTypes, RecursionExists
<1>5. ASSUME NEW j \in 0 .. NServices
      PROVE  g[j] = IF j = 0 THEN S ELSE PollOne(g[j - 1], j, fails)
   <2>1. CASE j = 0 BY <2>1, <1>4 DEF Recursion
   <2>2. CASE j # 0
      <3>1. j \in 1 .. NServices BY <2>2, ConstantTypes
      <3>2. g[j] = F[<<j, g[Before[j]]>>] /\ g[Before[j]] \in PollTable
            BY <3>1, <1>4, BeforeType DEF Recursion
      <3>3. Before[j] = j - 1 BY <3>1, BeforeType
      <3> QED BY <3>1, <3>2, <3>3, <2>2, <1>3
   <2> QED BY <2>1, <2>2
<1>6. g = [j \in 0 .. NServices |-> g[j]] BY <1>4 DEF Recursion
<1>7. g = [j \in 0 .. NServices |-> IF j = 0 THEN S ELSE PollOne(g[j - 1], j, fails)]
      BY <1>5, <1>6, Zenon
<1> QED BY <1>7, Zenon DEF Polled

(* A whole poll leaves the tables sound, the starts paid for and every      *)
(* dependency respected, whatever it found.                                 *)
LEMMA PolledEffect ==
    ASSUME NEW S, Sound(S), Paid(S, AllBooted), NEW fails
    PROVE  LET U == Polled(S, fails)[NServices]
           IN  Sound(U) /\ Paid(U, AllBooted) /\ Ordered(U, NServices)
<1> DEFINE T == Polled(S, fails)
<1>1. S \in PollTable BY DEF PollTable, Sound
<1>2. T = [k \in 0 .. NServices |->
              IF k = 0 THEN S ELSE PollOne(T[k - 1], k, fails)]
      BY <1>1, PolledDef, Zenon
<1> HIDE DEF T
<1>3. ASSUME NEW k \in 0 .. NServices
      PROVE  T[k] = IF k = 0 THEN S ELSE PollOne(T[k - 1], k, fails)
      BY <1>2
<1> DEFINE I == {k \in 0 .. NServices :
                    Sound(T[k]) /\ Paid(T[k], AllBooted) /\ Ordered(T[k], k)}
<1>4. ASSUME NEW k \in 0 .. NServices,
             \A i \in 0 .. NServices : i < k => i \in I
      PROVE  k \in I
   <2>1. CASE k = 0
      <3>1. T[k] = S BY <2>1, <1>3
      <3>2. Ordered(S, 0) BY DEF Ordered, Services
      <3> QED BY <3>1, <3>2, <2>1
   <2>2. CASE k # 0
      <3> DEFINE p == k - 1
                 V == T[p]
                 U == T[k]
      <3>1. k \in Services /\ p \in 0 .. NServices /\ p < k
            BY <2>2, ConstantTypes DEF Services
      <3>2. \A i \in Services : i <= k => i = k \/ i <= p BY ConstantTypes
      <3>3. U = PollOne(V, k, fails) BY <2>2, <1>3
      <3>4. Sound(V) /\ Paid(V, AllBooted) /\ Ordered(V, p)
            BY <3>1, <1>4
      <3> HIDE DEF p, V, U
      <3>5. Watched(V, U, k) /\ (U.state[k] = "READY" => DependencyReady(U, k))
            BY <3>1, <3>3, <3>4, PollOneEffect
      <3>6. ASSUME NEW i \in Services, i <= k, U.state[i] = "READY"
            PROVE  DependencyReady(U, i)
         <4>1. CASE i = k BY <4>1, <3>5, <3>6
         <4>2. CASE i # k
            <5>1. i <= p BY <4>2, <3>2, <3>6
            <5>2. V.state[i] = "READY" BY <4>2, <3>5, <3>6 DEF Watched
            <5>3. DependencyReady(V, i) BY <5>1, <5>2, <3>4 DEF Ordered
            <5>4. \A j \in Services : j < i => j # k BY <3>6, <3>1, ConstantTypes
            <5>5. \A j \in Services : j < i => U.state[j] = V.state[j]
                  BY <5>4, <3>5 DEF Watched
            <5> QED BY <5>3, <5>5, DependencyReadyDepends
         <4> QED BY <4>1, <4>2
      <3>7. Ordered(U, k) BY <3>6 DEF Ordered
      <3>8. Sound(U) /\ Paid(U, AllBooted) BY <3>5 DEF Watched
      <3> QED BY <3>7, <3>8 DEF U
   <2> QED BY <2>1, <2>2
<1>5. \A k \in 0 .. NServices : k \in I
   <2> HIDE DEF I
   <2> QED BY <1>4, ConstantTypes, Ranked
<1>6. NServices \in I BY <1>5, ConstantTypes
<1> QED BY <1>6 DEF T

-----------------------------------------------------------------------------
(* The invariant *)

Booted(n, again) ==
    [j \in Services |-> IF j < n \/ (j = n /\ again) THEN 1 ELSE 0]

IInv ==
    /\ Sound(Tables)
    /\ Ordered(Tables, NServices)
    /\ Paid(Tables, Booted(boot, retrying))
    /\ pause \in 0 .. 1
    /\ boot \in 1 .. NServices + 1
    /\ retrying \in BOOLEAN
    /\ retrying => boot \in Services /\ count[boot] < Limit[boot]

LEMMA TablesFields ==
    /\ Tables.state = state /\ Tables.count = count /\ Tables.starts = starts
    /\ Tables.pid = pid /\ Tables.age = age /\ Tables.wait = wait
    /\ Tables.holder = holder
BY DEF Tables

(* The tables become what the call made of them. *)
LEMMA BecomeTables ==
    ASSUME NEW U \in Table, Become(U)
    PROVE  Tables' = U
BY DEF Table, Become, Tables

LEMMA BootedType ==
    ASSUME NEW n \in Nat, NEW r \in BOOLEAN
    PROVE  /\ Booted(n, r) \in [Services -> Nat]
           /\ \A j \in Services : /\ Booted(n, r)[j] <= 1
                                  /\ j < n => Booted(n, r)[j] = 1
                                  /\ j > n => Booted(n, r)[j] = 0
                                  /\ j = n => Booted(n, r)[j] = IF r THEN 1 ELSE 0
BY ConstantTypes DEF Booted

LEMMA AllBootedAtEnd ==
    ASSUME NEW r \in BOOLEAN
    PROVE  Booted(NServices + 1, r) = AllBooted
<1>1. \A j \in Services : j < NServices + 1 BY ConstantTypes DEF Services
<1> QED BY <1>1 DEF Booted, AllBooted

LEMMA InitInv == Init => IInv
<1> SUFFICES ASSUME Init PROVE IInv OBVIOUS
<1>1. /\ state \in [Services -> States] /\ count \in [Services -> Nat]
      /\ starts \in [Services -> Nat] /\ pid \in [Services -> Pids \union {None}]
      /\ age \in [Services -> Nat] /\ wait \in [Services -> Nat]
      /\ holder \in [Pids -> Services \union {Free, Other}]
      BY DEF Init, States
<1>2. Tables \in Table BY <1>1 DEF Tables, Table
<1>3. Bounded(Tables)
   <2>1. \A i \in Services : Backoff(Limit[i]) \in Nat /\ 0 <= Backoff(Limit[i])
         BY BackoffGrows, ConstantTypes
   <2>2. \A i \in Services : count[i] = 0 /\ age[i] = 0 /\ wait[i] = 0 BY DEF Init
   <2> QED BY <2>1, <2>2, ConstantTypes, TablesFields DEF Bounded
<1>4. Owned(Tables)
   <2>1. \A p \in Pids : holder[p] = Free BY DEF Init
   <2>2. \A i \in Services : i # Free BY DEF Services, Free
   <2> QED BY <2>1, <2>2, TablesFields DEF Owned
<1>5. Ordered(Tables, NServices)
   <2>1. \A i \in Services : state[i] # "READY" BY DEF Init
   <2> QED BY <2>1, TablesFields DEF Ordered
<1>6. Paid(Tables, Booted(boot, retrying))
   <2>1. \A i \in Services : starts[i] = 0 BY DEF Init
   <2>2. boot \in Nat /\ retrying \in BOOLEAN BY DEF Init
   <2>3. Booted(boot, retrying) \in [Services -> Nat] BY <2>2, BootedType
   <2>4. \A i \in Services : Tries(Tables, Booted(boot, retrying), i) \in [Services -> Nat]
         BY <2>3, <1>2, TriesType
   <2>5. \A f \in [Services -> Nat] : Total(f) \in Nat
      <3> TAKE f \in [Services -> Nat]
      <3>1. \A j \in Services : f[j] <= f[j] OBVIOUS
      <3> QED BY <3>1, TotalGrows
   <2>6. \A i \in Services : Total(Tries(Tables, Booted(boot, retrying), i)) \in Nat
         BY <2>4, <2>5
   <2> QED BY <2>1, <2>6, TablesFields DEF Paid
<1>7. retrying \in BOOLEAN /\ ~retrying BY Zenon DEF Init
<1>8. pause \in 0 .. 1 /\ boot \in 1 .. NServices + 1 BY ConstantTypes DEF Init
<1> QED BY <1>2, <1>3, <1>4, <1>5, <1>6, <1>7, <1>8 DEF IInv, Sound

LEMMA BootStep ==
    ASSUME IInv, NEW fails, BootStart(fails)
    PROVE  IInv'
<1> DEFINE S == IF retrying THEN [Tables EXCEPT !.count[boot] = @ + 1] ELSE Tables
           T == StartOne(S, boot, fails)
           again == T.state[boot] = "FAILED" /\ T.count[boot] < Limit[boot]
<1>1. /\ boot \in Services /\ boot \in Nat /\ retrying \in BOOLEAN
      /\ boot + 1 \in 1 .. NServices + 1 /\ boot \in 1 .. NServices + 1
      BY ConstantTypes DEF IInv, BootStart, Services
<1>2. Tables \in Table /\ Sound(Tables) BY DEF IInv, Sound
<1>3. \A k \in Services :
         S.count[k] = IF k = boot /\ retrying THEN count[k] + 1 ELSE count[k]
      BY <1>1, <1>2, TableFields, TablesFields DEF Table
<1>4. /\ S \in Table
      /\ S.state = state /\ S.starts = starts /\ S.pid = pid
      /\ S.age = age /\ S.wait = wait /\ S.holder = holder
   <2>1. CASE retrying
      <3>1. S = [Tables EXCEPT !.count[boot] = @ + 1] BY <2>1
      <3>2. [count EXCEPT ![boot] = count[boot] + 1] \in [Services -> Nat]
            BY <1>1, <1>2, TableFields, TablesFields
      <3> QED BY <3>1, <3>2, <1>2, TablesFields DEF Table
   <2>2. CASE ~retrying BY <2>2, <1>2, TablesFields
   <2> QED BY <2>1, <2>2
<1>5. \A k \in Services : /\ count[k] \in Nat /\ Limit[k] \in Nat
                          /\ count[k] <= Limit[k]
   <2>1. \A k \in Services : count[k] \in Nat BY <1>2, TableFields, TablesFields
   <2>2. \A k \in Services : Limit[k] \in Nat BY ConstantTypes
   <2>3. \A k \in Services : count[k] <= Limit[k]
         BY <1>2, TablesFields DEF Sound, Bounded
   <2> QED BY <2>1, <2>2, <2>3
<1>6. Sound(S)
   <2>1. \A k \in Services : S.count[k] <= Limit[k]
         BY <1>3, <1>5 DEF IInv
   <2>2. Bounded(S) BY <2>1, <1>2, <1>4, TablesFields DEF Sound, Bounded
   <2>3. Owned(S) BY <1>2, <1>4, TablesFields DEF Sound, Owned
   <2> QED BY <2>2, <2>3, <1>4 DEF Sound
<1>7. Ordered(S, NServices)
      BY <1>4, TablesFields DEF IInv, Ordered, DependencyReady
<1> HIDE DEF S
<1>8. Climbed(S, T, boot) BY <1>1, <1>6, <1>7, StartOneEffect
<1>9. /\ Become(T) /\ retrying' = again
      /\ boot' = (IF again THEN boot ELSE boot + 1) /\ pause' = pause
      BY DEF BootStart, S
<1> HIDE DEF T
<1>10. T \in Table /\ Sound(T) /\ Ordered(T, NServices) /\ T.count = S.count
       BY <1>8 DEF Climbed, Sound
<1>11. Tables' = T BY <1>9, <1>10, BecomeTables
<1>12. retrying' \in BOOLEAN /\ boot' \in 1 .. NServices + 1 BY <1>9, <1>1
<1>13. retrying' => boot' \in Services /\ count'[boot'] < Limit[boot']
   <2> SUFFICES ASSUME retrying' PROVE boot' \in Services /\ count'[boot'] < Limit[boot']
       OBVIOUS
   <2>1. again BY <1>9
   <2>2. boot' = boot /\ count' = T.count BY <2>1, <1>9 DEF Become
   <2> QED BY <2>1, <2>2, <1>1
<1> DEFINE b == Booted(boot, retrying)
           c == Booted(boot', retrying')
<1>14. Paid(T, c)
   <2>1. /\ b \in [Services -> Nat]
         /\ \A j \in Services : /\ b[j] <= 1
                                /\ j < boot => b[j] = 1
                                /\ j > boot => b[j] = 0
                                /\ j = boot => b[j] = IF retrying THEN 1 ELSE 0
         BY <1>1, BootedType
   <2>2. /\ c \in [Services -> Nat]
         /\ \A j \in Services : /\ j < boot' => c[j] = 1
                                /\ j = boot' => c[j] = IF retrying' THEN 1 ELSE 0
      <3>1. boot' \in Nat BY <1>12
      <3> QED BY <3>1, <1>12, BootedType
   <2> HIDE DEF b, c
   <2>3. \A j \in Services : j \in Int /\ b[j] \in Nat /\ c[j] \in Nat
         BY <2>1, <2>2, ConstantTypes
   <2>4. (boot' = boot /\ retrying') \/ boot' = boot + 1
         BY <1>9, <1>1
   <2>5. c[boot] = 1
      <3>1. CASE boot' = boot /\ retrying' BY <3>1, <2>2, <1>1
      <3>2. CASE boot' = boot + 1
         <4>1. boot < boot' BY <3>2, <1>1
         <4> QED BY <4>1, <2>2, <1>1
      <3> QED BY <3>1, <3>2, <2>4
   <2>6. \A j \in Services : b[j] <= c[j]
      <3> TAKE j \in Services
      <3>1. CASE j < boot
         <4>1. j < boot' BY <3>1, <2>4, <2>3, <1>1
         <4> QED BY <4>1, <3>1, <2>1, <2>2
      <3>2. CASE j = boot BY <3>2, <2>5, <2>1
      <3>3. CASE j > boot BY <3>3, <2>1, <2>3
      <3>4. j < boot \/ j = boot \/ j > boot BY <2>3, <1>1
      <3> QED BY <3>1, <3>2, <3>3, <3>4
   <2>7. \A j \in Services : b[j] + count[j] <= c[j] + T.count[j]
      <3> TAKE j \in Services
      <3>1. T.count[j] = count[j] \/ T.count[j] = count[j] + 1 BY <1>3, <1>10
      <3> QED BY <3>1, <2>3, <2>6, <1>5
   <2>8. b[boot] + count[boot] < c[boot] + T.count[boot]
      <3>1. CASE retrying
         <4>1. T.count[boot] = count[boot] + 1 BY <3>1, <1>1, <1>3, <1>10
         <4>2. b[boot] = 1 BY <3>1, <1>1, <2>1
         <4> QED BY <4>1, <4>2, <2>5, <1>1, <1>5
      <3>2. CASE ~retrying
         <4>1. T.count[boot] = count[boot] BY <3>2, <1>1, <1>3, <1>10
         <4>2. b[boot] = 0 BY <3>2, <1>1, <2>1
         <4> QED BY <4>1, <4>2, <2>5, <1>1, <1>5
      <3> QED BY <3>1, <3>2
   <2>9. \A k \in Services :
             /\ k \notin Ancestors[boot] => T.starts[k] = starts[k]
             /\ T.starts[k] <= starts[k] + 1
         BY <1>8, <1>4 DEF Climbed
   <2>10. Paid(Tables, b) BY DEF IInv, b
   <2>11. /\ \A j \in Services : b[j] + Tables.count[j] <= c[j] + T.count[j]
          /\ b[boot] + Tables.count[boot] < c[boot] + T.count[boot]
          /\ \A k \in Services :
                /\ k \notin Ancestors[boot] => T.starts[k] = Tables.starts[k]
                /\ T.starts[k] <= Tables.starts[k] + 1
          BY <2>7, <2>8, <2>9, TablesFields
   <2> QED BY <1>1, <1>2, <1>10, <2>1, <2>2, <2>10, <2>11, PaidByTry
<1>15. pause' \in 0 .. 1 BY <1>9 DEF IInv
<1> QED BY <1>10, <1>11, <1>12, <1>13, <1>14, <1>15 DEF IInv

LEMMA PollStep ==
    ASSUME IInv, NEW fails, Poll(fails)
    PROVE  IInv'
<1> DEFINE T == Polled(Tables, fails)[NServices]
<1>1. /\ boot = NServices + 1 /\ retrying \in BOOLEAN
      /\ boot' = boot /\ retrying' = retrying /\ pause' = 1 /\ Become(T)
      BY ConstantTypes DEF IInv, Poll, Running
<1>2. Booted(boot, retrying) = AllBooted BY <1>1, AllBootedAtEnd
<1>3. Sound(Tables) /\ Paid(Tables, AllBooted) BY <1>2 DEF IInv
<1>4. Sound(T) /\ Paid(T, AllBooted) /\ Ordered(T, NServices)
      BY <1>3, PolledEffect
<1> HIDE DEF T
<1>5. T \in Table BY <1>4 DEF Sound
<1>6. Tables' = T BY <1>1, <1>5, BecomeTables
<1>7. Booted(boot', retrying') = AllBooted BY <1>1, <1>2
<1>8. NServices + 1 \notin Services BY ConstantTypes DEF Services
<1>9. ~retrying BY <1>1, <1>8 DEF IInv
<1>10. pause' \in 0 .. 1 /\ boot' \in 1 .. NServices + 1 BY <1>1 DEF IInv
<1> QED BY <1>1, <1>4, <1>6, <1>7, <1>9, <1>10 DEF IInv

(* A step that leaves the manager's decisions alone. *)
LEMMA OtherStep ==
    ASSUME IInv, UNCHANGED <<state, count, starts, boot, retrying>>,
           pause' \in 0 .. 1,
           age' \in [Services -> Nat], wait' \in [Services -> Nat], pid' = pid,
           holder' \in [Pids -> Services \union {Free, Other}],
           \A i \in Services : age'[i] <= Timeout[i] + 1 /\ wait'[i] <= Backoff(Limit[i]),
           \A p \in Pids, i \in Services : holder'[p] = i => holder[p] = i
    PROVE  IInv'
<1> DEFINE U == Tables'
<1>1. /\ U.state = state /\ U.count = count /\ U.starts = starts /\ U.pid = pid
      /\ U.age = age' /\ U.wait = wait' /\ U.holder = holder'
      BY DEF Tables
<1>2. Tables \in Table /\ Sound(Tables) BY DEF IInv, Sound
<1>3. /\ state \in [Services -> States] /\ count \in [Services -> Nat]
      /\ starts \in [Services -> Nat] /\ pid \in [Services -> Pids \union {None}]
      BY <1>2, TableFields, TablesFields
<1>4. U \in Table
   <2>1. U = [state |-> state, count |-> count, starts |-> starts, pid |-> pid,
              age |-> age', wait |-> wait', holder |-> holder']
         BY DEF Tables
   <2> QED BY <2>1, <1>3 DEF Table
<1> HIDE DEF U
<1>5. Bounded(U) BY <1>1, <1>2, TablesFields DEF Sound, Bounded
<1>6. Owned(U) BY <1>1, <1>2, TablesFields DEF Sound, Owned
<1>7. Ordered(U, NServices)
      BY <1>1, TablesFields DEF IInv, Ordered, DependencyReady
<1> DEFINE b == Booted(boot, retrying)
<1>8. b \in [Services -> Nat]
   <2>1. boot \in Nat /\ retrying \in BOOLEAN BY DEF IInv
   <2> QED BY <2>1, BootedType
<1>9. Paid(Tables, b) BY DEF IInv
<1>10. Booted(boot', retrying') = b OBVIOUS
<1> HIDE DEF b
<1>11. Paid(U, b)
       BY <1>1, <1>2, <1>4, <1>8, <1>9, TablesFields, PaidStays
<1>12. Sound(U) BY <1>4, <1>5, <1>6 DEF Sound
<1>13. /\ boot' \in 1 .. NServices + 1 /\ retrying' \in BOOLEAN
       /\ retrying' => boot' \in Services /\ count'[boot'] < Limit[boot']
       BY DEF IInv
<1> QED BY <1>7, <1>10, <1>11, <1>12, <1>13 DEF IInv, U

LEMMA InvFacts ==
    ASSUME IInv
    PROVE  /\ age \in [Services -> Nat] /\ wait \in [Services -> Nat]
           /\ holder \in [Pids -> Services \union {Free, Other}]
           /\ \A i \in Services : /\ age[i] <= Timeout[i] + 1
                                  /\ wait[i] <= Backoff(Limit[i])
                                  /\ Backoff(Limit[i]) \in Nat
<1>1. Tables \in Table /\ Bounded(Tables) BY DEF IInv, Sound
<1>2. \A i \in Services : Backoff(Limit[i]) \in Nat BY BackoffGrows, ConstantTypes
<1>3. /\ age \in [Services -> Nat] /\ wait \in [Services -> Nat]
      /\ holder \in [Pids -> Services \union {Free, Other}]
      BY <1>1, TableFields, TablesFields
<1>4. \A i \in Services : age[i] <= Timeout[i] + 1 /\ wait[i] <= Backoff(Limit[i])
      BY <1>1, TablesFields DEF Bounded
<1> QED BY <1>2, <1>3, <1>4

LEMMA HeartbeatStep ==
    ASSUME IInv, NEW p \in Pids, Heartbeat(p)
    PROVE  IInv'
<1>1. PICK i \in Services : age' = [age EXCEPT ![i] = 0] BY DEF Heartbeat
<1>2. /\ UNCHANGED <<state, count, starts, boot, retrying>>
      /\ pause' = pause /\ pid' = pid /\ wait' = wait /\ holder' = holder
      BY DEF Heartbeat
<1>3. age' \in [Services -> Nat] BY <1>1, InvFacts
<1>4. \A k \in Services : age'[k] <= Timeout[k] + 1
   <2>1. \A k \in Services : 0 <= Timeout[k] + 1 BY ConstantTypes
   <2> QED BY <2>1, <1>1, InvFacts
<1>5. pause' \in 0 .. 1 BY <1>2 DEF IInv
<1> QED BY <1>2, <1>3, <1>4, <1>5, InvFacts, OtherStep

LEMMA BeginStep ==
    ASSUME IInv, Begin
    PROVE  IInv'
<1> DEFINE p == Min(FreePids(Tables))
<1>1. /\ UNCHANGED <<state, count, starts, boot, retrying>>
      /\ pause' = pause /\ pid' = pid /\ wait' = wait /\ age' = age
      /\ holder' = [holder EXCEPT ![p] = Other]
      BY DEF Begin
<1> HIDE DEF p
<1>2. holder' \in [Pids -> Services \union {Free, Other}] BY <1>1, InvFacts
<1>3. \A i \in Services : i # Other BY DEF Services, Other
<1>4. \A q \in Pids, i \in Services : holder'[q] = i => holder[q] = i
      BY <1>1, <1>3, InvFacts
<1>5. pause' \in 0 .. 1 BY <1>1 DEF IInv
<1> QED BY <1>1, <1>2, <1>4, <1>5, InvFacts, OtherStep

LEMMA EndStep ==
    ASSUME IInv, NEW p \in Pids, End(p)
    PROVE  IInv'
<1>1. /\ UNCHANGED <<state, count, starts, boot, retrying>>
      /\ pause' = pause /\ pid' = pid /\ wait' = wait /\ age' = age
      /\ holder' = [holder EXCEPT ![p] = Free]
      BY DEF End
<1>2. holder' \in [Pids -> Services \union {Free, Other}] BY <1>1, InvFacts
<1>3. \A i \in Services : i # Free BY DEF Services, Free
<1>4. \A q \in Pids, i \in Services : holder'[q] = i => holder[q] = i
      BY <1>1, <1>3, InvFacts
<1>5. pause' \in 0 .. 1 BY <1>1 DEF IInv
<1> QED BY <1>1, <1>2, <1>4, <1>5, InvFacts, OtherStep

LEMMA TickStep ==
    ASSUME IInv, Tick
    PROVE  IInv'
<1>1. /\ UNCHANGED <<state, count, starts, boot, retrying>>
      /\ pause' = Less(pause) /\ pid' = pid /\ holder' = holder
      /\ age' = [i \in Services |-> IF age[i] > Timeout[i] THEN age[i] ELSE age[i] + 1]
      /\ wait' = [i \in Services |-> Less(wait[i])]
      BY DEF Tick
<1>2. \A n \in Nat : Less(n) \in Nat /\ Less(n) <= n BY DEF Less
<1>3. pause' \in 0 .. 1
   <2>1. pause = 0 \/ pause = 1 BY DEF IInv
   <2> QED BY <2>1, <1>1 DEF Less
<1>4. \A i \in Services : age[i] \in Nat /\ wait[i] \in Nat BY InvFacts
<1>5. \A i \in Services : Timeout[i] \in Nat BY ConstantTypes
<1>6. age' \in [Services -> Nat] /\ wait' \in [Services -> Nat]
      BY <1>1, <1>2, <1>4
<1>7. \A i \in Services : age'[i] <= Timeout[i] + 1
      BY <1>1, <1>4, <1>5, InvFacts
<1>8. \A i \in Services : wait'[i] <= Backoff(Limit[i])
   <2> TAKE i \in Services
   <2>1. wait'[i] \in Nat /\ wait'[i] <= wait[i] BY <1>1, <1>2, <1>4
   <2> QED BY <2>1, <1>4, InvFacts
<1> QED BY <1>1, <1>3, <1>6, <1>7, <1>8, InvFacts, OtherStep

LEMMA NextInv == IInv /\ [Next]_vars => IInv'
<1> SUFFICES ASSUME IInv, [Next]_vars PROVE IInv' OBVIOUS
<1>1. CASE Boot BY <1>1, BootStep DEF Boot
<1>2. CASE Supervise BY <1>2, PollStep DEF Supervise
<1>3. CASE \E p \in Pids : Heartbeat(p) \/ End(p) BY <1>3, HeartbeatStep, EndStep
<1>4. CASE Begin BY <1>4, BeginStep
<1>5. CASE Tick BY <1>5, TickStep
<1>6. CASE UNCHANGED vars
   <2>1. /\ UNCHANGED <<state, count, starts, boot, retrying>>
         /\ pause' = pause /\ pid' = pid /\ holder' = holder
         /\ age' = age /\ wait' = wait
         BY <1>6 DEF vars
   <2>2. pause' \in 0 .. 1 BY <2>1 DEF IInv
   <2> QED BY <2>1, <2>2, InvFacts, OtherStep
<1> QED BY <1>1, <1>2, <1>3, <1>4, <1>5, <1>6 DEF Next

(* Every call of the manager and every step of the other programs keeps the *)
(* inductive invariant, for any services, dependencies and PIDs.            *)
THEOREM Invariance == Spec => []IInv
BY InitInv, NextInv, PTL DEF Spec

-----------------------------------------------------------------------------
(* The theorems *)

(* A service is READY only while the one it depends on is, whatever the     *)
(* recursion of service_start_one and the sweep of service_poll change.     *)
THEOREM DependenciesFirstHolds == Spec => []DependenciesFirst
<1>1. IInv => DependenciesFirst
   <2>1. \A i \in Services : i <= NServices BY DEF Services
   <2> QED BY <2>1, TablesFields DEF IInv, Ordered, DependenciesFirst
<1> QED BY <1>1, Invariance, PTL

(* No service ever has two programs, and one that is not READY has none;    *)
(* counters, ages and delays stay within their limits.                      *)
THEOREM OneProgramHolds == Spec => []OneProgram
<1>1. IInv => TypeOK
   <2> SUFFICES ASSUME IInv PROVE TypeOK OBVIOUS
   <2>1. Tables \in Table /\ Bounded(Tables) BY DEF IInv, Sound
   <2>2. /\ state \in [Services -> States] /\ count \in [Services -> Nat]
         /\ starts \in [Services -> Nat] /\ pid \in [Services -> Pids \union {None}]
         /\ age \in [Services -> Nat] /\ wait \in [Services -> Nat]
         /\ holder \in [Pids -> Services \union {Free, Other}]
         BY <2>1, TableFields, TablesFields
   <2>3. ASSUME NEW i \in Services
         PROVE  /\ count[i] \in 0 .. Limit[i] /\ starts[i] \in Nat
                /\ age[i] \in 0 .. Timeout[i] + 1
                /\ wait[i] \in 0 .. Backoff(Limit[i])
      <3>1. count[i] \in Nat /\ starts[i] \in Nat /\ age[i] \in Nat /\ wait[i] \in Nat
            BY <2>2
      <3>2. Limit[i] \in Nat /\ Timeout[i] \in Nat /\ Backoff(Limit[i]) \in Nat
            BY ConstantTypes, InvFacts
      <3>3. /\ count[i] <= Limit[i] /\ age[i] <= Timeout[i] + 1
            /\ wait[i] <= Backoff(Limit[i])
            BY <2>1, TablesFields DEF Bounded
      <3> QED BY <3>1, <3>2, <3>3
   <2> QED BY <2>2, <2>3 DEF IInv, TypeOK
<1>2. ASSUME IInv, NEW i \in Services
      PROVE  Cardinality({p \in Pids : holder[p] = i})
                 <= (IF state[i] = "READY" THEN 1 ELSE 0)
   <2> DEFINE P == {p \in Pids : holder[p] = i}
   <2>1. \A p \in P : state[i] = "READY" /\ pid[i] = p
         BY <1>2, TablesFields DEF IInv, Sound, Owned
   <2>2. CASE P = {}
      <3>1. Cardinality(P) = 0 BY <2>2, FS_EmptySet
      <3> QED BY <3>1
   <2>3. CASE P # {}
      <3>1. P = {pid[i]} /\ state[i] = "READY" BY <2>1, <2>3
      <3>2. Cardinality(P) = 1 BY <3>1, FS_Singleton
      <3> QED BY <3>1, <3>2
   <2> QED BY <2>2, <2>3
<1>3. IInv => OneProgram BY <1>1, <1>2 DEF OneProgram
<1> QED BY <1>3, Invariance, PTL

(* However failures at boot and at run time follow each other, no service   *)
(* is started more often than its own and its dependents' limits allow.     *)
THEOREM BoundedRestartsHolds == Spec => []BoundedRestarts
<1>1. ASSUME IInv, NEW i \in Services PROVE starts[i] <= MaxStarts(i)
   <2> DEFINE b == Booted(boot, retrying)
              f == Tries(Tables, b, i)
              g == [j \in Services |-> IF i \in Ancestors[j] THEN 1 + Limit[j] ELSE 0]
   <2>1. Tables \in Table /\ Bounded(Tables) BY <1>1 DEF IInv, Sound
   <2>2. b \in [Services -> Nat] /\ \A j \in Services : b[j] <= 1
      <3>1. boot \in Nat /\ retrying \in BOOLEAN BY <1>1 DEF IInv
      <3> QED BY <3>1, BootedType
   <2>3. starts[i] <= Total(f) BY <1>1, TablesFields DEF IInv, Paid
   <2>4. \A j \in Services : Limit[j] \in Nat BY ConstantTypes
   <2>5. g \in [Services -> Nat] BY <2>4
   <2> HIDE DEF b
   <2>6. f \in [Services -> Nat] BY <2>1, <2>2, TriesType
   <2>7. \A j \in Services : f[j] <= g[j]
      <3> TAKE j \in Services
      <3>1. f[j] = IF i \in Ancestors[j] THEN b[j] + Tables.count[j] ELSE 0
            BY DEF Tries
      <3>2. g[j] = IF i \in Ancestors[j] THEN 1 + Limit[j] ELSE 0 OBVIOUS
      <3>3. Tables.count[j] \in Nat BY <2>1, TableFields
      <3>4. Tables.count[j] <= Limit[j] BY <2>1 DEF Bounded
      <3>5. b[j] \in Nat /\ b[j] <= 1 BY <2>2
      <3> HIDE DEF f, g
      <3> QED BY <3>1, <3>2, <3>3, <3>4, <3>5, <2>4
   <2>8. MaxStarts(i) = Total(g) BY DEF MaxStarts
   <2> HIDE DEF f, g
   <2>9. Total(f) <= Total(g) /\ Total(f) \in Nat /\ Total(g) \in Nat
         BY <2>5, <2>6, <2>7, TotalGrows
   <2>10. starts[i] \in Nat BY <2>1, TableFields, TablesFields
   <2> QED BY <2>3, <2>8, <2>9, <2>10
<1>2. IInv => BoundedRestarts BY <1>1 DEF BoundedRestarts
<1> QED BY <1>2, Invariance, PTL
=============================================================================
