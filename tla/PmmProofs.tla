----------------------------- MODULE PmmProofs -----------------------------
(***************************************************************************)
(* Proofs about Pmm, for every list of disjoint boot regions, every size   *)
(* of the table and every size of block.                                   *)
(***************************************************************************)
EXTENDS Pmm, FiniteSetTheorems, SequenceTheorems, TLAPS

Block == [base : Nat, end : Nat]

(* The blocks of the list do not overlap and are in order, and only those   *)
(* whose position is in X may touch the next one.                           *)
Loose(rs, X) ==
    /\ rs \in Seq(Block)
    /\ \A i \in 1 .. Len(rs) :
          /\ rs[i].base < rs[i].end
          /\ \A j \in 1 .. i - 1 : rs[j].end <= rs[i].base
    /\ \A i \in 1 .. Len(rs) - 1 : i \notin X => rs[i].end < rs[i + 1].base

-----------------------------------------------------------------------------
(* Sequences of blocks *)

(* The fields of a block of the list are numbers of pages. *)
LEMMA BlockFields ==
  ASSUME NEW rs \in Seq(Block)
  PROVE  /\ Len(rs) \in Nat /\ DOMAIN rs = 1 .. Len(rs)
         /\ \A i \in 1 .. Len(rs) : /\ rs[i] \in Block
                                    /\ rs[i].base \in Nat /\ rs[i].end \in Nat
  <1>1. Len(rs) \in Nat /\ DOMAIN rs = 1 .. Len(rs) /\ \A i \in 1 .. Len(rs) : rs[i] \in Block
    BY LenProperties, ElementOfSeq
  <1>2. \A r \in Block : r.base \in Nat /\ r.end \in Nat
    BY DEF Block
  <1> QED
    BY <1>1, <1>2

(* A page is in the list when one of its blocks contains it. *)
LEMMA InPages ==
  ASSUME NEW rs \in Seq(Block)
  PROVE  \A x : x \in PagesOf(rs) <=>
            x \in Nat /\ \E i \in 1 .. Len(rs) : rs[i].base <= x /\ x < rs[i].end
  <1>1. DOMAIN rs = 1 .. Len(rs) /\ \A i \in 1 .. Len(rs) : rs[i].base \in Nat /\ rs[i].end \in Nat
    BY BlockFields
  <1>2. \A i \in 1 .. Len(rs) : \A x :
           x \in Pages(rs[i]) <=> x \in Nat /\ rs[i].base <= x /\ x < rs[i].end
    BY <1>1 DEF Pages
  <1> QED
    BY <1>1, <1>2 DEF PagesOf

(* RemoveAt takes one entry out and moves the later ones up. *)
LEMMA RemoveAtProperties ==
  ASSUME NEW rs \in Seq(Block), NEW k \in 1 .. Len(rs)
  PROVE  /\ RemoveAt(rs, k) \in Seq(Block)
         /\ Len(RemoveAt(rs, k)) = Len(rs) - 1
         /\ \A i \in 1 .. Len(rs) - 1 :
               RemoveAt(rs, k)[i] = IF i < k THEN rs[i] ELSE rs[i + 1]
  <1> DEFINE a == SubSeq(rs, 1, k - 1)
             z == SubSeq(rs, k + 1, Len(rs))
  <1>1. Len(rs) \in Nat /\ \A i \in 1 .. Len(rs) : rs[i] \in Block
    OBVIOUS
  <1>2. /\ a \in Seq(Block) /\ Len(a) = k - 1
        /\ \A i \in 1 .. k - 1 : a[i] = rs[i]
    BY <1>1, SubSeqProperties
  <1>3. /\ z \in Seq(Block) /\ Len(z) = Len(rs) - k
        /\ \A i \in 1 .. Len(rs) - k : z[i] = rs[k + i]
    BY <1>1, SubSeqProperties
  <1>4. RemoveAt(rs, k) = a \o z
    BY DEF RemoveAt
  <1> HIDE DEF a, z
  <1>5. /\ a \o z \in Seq(Block) /\ Len(a \o z) = Len(rs) - 1
        /\ \A i \in 1 .. Len(rs) - 1 : (a \o z)[i] = IF i <= k - 1 THEN a[i] ELSE z[i - (k - 1)]
    <2>1. Len(a) + Len(z) = Len(rs) - 1
      BY <1>1, <1>2, <1>3
    <2>2. /\ a \o z \in Seq(Block) /\ Len(a \o z) = Len(a) + Len(z)
          /\ \A i \in 1 .. Len(a) + Len(z) :
                (a \o z)[i] = IF i <= Len(a) THEN a[i] ELSE z[i - Len(a)]
      BY <1>2, <1>3, ConcatProperties
    <2> QED
      BY <2>1, <2>2, <1>2
  <1>6. \A i \in 1 .. Len(rs) - 1 : (a \o z)[i] = IF i < k THEN rs[i] ELSE rs[i + 1]
    <2> TAKE i \in 1 .. Len(rs) - 1
    <2>1. CASE i < k
      BY <2>1, <1>1, <1>2, <1>5
    <2>2. CASE i >= k
      <3>1. i - (k - 1) \in 1 .. Len(rs) - k /\ k + (i - (k - 1)) = i + 1
        BY <2>2, <1>1
      <3> QED
        BY <2>2, <3>1, <1>1, <1>3, <1>5
    <2>3. i \in Int /\ k \in Int
      BY <1>1
    <2>4. i < k \/ i >= k
      BY <2>3
    <2> QED
      BY <2>1, <2>2, <2>4
  <1> QED
    BY <1>4, <1>5, <1>6

(* InsertAt puts one entry in and moves the later ones down. *)
LEMMA InsertAtProperties ==
  ASSUME NEW rs \in Seq(Block), NEW k \in 1 .. Len(rs) + 1, NEW r \in Block
  PROVE  /\ InsertAt(rs, k, r) \in Seq(Block)
         /\ Len(InsertAt(rs, k, r)) = Len(rs) + 1
         /\ \A i \in 1 .. Len(rs) + 1 :
               InsertAt(rs, k, r)[i] = IF i < k THEN rs[i] ELSE IF i = k THEN r ELSE rs[i - 1]
  <1> DEFINE a == SubSeq(rs, 1, k - 1)
             z == SubSeq(rs, k, Len(rs))
             m == a \o <<r>>
  <1>1. Len(rs) \in Nat /\ \A i \in 1 .. Len(rs) : rs[i] \in Block
    OBVIOUS
  <1>2. /\ a \in Seq(Block) /\ Len(a) = k - 1
        /\ \A i \in 1 .. k - 1 : a[i] = rs[i]
    BY <1>1, SubSeqProperties
  <1>3. /\ z \in Seq(Block) /\ Len(z) = Len(rs) - k + 1
        /\ \A i \in 1 .. Len(rs) - k + 1 : z[i] = rs[k + i - 1]
    BY <1>1, SubSeqProperties
  <1>4. InsertAt(rs, k, r) = m \o z
    BY DEF InsertAt
  <1>5. <<r>> \in Seq(Block) /\ Len(<<r>>) = 1 /\ <<r>>[1] = r
    OBVIOUS
  <1> HIDE DEF a, z
  <1>6. /\ m \in Seq(Block) /\ Len(m) = k
        /\ \A i \in 1 .. k : m[i] = IF i <= k - 1 THEN a[i] ELSE <<r>>[i - (k - 1)]
    BY <1>1, <1>2, <1>5, ConcatProperties
  <1>7. m[k] = r /\ \A i \in 1 .. k - 1 : m[i] = rs[i]
    <2>1. k \in 1 .. k /\ ~(k <= k - 1) /\ k - (k - 1) = 1
      BY <1>1
    <2>2. m[k] = r
      BY <2>1, <1>5, <1>6
    <2> QED
      BY <2>2, <1>2, <1>6
  <1> HIDE DEF m
  <1>8. /\ m \o z \in Seq(Block) /\ Len(m \o z) = Len(rs) + 1
        /\ \A i \in 1 .. Len(rs) + 1 : (m \o z)[i] = IF i <= k THEN m[i] ELSE z[i - k]
    BY <1>1, <1>3, <1>6, ConcatProperties
  <1>9. \A i \in 1 .. Len(rs) + 1 :
           (m \o z)[i] = IF i < k THEN rs[i] ELSE IF i = k THEN r ELSE rs[i - 1]
    <2> TAKE i \in 1 .. Len(rs) + 1
    <2>1. CASE i <= k
      BY <2>1, <1>1, <1>7, <1>8
    <2>2. CASE i > k
      <3>1. i - k \in 1 .. Len(rs) - k + 1 /\ k + (i - k) - 1 = i - 1
        BY <2>2, <1>1
      <3> QED
        BY <2>2, <3>1, <1>1, <1>3, <1>8
    <2>3. i \in Int /\ k \in Int
      BY <1>1
    <2>4. i <= k \/ i > k
      BY <2>3
    <2> QED
      BY <2>1, <2>2, <2>4
  <1> QED
    BY <1>4, <1>8, <1>9

(* When no two neighbours may touch, a gap lies between any two blocks. *)
LEMMA TightProperties ==
  ASSUME NEW rs, Loose(rs, {})
  PROVE  /\ \A i \in 1 .. Len(rs) : rs[i].base < rs[i].end
         /\ \A i, j \in 1 .. Len(rs) : j < i => rs[j].end < rs[i].base
  <1>0. /\ rs \in Seq(Block) /\ Len(rs) \in Nat
        /\ \A i \in 1 .. Len(rs) : rs[i].base \in Nat /\ rs[i].end \in Nat
    BY BlockFields DEF Loose
  <1>1. /\ \A i \in 1 .. Len(rs) : rs[i].base < rs[i].end
        /\ \A i, j \in 1 .. Len(rs) : j < i => rs[j].end <= rs[i].base
        /\ \A i \in 1 .. Len(rs) - 1 : rs[i].end < rs[i + 1].base
    <2>1. \A i, j \in 1 .. Len(rs) : j < i => j \in 1 .. i - 1
      BY <1>0
    <2> QED
      BY <2>1 DEF Loose
  <1>2. ASSUME NEW i \in 1 .. Len(rs), NEW j \in 1 .. Len(rs), j < i
        PROVE  rs[j].end < rs[i].base
    <2>1. CASE i = j + 1
      BY <1>1, <2>1, <1>0
    <2>2. CASE i > j + 1
      <3>1. j + 1 \in 1 .. Len(rs) /\ rs[j].end < rs[j + 1].base
        BY <1>1, <2>2, <1>0
      <3>2. rs[j + 1].base < rs[j + 1].end /\ rs[j + 1].end <= rs[i].base
        BY <1>1, <2>2, <3>1
      <3> QED
        BY <3>1, <3>2, <1>0
    <2> QED
      BY <2>1, <2>2, <1>2, <1>0
  <1> QED
    BY <1>1, <1>2

(* Blocks with a gap between any two are loose wherever they are. *)
LEMMA TightIsLoose ==
  ASSUME NEW rs \in Seq(Block),
         \A i \in 1 .. Len(rs) : rs[i].base < rs[i].end,
         \A i, j \in 1 .. Len(rs) : j < i => rs[j].end < rs[i].base
  PROVE  Loose(rs, {})
  <1>1. /\ Len(rs) \in Nat
        /\ \A i \in 1 .. Len(rs) : rs[i].base \in Nat /\ rs[i].end \in Nat
    BY BlockFields
  <1>2. \A i \in 1 .. Len(rs) : \A j \in 1 .. i - 1 : j \in 1 .. Len(rs) /\ j < i
    BY <1>1
  <1>3. \A i \in 1 .. Len(rs) - 1 : i \in 1 .. Len(rs) /\ i + 1 \in 1 .. Len(rs) /\ i < i + 1
    BY <1>1
  <1>4. \A i \in 1 .. Len(rs) : \A j \in 1 .. i - 1 : rs[j].end <= rs[i].base
    BY <1>1, <1>2
  <1> QED
    BY <1>3, <1>4 DEF Loose

-----------------------------------------------------------------------------
(* pmm_insert_free_range *)

(* The search stops at the first block that does not begin below b. *)
LEMMA BeforeProperties ==
  ASSUME NEW rs, NEW X, Loose(rs, X), NEW b \in Nat
  PROVE  /\ Before(rs, b) \in 0 .. Len(rs)
         /\ \A i \in 1 .. Len(rs) : i <= Before(rs, b) <=> rs[i].base < b
  <1> DEFINE S == {i \in DOMAIN rs : \A j \in 1 .. i : rs[j].base < b}
             c == Cardinality(S)
  <1>1. /\ rs \in Seq(Block) /\ Len(rs) \in Nat /\ DOMAIN rs = 1 .. Len(rs)
        /\ \A i \in 1 .. Len(rs) : rs[i].base \in Nat /\ rs[i].end \in Nat
    BY BlockFields DEF Loose
  <1>2. \A i, j \in 1 .. Len(rs) : j < i => rs[j].base < rs[i].base
    BY <1>1 DEF Loose
  <1>3. S \subseteq 1 .. Len(rs) /\ \A i \in S : 1 .. i \subseteq S
    BY <1>1
  <1>4. \A i \in 1 .. Len(rs) : i \in S <=> rs[i].base < b
    <2> TAKE i \in 1 .. Len(rs)
    <2>1. ASSUME rs[i].base < b PROVE i \in S
      <3>1. \A j \in 1 .. i : rs[j].base < b
        BY <2>1, <1>1, <1>2
      <3> QED
        BY <3>1, <1>1
    <2>2. ASSUME i \in S PROVE rs[i].base < b
      BY <2>2, <1>1
    <2> QED
      BY <2>1, <2>2
  <1> HIDE DEF S
  <1>5. IsFiniteSet(1 .. Len(rs)) /\ Cardinality(1 .. Len(rs)) = Len(rs)
    BY <1>1, FS_Interval
  <1>6. IsFiniteSet(S) /\ c \in Nat /\ c <= Len(rs)
    BY <1>1, <1>3, <1>5, FS_Subset, FS_CardinalityType
  <1>7. \A i \in S : i \in 1 .. c
    <2> TAKE i \in S
    <2>1. i \in Nat /\ i >= 1
      BY <1>1, <1>3
    <2>2. Cardinality(1 .. i) = i
      BY <2>1, FS_Interval
    <2>3. Cardinality(1 .. i) <= c
      BY <1>3, <1>6, FS_Subset
    <2> QED
      BY <2>1, <2>2, <2>3, <1>6
  <1>8. S = 1 .. c
    <2>1. IsFiniteSet(1 .. c) /\ Cardinality(1 .. c) = c
      BY <1>6, FS_Interval
    <2> QED
      BY <2>1, <1>7, FS_Subset
  <1>9. Before(rs, b) = c
    BY DEF Before, S
  <1> QED
    BY <1>4, <1>6, <1>8, <1>9, <1>1

(* Putting a block between its neighbours adds its pages; it may touch      *)
(* them.                                                                    *)
LEMMA InsertAtLoose ==
  ASSUME NEW rs, Loose(rs, {}), NEW b \in Nat, NEW e \in Nat, b < e,
         LET pos == Before(rs, b)
         IN  /\ pos > 0 => rs[pos].end <= b
             /\ pos < Len(rs) => e <= rs[pos + 1].base
  PROVE  LET pos == Before(rs, b)
             new == InsertAt(rs, pos + 1, [base |-> b, end |-> e])
         IN  /\ pos \in 0 .. Len(rs)
             /\ Loose(new, {pos, pos + 1})
             /\ Len(new) = Len(rs) + 1
             /\ PagesOf(new) = PagesOf(rs) \union (b .. e - 1)
  <1> DEFINE pos == Before(rs, b)
             r == [base |-> b, end |-> e]
             new == InsertAt(rs, pos + 1, r)
  <1>1. /\ rs \in Seq(Block) /\ Len(rs) \in Nat
        /\ \A i \in 1 .. Len(rs) : rs[i].base \in Nat /\ rs[i].end \in Nat
    BY BlockFields DEF Loose
  <1>2. /\ pos \in 0 .. Len(rs)
        /\ \A i \in 1 .. Len(rs) : i <= pos <=> rs[i].base < b
    BY BeforeProperties
  <1>3. /\ pos > 0 => rs[pos].end <= b
        /\ pos < Len(rs) => e <= rs[pos + 1].base
    OBVIOUS
  <1> HIDE DEF new
  <1>4. /\ new \in Seq(Block) /\ Len(new) = Len(rs) + 1
        /\ \A i \in 1 .. Len(rs) + 1 :
              new[i] = IF i < pos + 1 THEN rs[i] ELSE IF i = pos + 1 THEN r ELSE rs[i - 1]
    <2>1. r \in Block /\ pos + 1 \in 1 .. Len(rs) + 1
      BY <1>1, <1>2 DEF Block
    <2> DEFINE k == pos + 1
    <2> HIDE DEF r, k
    <2>2. /\ InsertAt(rs, k, r) \in Seq(Block) /\ Len(InsertAt(rs, k, r)) = Len(rs) + 1
          /\ \A i \in 1 .. Len(rs) + 1 : InsertAt(rs, k, r)[i] =
                IF i < k THEN rs[i] ELSE IF i = k THEN r ELSE rs[i - 1]
      <3>1. k \in 1 .. Len(rs) + 1
        BY <2>1 DEF k
      <3> QED
        BY <2>1, <3>1, <1>1, InsertAtProperties
    <2>3. new = InsertAt(rs, k, r)
      BY DEF new, k
    <2> QED
      BY <2>2, <2>3 DEF k
  <1>5. r.base = b /\ r.end = e
    OBVIOUS
  <1>6. /\ \A i \in 1 .. Len(rs) : rs[i].base < rs[i].end
        /\ \A i, j \in 1 .. Len(rs) : j < i => rs[j].end < rs[i].base
    BY TightProperties
  <1>7. /\ \A i \in 1 .. pos : rs[i].end <= b
        /\ \A i \in pos + 1 .. Len(rs) : e <= rs[i].base
    <2>1. ASSUME NEW i \in 1 .. pos PROVE rs[i].end <= b
      <3>1. i \in 1 .. Len(rs) /\ pos \in 1 .. Len(rs) /\ rs[pos].end <= b
        BY <1>1, <1>2, <1>3
      <3>2. i = pos \/ (rs[i].end < rs[pos].base /\ rs[pos].base < rs[pos].end)
        BY <3>1, <1>1, <1>2, <1>6
      <3> QED
        BY <3>1, <3>2, <1>1
    <2>2. ASSUME NEW i \in pos + 1 .. Len(rs) PROVE e <= rs[i].base
      <3>1. i \in 1 .. Len(rs) /\ pos + 1 \in 1 .. Len(rs) /\ e <= rs[pos + 1].base
        BY <1>1, <1>2, <1>3
      <3>2. i = pos + 1 \/ (rs[pos + 1].end < rs[i].base /\ rs[pos + 1].base < rs[pos + 1].end)
        BY <3>1, <1>1, <1>2, <1>6
      <3> QED
        BY <3>1, <3>2, <1>1
    <2> QED
      BY <2>1, <2>2
  <1> HIDE DEF pos, r, new
  <1>8. /\ \A i \in 1 .. pos : i \in 1 .. Len(rs) /\ i \in 1 .. Len(new) /\ new[i] = rs[i]
        /\ pos + 1 \in 1 .. Len(new) /\ new[pos + 1] = r
        /\ \A i \in pos + 1 .. Len(rs) : i \in 1 .. Len(rs) /\ i + 1 \in 1 .. Len(new) /\ new[i + 1] = rs[i]
    BY <1>1, <1>2, <1>4
  <1>9. \A i \in 1 .. Len(new) :
           \/ i \in 1 .. pos /\ new[i] = rs[i]
           \/ i = pos + 1 /\ new[i] = r
           \/ i - 1 \in pos + 1 .. Len(rs) /\ new[i] = rs[i - 1]
    BY <1>1, <1>2, <1>4
  <1>10. PagesOf(new) = PagesOf(rs) \union (b .. e - 1)
    <2>1. \A x : x \in PagesOf(new) <=> x \in Nat /\ \E i \in 1 .. Len(new) : new[i].base <= x /\ x < new[i].end
      BY <1>4, InPages
    <2>2. \A x : x \in PagesOf(rs) <=> x \in Nat /\ \E i \in 1 .. Len(rs) : rs[i].base <= x /\ x < rs[i].end
      BY <1>1, InPages
    <2>3. \A x : x \in b .. e - 1 <=> x \in Nat /\ b <= x /\ x < e
      OBVIOUS
    <2>4. ASSUME NEW x \in Nat, NEW i \in 1 .. Len(new), new[i].base <= x, x < new[i].end
          PROVE  x \in b .. e - 1 \/ \E j \in 1 .. Len(rs) : rs[j].base <= x /\ x < rs[j].end
      BY <2>4, <1>9, <1>8, <1>5, <2>3
    <2>5. ASSUME NEW x \in Nat, NEW i \in 1 .. Len(rs), rs[i].base <= x, x < rs[i].end
          PROVE  \E j \in 1 .. Len(new) : new[j].base <= x /\ x < new[j].end
      <3>1. i \in 1 .. pos \/ i \in pos + 1 .. Len(rs)
        BY <1>1, <1>2
      <3> QED
        BY <3>1, <2>5, <1>8
    <2>6. ASSUME NEW x \in b .. e - 1
          PROVE  x \in Nat /\ \E j \in 1 .. Len(new) : new[j].base <= x /\ x < new[j].end
      BY <2>6, <2>3, <1>5, <1>8
    <2>7. \A x : x \in PagesOf(new) => x \in PagesOf(rs) \union (b .. e - 1)
      BY <2>1, <2>2, <2>4
    <2>8. \A x : x \in PagesOf(rs) \union (b .. e - 1) => x \in PagesOf(new)
      BY <2>1, <2>2, <2>5, <2>6
    <2> QED
      BY <2>7, <2>8
  <1>11. Loose(new, {pos, pos + 1})
    <2>1. ASSUME NEW i \in 1 .. Len(new) PROVE new[i].base < new[i].end
      BY <1>9, <1>8, <1>6, <1>5
    <2>2. ASSUME NEW i \in 1 .. Len(new), NEW j \in 1 .. i - 1
          PROVE  /\ new[j].end <= new[i].base
                 /\ i # pos + 1 /\ j # pos + 1 => new[j].end < new[i].base
      <3>1. j \in 1 .. Len(new) /\ j < i /\ i \in Nat /\ j \in Nat
        BY <1>1, <1>4
      <3>2. \/ i \in 1 .. pos /\ new[i] = rs[i]
            \/ i = pos + 1 /\ new[i] = r
            \/ i - 1 \in pos + 1 .. Len(rs) /\ new[i] = rs[i - 1]
        BY <1>9
      <3>3. \/ j \in 1 .. pos /\ new[j] = rs[j]
            \/ j = pos + 1 /\ new[j] = r
            \/ j - 1 \in pos + 1 .. Len(rs) /\ new[j] = rs[j - 1]
        BY <3>1, <1>9
      <3>4. CASE i \in 1 .. pos /\ new[i] = rs[i]
        <4>1. i \in 1 .. Len(rs) /\ j \in 1 .. Len(rs) /\ new[j] = rs[j]
          BY <3>4, <3>3, <3>1, <1>2, <1>1
        <4> QED
          BY <4>1, <3>4, <3>1, <1>6, <1>1
      <3>5. CASE i = pos + 1 /\ new[i] = r
        <4>1. j \in 1 .. pos /\ new[j] = rs[j]
          BY <3>5, <3>3, <3>1, <1>2, <1>1
        <4> QED
          BY <4>1, <3>5, <1>7, <1>5
      <3>6. CASE i - 1 \in pos + 1 .. Len(rs) /\ new[i] = rs[i - 1]
        <4>1. i - 1 \in 1 .. Len(rs)
          BY <3>6, <1>2, <1>1
        <4>2. CASE j \in 1 .. pos /\ new[j] = rs[j]
          <5>1. j \in 1 .. Len(rs) /\ j < i - 1
            BY <4>2, <3>6, <1>2, <1>1
          <5>2. rs[j].end < rs[i - 1].base
            BY <5>1, <4>1, <1>6
          <5> QED
            BY <5>1, <5>2, <4>1, <4>2, <3>6, <1>1
        <4>3. CASE j = pos + 1 /\ new[j] = r
          BY <4>3, <3>6, <1>7, <1>5
        <4>4. CASE j - 1 \in pos + 1 .. Len(rs) /\ new[j] = rs[j - 1]
          <5>1. j - 1 \in 1 .. Len(rs) /\ j - 1 < i - 1
            BY <4>4, <3>1, <1>2, <1>1
          <5>2. rs[j - 1].end < rs[i - 1].base
            BY <5>1, <4>1, <1>6
          <5> QED
            BY <5>1, <5>2, <4>1, <4>4, <3>6, <1>1
        <4> QED
          BY <3>3, <4>2, <4>3, <4>4
      <3> QED
        BY <3>2, <3>4, <3>5, <3>6
    <2>3. ASSUME NEW i \in 1 .. Len(new) - 1, i \notin {pos, pos + 1}
          PROVE  new[i].end < new[i + 1].base
      <3>1. i + 1 \in 1 .. Len(new) /\ i \in 1 .. (i + 1) - 1 /\ i + 1 # pos + 1 /\ i # pos + 1
        BY <2>3, <1>2, <1>1, <1>4
      <3> QED
        BY <3>1, <2>2
    <2> QED
      BY <2>1, <2>2, <2>3, <1>4 DEF Loose
  <1> QED
    BY <1>2, <1>4, <1>10, <1>11 DEF pos, new, r

(* Joining two blocks that touch leaves the pages as they are. *)
LEMMA JoinLoose ==
  ASSUME NEW rs, NEW X, NEW Y, NEW i, Loose(rs, X), Touching(rs, i),
         \A k \in Int : k \notin Y => IF k < i THEN k \notin X ELSE k + 1 \notin X
  PROVE  /\ Loose(Join(rs, i), Y)
         /\ Len(Join(rs, i)) = Len(rs) - 1
         /\ PagesOf(Join(rs, i)) = PagesOf(rs)
  <1> DEFINE v == [base |-> rs[i].base, end |-> rs[i + 1].end]
             u == [rs EXCEPT ![i] = v]
             J == RemoveAt(u, i + 1)
  <1>1. /\ rs \in Seq(Block) /\ Len(rs) \in Nat
        /\ \A k \in 1 .. Len(rs) : /\ rs[k] \in Block
                                   /\ rs[k].base \in Nat /\ rs[k].end \in Nat
    BY BlockFields DEF Loose
  <1>2. /\ i \in 1 .. Len(rs) /\ i + 1 \in 1 .. Len(rs) /\ i \in Int
        /\ rs[i].end = rs[i + 1].base
    BY <1>1 DEF Touching
  <1>3. v \in Block /\ v.base = rs[i].base /\ v.end = rs[i + 1].end
    BY <1>1, <1>2 DEF Block
  <1>4. [rs EXCEPT ![i].end = rs[i + 1].end] = u
    <2>1. \A r \in Block, x \in Nat : [r EXCEPT !.end = x] = [base |-> r.base, end |-> x]
      BY DEF Block
    <2>2. [rs[i] EXCEPT !.end = rs[i + 1].end] = v
      BY <2>1, <1>1, <1>2
    <2> QED
      BY <2>2
  <1>5. Join(rs, i) = J
    BY <1>4 DEF Join
  <1> HIDE DEF v
  <1>6. /\ u \in Seq(Block) /\ Len(u) = Len(rs)
        /\ \A k \in 1 .. Len(rs) : u[k] = IF k = i THEN v ELSE rs[k]
    BY <1>1, <1>2, <1>3, ExceptSeq
  <1> HIDE DEF u
  <1>7. /\ J \in Seq(Block) /\ Len(J) = Len(rs) - 1
        /\ \A k \in 1 .. Len(rs) - 1 : J[k] = IF k < i + 1 THEN u[k] ELSE u[k + 1]
    <2> DEFINE m == i + 1
    <2>1. m \in 1 .. Len(u)
      BY <1>2, <1>6
    <2> HIDE DEF m
    <2>2. /\ RemoveAt(u, m) \in Seq(Block) /\ Len(RemoveAt(u, m)) = Len(u) - 1
          /\ \A k \in 1 .. Len(u) - 1 : RemoveAt(u, m)[k] = IF k < m THEN u[k] ELSE u[k + 1]
      BY <2>1, <1>6, RemoveAtProperties
    <2> QED
      BY <2>2, <1>6 DEF m
  <1> HIDE DEF J
  <1>8. /\ \A k \in 1 .. Len(rs) : k < i => k \in 1 .. Len(J) /\ J[k] = rs[k]
        /\ i \in 1 .. Len(J) /\ J[i] = v
        /\ \A k \in 1 .. Len(rs) : k > i + 1 => k - 1 \in 1 .. Len(J) /\ J[k - 1] = rs[k]
    <2>1. ASSUME NEW k \in 1 .. Len(rs), k < i PROVE k \in 1 .. Len(J) /\ J[k] = rs[k]
      <3>1. k \in 1 .. Len(rs) - 1 /\ k < i + 1 /\ k # i
        BY <2>1, <1>1, <1>2
      <3> QED
        BY <3>1, <1>6, <1>7
    <2>2. i \in 1 .. Len(J) /\ J[i] = v
      <3>1. i \in 1 .. Len(rs) - 1 /\ i < i + 1
        BY <1>1, <1>2
      <3> QED
        BY <3>1, <1>2, <1>6, <1>7
    <2>3. ASSUME NEW k \in 1 .. Len(rs), k > i + 1
          PROVE  k - 1 \in 1 .. Len(J) /\ J[k - 1] = rs[k]
      <3>1. k - 1 \in 1 .. Len(rs) - 1 /\ ~(k - 1 < i + 1) /\ (k - 1) + 1 = k /\ k # i
        BY <2>3, <1>1, <1>2
      <3> QED
        BY <3>1, <1>6, <1>7
    <2> QED
      BY <2>1, <2>2, <2>3
  <1>9. \A k \in 1 .. Len(J) :
           \/ k < i /\ k \in 1 .. Len(rs) /\ J[k] = rs[k]
           \/ k = i /\ J[k] = v
           \/ k > i /\ k + 1 \in 1 .. Len(rs) /\ J[k] = rs[k + 1]
    <2> TAKE k \in 1 .. Len(J)
    <2>1. /\ k \in Int /\ k \in 1 .. Len(rs) /\ k + 1 \in 1 .. Len(rs)
          /\ k > i => k + 1 > i + 1 /\ (k + 1) - 1 = k
      BY <1>1, <1>2, <1>7
    <2>2. k < i \/ k = i \/ k > i
      BY <2>1, <1>2
    <2>3. k > i => J[(k + 1) - 1] = rs[k + 1]
      BY <2>1, <1>8
    <2> QED
      BY <2>1, <2>2, <2>3, <1>8
  <1>10. /\ \A k \in 1 .. Len(rs) : rs[k].base < rs[k].end
         /\ \A k, j \in 1 .. Len(rs) : j < k => rs[j].end <= rs[k].base
         /\ \A k \in 1 .. Len(rs) - 1 : k \notin X => rs[k].end < rs[k + 1].base
    <2>1. \A k, j \in 1 .. Len(rs) : j < k => j \in 1 .. k - 1
      BY <1>1
    <2> QED
      BY <2>1 DEF Loose
  <1>11. PagesOf(J) = PagesOf(rs)
    <2>1. \A x : x \in PagesOf(J) <=> x \in Nat /\ \E k \in 1 .. Len(J) : J[k].base <= x /\ x < J[k].end
      BY <1>7, InPages
    <2>2. \A x : x \in PagesOf(rs) <=> x \in Nat /\ \E k \in 1 .. Len(rs) : rs[k].base <= x /\ x < rs[k].end
      BY <1>1, InPages
    <2>3. ASSUME NEW x \in Nat, NEW k \in 1 .. Len(J), J[k].base <= x, x < J[k].end
          PROVE  \E j \in 1 .. Len(rs) : rs[j].base <= x /\ x < rs[j].end
      <3>1. CASE k = i /\ J[k] = v
        <4>1. rs[i].base <= x /\ x < rs[i + 1].end
          BY <2>3, <3>1, <1>3
        <4>2. x < rs[i].end \/ rs[i + 1].base <= x
          BY <1>1, <1>2
        <4> QED
          BY <4>1, <4>2, <1>2
      <3> QED
        BY <3>1, <2>3, <1>9
    <2>4. ASSUME NEW x \in Nat, NEW k \in 1 .. Len(rs), rs[k].base <= x, x < rs[k].end
          PROVE  \E j \in 1 .. Len(J) : J[j].base <= x /\ x < J[j].end
      <3>1. k < i \/ k = i \/ k = i + 1 \/ k > i + 1
        BY <1>1, <1>2
      <3>2. CASE k = i \/ k = i + 1
        <4>1. rs[i].base < rs[i].end /\ rs[i + 1].base < rs[i + 1].end
          BY <1>2, <1>10
        <4>2. rs[i].base <= x /\ x < rs[i + 1].end
          BY <4>1, <3>2, <2>4, <1>1, <1>2
        <4> QED
          BY <4>2, <1>3, <1>8
      <3>3. CASE k < i
        BY <3>3, <2>4, <1>8
      <3>4. CASE k > i + 1
        BY <3>4, <2>4, <1>8
      <3> QED
        BY <3>1, <3>2, <3>3, <3>4
    <2>5. \A x : x \in PagesOf(J) => x \in PagesOf(rs)
      BY <2>1, <2>2, <2>3
    <2>6. \A x : x \in PagesOf(rs) => x \in PagesOf(J)
      BY <2>1, <2>2, <2>4
    <2> QED
      BY <2>5, <2>6
  <1>12. Loose(J, Y)
    <2>1. rs[i].base < rs[i + 1].end
      <3>1. rs[i].base < rs[i].end /\ rs[i + 1].base < rs[i + 1].end
        BY <1>2, <1>10
      <3> QED
        BY <3>1, <1>1, <1>2
    <2>2. ASSUME NEW k \in 1 .. Len(J) PROVE J[k].base < J[k].end
      BY <2>1, <1>3, <1>9, <1>10
    <2>3. ASSUME NEW k \in 1 .. Len(J), NEW j \in 1 .. k - 1 PROVE J[j].end <= J[k].base
      <3>1. j \in 1 .. Len(J) /\ j < k /\ j \in Int /\ k \in Int
        BY <1>1, <1>7
      <3>2. \/ k < i /\ k \in 1 .. Len(rs) /\ J[k] = rs[k]
            \/ k = i /\ J[k] = v
            \/ k > i /\ k + 1 \in 1 .. Len(rs) /\ J[k] = rs[k + 1]
        BY <1>9
      <3>3. \/ j < i /\ j \in 1 .. Len(rs) /\ J[j] = rs[j]
            \/ j = i /\ J[j] = v
            \/ j > i /\ j + 1 \in 1 .. Len(rs) /\ J[j] = rs[j + 1]
        BY <3>1, <1>9
      <3>4. CASE j < i /\ j \in 1 .. Len(rs) /\ J[j] = rs[j]
        <4>1. \A m \in 1 .. Len(rs) : m > j => rs[j].end <= rs[m].base
          BY <3>4, <1>10, <1>1
        <4>2. j < i /\ j < k /\ j < k + 1
          BY <3>4, <3>1, <1>2
        <4> QED
          BY <4>1, <4>2, <3>2, <3>4, <1>2, <1>3
      <3>5. CASE j = i /\ J[j] = v
        <4>1. k > i /\ k + 1 \in 1 .. Len(rs) /\ J[k] = rs[k + 1] /\ i + 1 < k + 1
          BY <3>5, <3>1, <3>2, <1>2
        <4>2. rs[i + 1].end <= rs[k + 1].base
          BY <4>1, <1>2, <1>10
        <4> QED
          BY <4>1, <4>2, <3>5, <1>3
      <3>6. CASE j > i /\ j + 1 \in 1 .. Len(rs) /\ J[j] = rs[j + 1]
        <4>1. k > i /\ k + 1 \in 1 .. Len(rs) /\ J[k] = rs[k + 1] /\ j + 1 < k + 1
          BY <3>6, <3>1, <3>2, <1>2
        <4>2. rs[j + 1].end <= rs[k + 1].base
          BY <4>1, <3>6, <1>10
        <4> QED
          BY <4>1, <4>2, <3>6
      <3> QED
        BY <3>3, <3>4, <3>5, <3>6
    <2>4. ASSUME NEW k \in 1 .. Len(J) - 1, k \notin Y PROVE J[k].end < J[k + 1].base
      <3>1. k \in Int /\ k \in 1 .. Len(J) /\ k + 1 \in 1 .. Len(J)
        BY <1>1, <1>7
      <3>2. IF k < i THEN k \notin X ELSE k + 1 \notin X
        BY <2>4, <3>1
      <3>3. CASE k < i
        <4>1. k \in 1 .. Len(rs) - 1 /\ k \in 1 .. Len(rs) /\ k + 1 \in 1 .. Len(rs)
          BY <3>1, <1>1, <1>7
        <4>2. rs[k].end < rs[k + 1].base /\ J[k] = rs[k]
          BY <3>2, <3>3, <4>1, <1>10, <1>8
        <4>3. J[k + 1].base = rs[k + 1].base
          <5>1. k + 1 < i \/ k + 1 = i
            BY <3>1, <3>3, <1>2
          <5> QED
            BY <5>1, <4>1, <1>8, <1>3
        <4> QED
          BY <4>2, <4>3
      <3>4. CASE k >= i
        <4>1. /\ k + 1 \in 1 .. Len(rs) - 1 /\ k + 1 \in 1 .. Len(rs) /\ k + 2 \in 1 .. Len(rs)
              /\ k + 2 > i + 1 /\ (k + 2) - 1 = k + 1 /\ (k + 1) + 1 = k + 2
          BY <3>1, <3>4, <1>1, <1>2, <1>7
        <4>2. rs[k + 1].end < rs[k + 2].base
          BY <3>1, <3>2, <3>4, <4>1, <1>2, <1>10
        <4>3. J[(k + 2) - 1] = rs[k + 2]
          BY <4>1, <1>8
        <4>4. J[k].end = rs[k + 1].end
          <5>1. k = i \/ k > i
            BY <3>1, <3>4, <1>2
          <5>2. CASE k = i
            BY <5>2, <1>3, <1>8
          <5>3. CASE k > i
            <6>1. ~(k < i) /\ k # i
              BY <5>3, <3>1, <1>2
            <6> QED
              BY <6>1, <3>1, <1>9
          <5> QED
            BY <5>1, <5>2, <5>3
        <4> QED
          BY <4>1, <4>2, <4>3, <4>4
      <3> QED
        BY <3>1, <3>3, <3>4, <1>2
    <2> QED
      BY <2>2, <2>3, <2>4, <1>7 DEF Loose
  <1> QED
    BY <1>5, <1>7, <1>11, <1>12

(* Inserting a block between its neighbours adds its pages, with at most    *)
(* one more entry, and leaves every run of free pages in one entry.         *)
LEMMA InsertLoose ==
  ASSUME NEW rs, Loose(rs, {}), NEW b \in Nat, NEW e \in Nat, CanInsert(rs, b, e)
  PROVE  /\ Loose(Insert(rs, b, e), {})
         /\ Len(Insert(rs, b, e)) <= Len(rs) + 1
         /\ PagesOf(Insert(rs, b, e)) = PagesOf(rs) \union (b .. e - 1)
  <1> DEFINE pos  == Before(rs, b)
             new  == InsertAt(rs, pos + 1, [base |-> b, end |-> e])
             left == IF Touching(new, pos) THEN Join(new, pos) ELSE new
             at   == IF Touching(new, pos) THEN pos ELSE pos + 1
             last == IF Touching(left, at) THEN Join(left, at) ELSE left
  <1>1. Insert(rs, b, e) = last
    BY DEF Insert
  <1>2. /\ pos \in 0 .. Len(rs) /\ Loose(new, {pos, pos + 1})
        /\ Len(new) = Len(rs) + 1
        /\ PagesOf(new) = PagesOf(rs) \union (b .. e - 1)
    BY InsertAtLoose DEF CanInsert
  <1>3. Len(rs) \in Nat /\ pos \in Int
    BY <1>2 DEF Loose
  <1> HIDE DEF pos, new
  <1>4. /\ Loose(left, {at}) /\ at \in Int
        /\ Len(left) \in Nat /\ Len(left) <= Len(rs) + 1
        /\ PagesOf(left) = PagesOf(new)
    <2>1. CASE Touching(new, pos)
      <3>1. \A k \in Int : k \notin {pos} =>
               IF k < pos THEN k \notin {pos, pos + 1} ELSE k + 1 \notin {pos, pos + 1}
        BY <1>3
      <3>2. /\ Loose(Join(new, pos), {pos}) /\ Len(Join(new, pos)) = Len(new) - 1
            /\ PagesOf(Join(new, pos)) = PagesOf(new)
        BY <2>1, <3>1, <1>2, JoinLoose
      <3> QED
        BY <2>1, <3>2, <1>2, <1>3
    <2>2. CASE ~Touching(new, pos)
      <3>1. left = new /\ at = pos + 1
        BY <2>2
      <3>2. /\ new \in Seq(Block) /\ Len(new) \in Nat
            /\ \A i \in 1 .. Len(new) : new[i].base \in Nat /\ new[i].end \in Nat
        BY <1>2, BlockFields DEF Loose
      <3>3. pos \in 1 .. Len(new) - 1 => new[pos].end < new[pos + 1].base
        <4> HAVE pos \in 1 .. Len(new) - 1
        <4>1. pos \in 1 .. (pos + 1) - 1 /\ pos + 1 \in 1 .. Len(new) /\ pos \in 1 .. Len(new)
          BY <3>2
        <4>2. new[pos].end <= new[pos + 1].base
          BY <4>1, <1>2 DEF Loose
        <4>3. new[pos].end # new[pos + 1].base
          BY <2>2 DEF Touching
        <4> QED
          BY <4>1, <4>2, <4>3, <3>2
      <3>4. Loose(new, {pos + 1})
        BY <3>3, <1>2 DEF Loose
      <3>5. pos + 1 \in Int /\ Len(new) <= Len(rs) + 1
        BY <3>2, <1>2, <1>3
      <3> HIDE DEF left, at
      <3> QED
        BY <3>1, <3>2, <3>4, <3>5
    <2> QED
      BY <2>1, <2>2
  <1> HIDE DEF left, at
  <1>5. CASE Touching(left, at)
    <2>1. \A k \in Int : k \notin {} => IF k < at THEN k \notin {at} ELSE k + 1 \notin {at}
      BY <1>4
    <2>2. /\ Loose(Join(left, at), {}) /\ Len(Join(left, at)) = Len(left) - 1
          /\ PagesOf(Join(left, at)) = PagesOf(left)
      BY <2>1, <1>4, <1>5, JoinLoose
    <2> QED
      BY <2>2, <1>1, <1>2, <1>3, <1>4, <1>5
  <1>6. CASE ~Touching(left, at)
    <2>1. /\ left \in Seq(Block)
          /\ \A i \in 1 .. Len(left) : left[i].base \in Nat /\ left[i].end \in Nat
      BY <1>4, BlockFields DEF Loose
    <2>2. at \in 1 .. Len(left) - 1 => left[at].end < left[at + 1].base
      <3> HAVE at \in 1 .. Len(left) - 1
      <3>1. at \in 1 .. (at + 1) - 1 /\ at + 1 \in 1 .. Len(left) /\ at \in 1 .. Len(left)
        BY <1>4
      <3>2. left[at].end <= left[at + 1].base
        BY <3>1, <1>4 DEF Loose
      <3>3. left[at].end # left[at + 1].base
        BY <1>6 DEF Touching
      <3> QED
        BY <3>1, <3>2, <3>3, <2>1
    <2>3. Loose(left, {})
      BY <2>2, <1>4 DEF Loose
    <2> QED
      BY <2>3, <1>1, <1>2, <1>4, <1>6
  <1> QED
    BY <1>5, <1>6

-----------------------------------------------------------------------------
(* pmm_alloc_pages *)

(* A page of one block is in no other. *)
LEMMA OneBlock ==
  ASSUME NEW rs, Loose(rs, {}), NEW i \in 1 .. Len(rs), NEW j \in 1 .. Len(rs), NEW x \in Nat,
         rs[i].base <= x, x < rs[i].end, rs[j].base <= x, x < rs[j].end
  PROVE  i = j
  <1>1. /\ Len(rs) \in Nat
        /\ \A k \in 1 .. Len(rs) : rs[k].base \in Nat /\ rs[k].end \in Nat
    BY BlockFields DEF Loose
  <1>2. i < j => rs[i].end < rs[j].base
    BY TightProperties
  <1>3. j < i => rs[j].end < rs[i].base
    BY TightProperties
  <1> QED
    BY <1>1, <1>2, <1>3

(* Taking pages off the front of a block, or all of it, takes these pages   *)
(* and no others.                                                           *)
LEMMA TakeLoose ==
  ASSUME NEW rs, Loose(rs, {}), NEW i \in 1 .. Len(rs), NEW n \in Nat \ {0},
         n <= rs[i].end - rs[i].base
  PROVE  LET T == IF rs[i].end - rs[i].base = n THEN RemoveAt(rs, i)
                  ELSE [rs EXCEPT ![i].base = @ + n]
         IN  /\ Loose(T, {}) /\ Len(T) <= Len(rs)
             /\ PagesOf(T) = PagesOf(rs) \ (rs[i].base .. rs[i].base + n - 1)
  <1> DEFINE B == rs[i].base .. rs[i].base + n - 1
  <1>1. /\ rs \in Seq(Block) /\ Len(rs) \in Nat
        /\ \A k \in 1 .. Len(rs) : /\ rs[k] \in Block
                                   /\ rs[k].base \in Nat /\ rs[k].end \in Nat
    BY BlockFields DEF Loose
  <1>2. /\ \A k \in 1 .. Len(rs) : rs[k].base < rs[k].end
        /\ \A k, j \in 1 .. Len(rs) : j < k => rs[j].end < rs[k].base
    BY TightProperties
  <1>3. \A x : x \in PagesOf(rs) <=> x \in Nat /\ \E k \in 1 .. Len(rs) : rs[k].base <= x /\ x < rs[k].end
    BY <1>1, InPages
  <1>4. \A x : x \in B <=> x \in Nat /\ rs[i].base <= x /\ x < rs[i].base + n
    BY <1>1
  <1>5. \A x \in Nat : \A k \in 1 .. Len(rs) :
           rs[k].base <= x /\ x < rs[k].end /\ k # i => ~(rs[i].base <= x /\ x < rs[i].end)
    BY OneBlock
  <1>6. rs[i].base + n <= rs[i].end /\ \A x \in B : rs[i].base <= x /\ x < rs[i].end
    BY <1>1, <1>4
  <1> HIDE DEF B
  <1>7. CASE rs[i].end - rs[i].base = n
    <2> DEFINE T == RemoveAt(rs, i)
    <2>1. /\ T \in Seq(Block) /\ Len(T) = Len(rs) - 1
          /\ \A k \in 1 .. Len(rs) - 1 : T[k] = IF k < i THEN rs[k] ELSE rs[k + 1]
      BY <1>1, RemoveAtProperties
    <2> HIDE DEF T
    <2> DEFINE At(k) == IF k < i THEN k ELSE k + 1
    <2>2. /\ \A k \in 1 .. Len(T) : /\ At(k) \in 1 .. Len(rs) /\ At(k) # i /\ T[k] = rs[At(k)]
                                    /\ \A j \in 1 .. Len(T) : j < k => At(j) < At(k)
      BY <1>1, <2>1
    <2>3. \A j \in 1 .. Len(rs) : j # i => \E k \in 1 .. Len(T) : At(k) = j
      <3> TAKE j \in 1 .. Len(rs)
      <3> HAVE j # i
      <3>1. j < i => j \in 1 .. Len(T) /\ At(j) = j
        BY <1>1, <2>1
      <3>2. j > i => j - 1 \in 1 .. Len(T) /\ At(j - 1) = j
        BY <1>1, <2>1
      <3>3. j < i \/ j > i
        BY <1>1
      <3> QED
        BY <3>1, <3>2, <3>3
    <2> HIDE DEF At
    <2>4. Loose(T, {})
      <3>1. \A k \in 1 .. Len(T) : T[k].base < T[k].end
        BY <2>2, <1>2
      <3>2. \A k, j \in 1 .. Len(T) : j < k => T[j].end < T[k].base
        BY <2>2, <1>2
      <3> QED
        BY <3>1, <3>2, <2>1, TightIsLoose
    <2>5. \A x : x \in PagesOf(T) <=> x \in Nat /\ \E k \in 1 .. Len(T) : T[k].base <= x /\ x < T[k].end
      BY <2>1, InPages
    <2>6. ASSUME NEW x \in PagesOf(T) PROVE x \in PagesOf(rs) \ B
      <3>1. PICK k \in 1 .. Len(T) : T[k].base <= x /\ x < T[k].end
        BY <2>5
      <3>2. x \in Nat /\ At(k) \in 1 .. Len(rs) /\ At(k) # i /\ rs[At(k)].base <= x /\ x < rs[At(k)].end
        BY <3>1, <2>2, <2>5
      <3>3. x \notin B
        BY <3>2, <1>5, <1>6
      <3> QED
        BY <3>2, <3>3, <1>3
    <2>7. ASSUME NEW x \in PagesOf(rs), x \notin B PROVE x \in PagesOf(T)
      <3>1. PICK k \in 1 .. Len(rs) : rs[k].base <= x /\ x < rs[k].end
        BY <1>3
      <3>2. x \in Nat
        BY <1>3
      <3>3. k # i
        BY <3>1, <3>2, <2>7, <1>4, <1>7, <1>1
      <3>4. PICK j \in 1 .. Len(T) : At(j) = k
        BY <3>3, <2>3
      <3> QED
        BY <3>1, <3>2, <3>4, <2>2, <2>5
    <2>8. PagesOf(T) = PagesOf(rs) \ B
      BY <2>6, <2>7
    <2> QED
      BY <2>1, <2>4, <2>8, <1>1, <1>7 DEF T, B
  <1>8. CASE rs[i].end - rs[i].base # n
    <2> DEFINE v == [base |-> rs[i].base + n, end |-> rs[i].end]
               T == [rs EXCEPT ![i] = v]
    <2>1. v \in Block /\ v.base = rs[i].base + n /\ v.end = rs[i].end
      BY <1>1 DEF Block
    <2>2. [rs EXCEPT ![i].base = @ + n] = T
      <3>1. \A r \in Block, x \in Nat : [r EXCEPT !.base = x] = [base |-> x, end |-> r.end]
        BY DEF Block
      <3>2. rs[i].base + n \in Nat
        BY <1>1
      <3>3. [rs[i] EXCEPT !.base = rs[i].base + n] = v
        BY <3>1, <3>2, <1>1
      <3> QED
        BY <3>3
    <2> HIDE DEF v
    <2>3. /\ T \in Seq(Block) /\ Len(T) = Len(rs)
          /\ \A k \in 1 .. Len(rs) : T[k] = IF k = i THEN v ELSE rs[k]
      BY <1>1, <2>1, ExceptSeq
    <2> HIDE DEF T
    <2>4. v.base < v.end /\ rs[i].base < v.base
      BY <2>1, <1>1, <1>6, <1>8
    <2>5. \A k \in 1 .. Len(T) : T[k].end = rs[k].end /\ rs[k].base <= T[k].base /\ T[k].base < T[k].end
      BY <2>1, <2>3, <2>4, <1>1, <1>2
    <2>6. Loose(T, {})
      <3>1. \A k, j \in 1 .. Len(T) : j < k => T[j].end < T[k].base
        <4> SUFFICES ASSUME NEW k \in 1 .. Len(T), NEW j \in 1 .. Len(T), j < k
                     PROVE  T[j].end < T[k].base
          OBVIOUS
        <4>1. T[j].end = rs[j].end /\ rs[k].base <= T[k].base
          BY <2>5
        <4>2. rs[j].end < rs[k].base
          BY <1>2, <2>3
        <4>3. T[k].base \in Nat /\ rs[j].end \in Nat /\ rs[k].base \in Nat
          BY <2>3, <1>1, BlockFields
        <4> QED
          BY <4>1, <4>2, <4>3
      <3> QED
        BY <3>1, <2>3, <2>5, TightIsLoose
    <2>7. \A x : x \in PagesOf(T) <=> x \in Nat /\ \E k \in 1 .. Len(T) : T[k].base <= x /\ x < T[k].end
      BY <2>3, InPages
    <2>8. ASSUME NEW x \in PagesOf(T) PROVE x \in PagesOf(rs) \ B
      <3>1. PICK k \in 1 .. Len(T) : T[k].base <= x /\ x < T[k].end
        BY <2>7
      <3>2. x \in Nat /\ k \in 1 .. Len(rs)
        BY <2>3, <2>7
      <3>3. CASE k = i
        <4>1. rs[i].base + n <= x /\ x < rs[i].end
          BY <3>1, <3>2, <3>3, <2>1, <2>3
        <4>2. x \notin B /\ rs[i].base <= x
          BY <4>1, <3>2, <1>1, <1>4
        <4> QED
          BY <4>1, <4>2, <3>2, <1>3
      <3>4. CASE k # i
        <4>1. rs[k].base <= x /\ x < rs[k].end
          BY <3>1, <3>2, <3>4, <2>3
        <4>2. x \notin B
          BY <4>1, <3>2, <3>4, <1>5, <1>6
        <4> QED
          BY <4>1, <4>2, <3>2, <1>3
      <3> QED
        BY <3>3, <3>4
    <2>9. ASSUME NEW x \in PagesOf(rs), x \notin B PROVE x \in PagesOf(T)
      <3>1. PICK k \in 1 .. Len(rs) : rs[k].base <= x /\ x < rs[k].end
        BY <1>3
      <3>2. x \in Nat
        BY <1>3
      <3>3. CASE k = i
        <4>1. rs[i].base + n <= x
          BY <3>1, <3>2, <3>3, <2>9, <1>1, <1>4
        <4> QED
          BY <4>1, <3>1, <3>2, <3>3, <2>1, <2>3, <2>7
      <3>4. CASE k # i
        BY <3>1, <3>2, <3>4, <2>3, <2>7
      <3> QED
        BY <3>3, <3>4
    <2>10. PagesOf(T) = PagesOf(rs) \ B
      BY <2>8, <2>9
    <2>11. (IF rs[i].end - rs[i].base = n THEN RemoveAt(rs, i)
            ELSE [rs EXCEPT ![i].base = @ + n]) = T
      BY <2>2, <1>8
    <2>12. Len(T) <= Len(rs)
      BY <2>3, <1>1
    <2> QED
      BY <2>6, <2>10, <2>11, <2>12 DEF B
  <1> QED
    BY <1>7, <1>8

-----------------------------------------------------------------------------
(* The inductive invariant: the property, with the list as a sequence of    *)
(* blocks, and what holds while pmm_init runs.                              *)
IInv ==
    /\ Loose(ranges, {})
    /\ Len(ranges) <= MaxRanges
    /\ booted \in 0 .. Len(Regions)
    /\ PagesOf(ranges) \intersect held = {}
    /\ PagesOf(ranges) \union held = Added
    /\ allocated = Cardinality(held)
    /\ ~Ready => held = {} /\ Len(ranges) <= booted

(* The managed memory is a finite set of pages. *)
LEMMA ManagedProperties ==
  /\ Regions \in Seq(Block)
  /\ IsFiniteSet(Managed) /\ Managed \subseteq Nat
  <1>1. [base : Nat \ {0}, end : Nat] \subseteq Block
    BY DEF Block
  <1>2. Regions \in Seq(Block)
    BY <1>1, PmmAssumption, SeqMonotonic
  <1>3. /\ Len(Regions) \in Nat /\ DOMAIN Regions = 1 .. Len(Regions)
        /\ \A i \in 1 .. Len(Regions) : Regions[i].base \in Nat /\ Regions[i].end \in Nat
    BY <1>2, BlockFields
  <1>4. Managed \subseteq Nat
    BY <1>2, InPages DEF Managed
  <1> DEFINE S == {Pages(Regions[i]) : i \in DOMAIN Regions}
             f == [i \in DOMAIN Regions |-> Pages(Regions[i])]
  <1>5. f \in Surjection(DOMAIN Regions, S)
    BY DEF Surjection
  <1>6. IsFiniteSet(DOMAIN Regions)
    BY <1>3, FS_Interval
  <1>7. IsFiniteSet(S)
    <2> HIDE DEF S, f
    <2> QED
      BY <1>5, <1>6, FS_Surjection
  <1>8. \A T \in S : IsFiniteSet(T)
    <2>1. \A i \in 1 .. Len(Regions) : IsFiniteSet(Pages(Regions[i]))
      <3> TAKE i \in 1 .. Len(Regions)
      <3>1. Regions[i].base \in Int /\ Regions[i].end - 1 \in Int
        BY <1>3
      <3> QED
        BY <3>1, FS_Interval DEF Pages
    <2> QED
      BY <2>1, <1>3
  <1>9. IsFiniteSet(UNION S)
    <2> HIDE DEF S
    <2> QED
      BY <1>7, <1>8, FS_UNION
  <1> QED
    BY <1>2, <1>4, <1>9 DEF Managed, PagesOf

(* What has been added is managed, and in the end it is everything. *)
LEMMA AddedProperties ==
  ASSUME booted \in 0 .. Len(Regions)
  PROVE  Added \subseteq Managed /\ (Ready => Added = Managed)
  <1>1. Len(Regions) \in Nat /\ DOMAIN Regions = 1 .. Len(Regions)
    BY ManagedProperties, BlockFields
  <1>2. 1 .. booted \subseteq 1 .. Len(Regions)
    BY <1>1
  <1>3. Added \subseteq Managed
    BY <1>1, <1>2 DEF Added, Managed, PagesOf
  <1>4. Ready => 1 .. booted = DOMAIN Regions
    BY <1>1 DEF Ready
  <1> QED
    BY <1>3, <1>4 DEF Added, Managed, PagesOf

(* The invariant implies the property. *)
LEMMA IInvImplies ==
  ASSUME IInv
  PROVE  EveryPageOnce
  <1>1. /\ ranges \in Seq(Block) /\ Len(ranges) \in Nat /\ DOMAIN ranges = 1 .. Len(ranges)
        /\ \A i \in 1 .. Len(ranges) : ranges[i].base \in Nat /\ ranges[i].end \in Nat
    BY BlockFields DEF IInv, Loose
  <1>2. Added \subseteq Managed
    BY AddedProperties DEF IInv
  <1>3. held \subseteq Managed /\ PagesOf(ranges) \subseteq Managed
    BY <1>2 DEF IInv
  <1>4. \A i \in DOMAIN ranges : Pages(ranges[i]) \subseteq Managed
    BY <1>3 DEF PagesOf
  <1>5. IsFiniteSet(held) /\ Cardinality(held) \in Nat /\ Cardinality(held) <= Cardinality(Managed)
        /\ Cardinality(Managed) \in Nat
    BY <1>3, ManagedProperties, FS_Subset, FS_CardinalityType
  <1>6. TypeOK
    BY <1>3, <1>4, <1>5 DEF IInv, TypeOK, Sizes
  <1>7. Coalesced
    <2>1. /\ \A i \in 1 .. Len(ranges) : ranges[i].base < ranges[i].end
          /\ \A i, j \in 1 .. Len(ranges) : j < i => ranges[j].end < ranges[i].base
      BY TightProperties DEF IInv
    <2>2. \A i \in 1 .. Len(ranges) : \A j \in 1 .. i - 1 : j \in 1 .. Len(ranges) /\ j < i
      BY <1>1
    <2> QED
      BY <2>1, <2>2, <1>1 DEF Coalesced
  <1> QED
    BY <1>6, <1>7 DEF IInv, EveryPageOnce

LEMMA InitInv ==
  ASSUME Init
  PROVE  IInv
  <1>1. ranges = <<>> /\ Len(ranges) = 0 /\ ranges \in Seq(Block)
    BY EmptySeq DEF Init
  <1>2. Loose(ranges, {})
    BY <1>1 DEF Loose
  <1>3. PagesOf(ranges) = {}
    <2>1. 1 .. Len(ranges) = {}
      BY <1>1
    <2> QED
      BY <2>1, <1>1, InPages
  <1>4. Added = {} /\ held = {} /\ booted = 0
    BY DEF Added, Init
  <1>5. allocated = Cardinality(held)
    BY FS_EmptySet DEF Init
  <1>6. Len(Regions) \in Nat /\ MaxRanges \in Nat
    BY PmmAssumption
  <1> QED
    BY <1>1, <1>2, <1>3, <1>4, <1>5, <1>6 DEF IInv

(* A block that shares no page with the list fits between two entries. *)
LEMMA DisjointFits ==
  ASSUME NEW rs, Loose(rs, {}), Len(rs) < MaxRanges, NEW b \in Nat, NEW e \in Nat, b < e,
         PagesOf(rs) \intersect (b .. e - 1) = {}
  PROVE  CanInsert(rs, b, e)
  <1> DEFINE pos == Before(rs, b)
  <1>1. /\ rs \in Seq(Block) /\ Len(rs) \in Nat
        /\ \A i \in 1 .. Len(rs) : rs[i].base \in Nat /\ rs[i].end \in Nat
    BY BlockFields DEF Loose
  <1>2. /\ pos \in 0 .. Len(rs)
        /\ \A i \in 1 .. Len(rs) : i <= pos <=> rs[i].base < b
    BY BeforeProperties
  <1>3. /\ \A x : x \in PagesOf(rs) <=> x \in Nat /\ \E i \in 1 .. Len(rs) : rs[i].base <= x /\ x < rs[i].end
        /\ \A i \in 1 .. Len(rs) : rs[i].base < rs[i].end
    BY <1>1, InPages, TightProperties
  <1> HIDE DEF pos
  <1>4. ASSUME pos > 0 PROVE rs[pos].end <= b
    <2>1. pos \in 1 .. Len(rs) /\ rs[pos].base < b
      BY <1>1, <1>2, <1>4
    <2>2. b \in b .. e - 1
      OBVIOUS
    <2>3. ~(rs[pos].base <= b /\ b < rs[pos].end)
      BY <2>1, <2>2, <1>3
    <2> QED
      BY <2>1, <2>3, <1>1
  <1>5. ASSUME pos < Len(rs) PROVE e <= rs[pos + 1].base
    <2>1. pos + 1 \in 1 .. Len(rs) /\ ~(pos + 1 <= pos)
      BY <1>1, <1>2, <1>5
    <2>2. b <= rs[pos + 1].base
      BY <2>1, <1>1, <1>2
    <2>3. rs[pos + 1].base \in PagesOf(rs)
      BY <2>1, <1>1, <1>3
    <2>4. rs[pos + 1].base \notin b .. e - 1
      BY <2>3
    <2> QED
      BY <2>1, <2>2, <2>4, <1>1
  <1> QED
    BY <1>4, <1>5 DEF CanInsert, pos

(* The loop of pmm_init: a region is disjoint from those before it, so it   *)
(* is never refused.                                                        *)
LEMMA AddRegionInv ==
  ASSUME IInv, AddRegion
  PROVE  IInv' /\ FreePages' = FreePages
  <1> DEFINE n == booted + 1
             r == Regions[n]
  <1>1. /\ Loose(ranges, {}) /\ booted \in 0 .. Len(Regions) /\ ~Ready
        /\ Len(ranges) <= booted /\ held = {} /\ PagesOf(ranges) = Added
        /\ allocated = Cardinality(held)
    BY DEF IInv, AddRegion
  <1>2. /\ booted' = n /\ allocated' = allocated /\ held' = held
        /\ ranges' = IF CanInsert(ranges, r.base, r.end)
                     THEN Insert(ranges, r.base, r.end) ELSE ranges
    BY DEF AddRegion
  <1>3. /\ Len(Regions) \in Nat /\ DOMAIN Regions = 1 .. Len(Regions)
        /\ \A i \in 1 .. Len(Regions) : Regions[i].base \in Nat /\ Regions[i].end \in Nat
        /\ Len(Regions) <= MaxRanges /\ MaxRanges \in Nat
    BY ManagedProperties, BlockFields, PmmAssumption
  <1>4. n \in 1 .. Len(Regions) /\ n \in Nat
    <2> DEFINE L == Len(Regions)
    <2>1. L \in Nat
      BY <1>3
    <2>2. booted \in 0 .. L /\ booted # L
      BY <1>1 DEF Ready
    <2> HIDE DEF L
    <2>3. n \in 1 .. L /\ n \in Nat
      BY <2>1, <2>2
    <2> QED
      BY <2>3 DEF L
  <1>5. \A i \in 1 .. booted : i \in 1 .. Len(Regions) /\ i # n
    BY <1>1, <1>3
  <1>6. Len(ranges) \in Nat /\ Len(ranges) < MaxRanges
    BY <1>1, <1>3, <1>4 DEF Loose
  <1> HIDE DEF n
  <1>7. r.base \in Nat /\ r.end \in Nat /\ r.base < r.end /\ Pages(r) = r.base .. r.end - 1
    BY <1>3, <1>4, PmmAssumption DEF Pages
  <1>8. Added \intersect Pages(r) = {}
    <2>1. \A i \in 1 .. booted : Pages(Regions[i]) \intersect Pages(r) = {}
      BY <1>3, <1>4, <1>5, PmmAssumption
    <2> QED
      BY <2>1 DEF Added
  <1> HIDE DEF r
  <1>9. CanInsert(ranges, r.base, r.end)
    <2>1. PagesOf(ranges) \intersect (r.base .. r.end - 1) = {}
      BY <1>1, <1>7, <1>8
    <2> QED
      BY <2>1, <1>1, <1>6, <1>7, DisjointFits
  <1>10. /\ Loose(ranges', {}) /\ Len(ranges') <= Len(ranges) + 1
         /\ PagesOf(ranges') = PagesOf(ranges) \union Pages(r)
    BY <1>1, <1>2, <1>7, <1>9, InsertLoose
  <1>11. Added' = Added \union Pages(r)
    <2>1. 1 .. n = (1 .. booted) \union {n}
      BY <1>1, <1>4 DEF n
    <2> QED
      BY <2>1, <1>2 DEF Added, r
  <1>12. Len(ranges') \in Nat /\ Len(ranges') <= n /\ Len(ranges') <= MaxRanges
    <2>1. Len(ranges') \in Nat
      BY <1>10 DEF Loose
    <2> QED
      BY <2>1, <1>1, <1>3, <1>6, <1>10 DEF n
  <1>13. IInv'
    BY <1>1, <1>2, <1>4, <1>10, <1>11, <1>12 DEF IInv
  <1>14. FreePages' = FreePages
    <2>1. FreePages = Managed
      BY <1>1 DEF FreePages
    <2>2. Ready' => Added' = Managed
      <3>1. Ready' => n = Len(Regions)
        BY <1>2 DEF Ready
      <3> QED
        BY <3>1, <1>2, <1>3 DEF Added, Managed, PagesOf
    <2> QED
      BY <2>1, <2>2, <1>1, <1>10, <1>11 DEF FreePages
  <1> QED
    BY <1>13, <1>14

(* What an allocation does: the pages it takes were free, and the list      *)
(* loses them.                                                              *)
LEMMA AllocStep ==
  ASSUME IInv, NEW n \in 1 .. MaxBlock, NEW i \in DOMAIN ranges,
         BestFit(i, n), ranges' = Take(i, n)
  PROVE  /\ i \in 1 .. Len(ranges) /\ ranges[i].base \in Nat /\ n \in Nat \ {0}
         /\ n <= ranges[i].end - ranges[i].base
         /\ ranges[i].base .. ranges[i].base + n - 1 \subseteq PagesOf(ranges)
         /\ Loose(ranges', {}) /\ Len(ranges') <= Len(ranges)
         /\ PagesOf(ranges') = PagesOf(ranges) \ (ranges[i].base .. ranges[i].base + n - 1)
  <1>1. /\ ranges \in Seq(Block) /\ Len(ranges) \in Nat /\ DOMAIN ranges = 1 .. Len(ranges)
        /\ \A k \in 1 .. Len(ranges) : ranges[k].base \in Nat /\ ranges[k].end \in Nat
        /\ Loose(ranges, {})
    BY BlockFields DEF IInv, Loose
  <1>2. n \in Nat \ {0}
    BY PmmAssumption
  <1>3. n <= ranges[i].end - ranges[i].base
    BY <1>1, <1>2 DEF BestFit, Size
  <1>4. ranges' = IF ranges[i].end - ranges[i].base = n THEN RemoveAt(ranges, i)
                  ELSE [ranges EXCEPT ![i].base = @ + n]
    BY DEF Take, Size
  <1> DEFINE T == IF ranges[i].end - ranges[i].base = n THEN RemoveAt(ranges, i)
                  ELSE [ranges EXCEPT ![i].base = @ + n]
  <1>5. /\ Loose(T, {}) /\ Len(T) <= Len(ranges)
        /\ PagesOf(T) = PagesOf(ranges) \ (ranges[i].base .. ranges[i].base + n - 1)
    BY <1>1, <1>2, <1>3, TakeLoose
  <1>6. ranges' = T
    BY <1>4
  <1> HIDE DEF T
  <1>7. ranges[i].base .. ranges[i].base + n - 1 \subseteq PagesOf(ranges)
    <2> SUFFICES ASSUME NEW x \in ranges[i].base .. ranges[i].base + n - 1
                 PROVE  x \in PagesOf(ranges)
      OBVIOUS
    <2>1. x \in Nat /\ ranges[i].base <= x /\ x < ranges[i].end
      BY <1>1, <1>2, <1>3
    <2> QED
      BY <2>1, <1>1, InPages
  <1> QED
    BY <1>1, <1>2, <1>3, <1>5, <1>6, <1>7

(* pmm_alloc_pages *)
LEMMA AllocInv ==
  ASSUME IInv, NEW n \in 1 .. MaxBlock, Alloc(n)
  PROVE  IInv'
  <1>1. PICK i \in DOMAIN ranges :
           /\ BestFit(i, n) /\ ranges' = Take(i, n) /\ allocated' = allocated + n
           /\ held' = held \union (ranges[i].base .. ranges[i].base + n - 1)
    BY DEF Alloc
  <1>2. Ready /\ booted' = booted
    BY DEF Alloc
  <1> DEFINE b == ranges[i].base
             B == b .. b + n - 1
  <1>3. /\ b \in Nat /\ n \in Nat \ {0} /\ B \subseteq PagesOf(ranges)
        /\ Loose(ranges', {}) /\ Len(ranges') <= Len(ranges)
        /\ PagesOf(ranges') = PagesOf(ranges) \ B
    BY <1>1, AllocStep
  <1> HIDE DEF b
  <1>4. IsFiniteSet(B) /\ Cardinality(B) = n
    <2>1. b \in Int /\ b + n - 1 \in Int /\ ~(b > b + n - 1) /\ (b + n - 1) - b + 1 = n
      BY <1>3
    <2> QED
      BY <2>1, FS_Interval
  <1> HIDE DEF B
  <1>5. /\ PagesOf(ranges) \intersect held = {} /\ PagesOf(ranges) \union held = Added
        /\ allocated = Cardinality(held) /\ Len(ranges) <= MaxRanges
        /\ booted \in 0 .. Len(Regions)
    BY DEF IInv
  <1>6. held' = held \union B
    BY <1>1 DEF B, b
  <1>7. allocated' = Cardinality(held')
    <2>1. EveryPageOnce
      BY IInvImplies
    <2>2. IsFiniteSet(held) /\ Cardinality(held) \in Nat
      BY <2>1, ManagedProperties, FS_Subset, FS_CardinalityType DEF EveryPageOnce, TypeOK
    <2>3. held \intersect B = {}
      BY <1>3, <1>5
    <2>4. Cardinality(held \union B) = Cardinality(held) + Cardinality(B) - Cardinality(held \intersect B)
      BY <2>2, <1>4, FS_Union
    <2>5. Cardinality(held \intersect B) = 0
      BY <2>3, FS_EmptySet
    <2>6. Cardinality(held \union B) = Cardinality(held) + n
      BY <2>2, <2>4, <2>5, <1>3, <1>4
    <2>7. allocated' = Cardinality(held) + n
      BY <1>1, <1>5
    <2> QED
      BY <2>6, <2>7, <1>6
  <1>8. Added' = Added /\ Ready'
    BY <1>2 DEF Added, Ready
  <1>9. Len(ranges') <= MaxRanges
    <2>1. Len(ranges') \in Nat /\ Len(ranges) \in Nat
      BY <1>3 DEF Loose, IInv
    <2> QED
      BY <2>1, <1>3, <1>5, PmmAssumption
  <1>10. /\ PagesOf(ranges') \intersect held' = {}
         /\ PagesOf(ranges') \union held' = Added'
    BY <1>3, <1>5, <1>6, <1>8
  <1> QED
    BY <1>2, <1>3, <1>5, <1>7, <1>8, <1>9, <1>10 DEF IInv

(* What a free does: the pages were held, and the list gains them. *)
LEMMA FreeStep ==
  ASSUME IInv, NEW b \in Managed, NEW n \in 1 .. MaxBlock, Free(b, n)
  PROVE  /\ b \in Nat /\ n \in Nat \ {0}
         /\ b .. b + n - 1 \subseteq held
         /\ Loose(ranges', {}) /\ Len(ranges') <= MaxRanges
         /\ PagesOf(ranges') = PagesOf(ranges) \union (b .. b + n - 1)
  <1> DEFINE e == b + n
  <1>1. /\ ranges \in Seq(Block) /\ Len(ranges) \in Nat /\ DOMAIN ranges = 1 .. Len(ranges)
        /\ \A k \in 1 .. Len(ranges) : ranges[k].base \in Nat /\ ranges[k].end \in Nat
        /\ Loose(ranges, {})
    BY BlockFields DEF IInv, Loose
  <1>2. b \in Nat /\ n \in Nat \ {0} /\ e \in Nat
    BY PmmAssumption, ManagedProperties
  <1>3. /\ b .. b + n - 1 \subseteq held \union PagesOf(ranges)
        /\ \A i \in DOMAIN ranges : ~(b < ranges[i].end /\ ranges[i].base < e)
        /\ CanInsert(ranges, b, e)
        /\ ranges' = Insert(ranges, b, e)
    BY DEF Free, Accepts
  <1>4. Len(ranges) < MaxRanges
    BY <1>3 DEF CanInsert
  <1>5. ASSUME NEW x \in b .. b + n - 1 PROVE x \in held
    <2>1. x \in Nat /\ b <= x /\ x < e
      BY <1>2
    <2>2. x \notin PagesOf(ranges)
      <3> SUFFICES ASSUME x \in PagesOf(ranges) PROVE FALSE
        OBVIOUS
      <3>1. PICK i \in 1 .. Len(ranges) : ranges[i].base <= x /\ x < ranges[i].end
        BY <1>1, InPages
      <3>2. b < ranges[i].end /\ ranges[i].base < e
        BY <3>1, <2>1, <1>1, <1>2
      <3> QED
        BY <3>2, <1>1, <1>3
    <2> QED
      BY <2>2, <1>3
  <1> HIDE DEF e
  <1>6. /\ Loose(Insert(ranges, b, e), {})
        /\ Len(Insert(ranges, b, e)) <= Len(ranges) + 1
        /\ PagesOf(Insert(ranges, b, e)) = PagesOf(ranges) \union (b .. e - 1)
    BY <1>1, <1>2, <1>3, InsertLoose
  <1>7. Len(ranges') \in Nat /\ Len(ranges') <= MaxRanges
    <2>1. Len(ranges') \in Nat
      BY <1>3, <1>6 DEF Loose
    <2> QED
      BY <2>1, <1>1, <1>3, <1>4, <1>6, PmmAssumption
  <1> QED
    BY <1>2, <1>3, <1>5, <1>6, <1>7 DEF e

(* pmm_free_pages *)
LEMMA FreeInv ==
  ASSUME IInv, NEW b \in Managed, NEW n \in 1 .. MaxBlock, Free(b, n)
  PROVE  IInv'
  <1> DEFINE B == b .. b + n - 1
  <1>1. /\ b \in Nat /\ n \in Nat \ {0} /\ B \subseteq held
        /\ Loose(ranges', {}) /\ Len(ranges') <= MaxRanges
        /\ PagesOf(ranges') = PagesOf(ranges) \union B
    BY FreeStep
  <1>2. /\ Ready /\ booted' = booted /\ held' = held \ B
        /\ allocated' = IF allocated >= n THEN allocated - n ELSE 0
    BY DEF Free
  <1>3. IsFiniteSet(B) /\ Cardinality(B) = n
    <2>1. b \in Int /\ b + n - 1 \in Int /\ ~(b > b + n - 1) /\ (b + n - 1) - b + 1 = n
      BY <1>1
    <2> QED
      BY <2>1, FS_Interval
  <1> HIDE DEF B
  <1>4. /\ PagesOf(ranges) \intersect held = {} /\ PagesOf(ranges) \union held = Added
        /\ allocated = Cardinality(held) /\ booted \in 0 .. Len(Regions)
    BY DEF IInv
  <1>5. allocated' = Cardinality(held')
    <2>1. EveryPageOnce
      BY IInvImplies
    <2>2. IsFiniteSet(held) /\ Cardinality(held) \in Nat
      BY <2>1, ManagedProperties, FS_Subset, FS_CardinalityType DEF EveryPageOnce, TypeOK
    <2>3. held \intersect B = B /\ Cardinality(B) <= Cardinality(held)
      BY <2>2, <1>1, FS_Subset
    <2>4. Cardinality(held \ B) = Cardinality(held) - Cardinality(held \intersect B)
      BY <2>2, FS_Difference
    <2> QED
      BY <2>2, <2>3, <2>4, <1>1, <1>2, <1>3, <1>4
  <1>6. Added' = Added /\ Ready'
    BY <1>2 DEF Added, Ready
  <1>7. /\ PagesOf(ranges') \intersect held' = {}
        /\ PagesOf(ranges') \union held' = Added'
    BY <1>1, <1>2, <1>4, <1>6
  <1> QED
    BY <1>1, <1>2, <1>4, <1>5, <1>6, <1>7 DEF IInv

LEMMA NextInv ==
  ASSUME IInv, [Next]_vars
  PROVE  IInv'
  <1>1. CASE AddRegion
    BY <1>1, AddRegionInv
  <1>2. ASSUME NEW n \in 1 .. MaxBlock, Alloc(n) PROVE IInv'
    BY <1>2, AllocInv
  <1>3. ASSUME NEW b \in Managed, NEW n \in 1 .. MaxBlock, Free(b, n) PROVE IInv'
    BY <1>3, FreeInv
  <1>4. CASE UNCHANGED vars
    <2>1. ranges' = ranges /\ allocated' = allocated /\ held' = held /\ booted' = booted
      BY <1>4 DEF vars
    <2>2. Added' = Added /\ Ready' = Ready
      BY <2>1 DEF Added, Ready
    <2> QED
      BY <2>1, <2>2 DEF IInv
  <1> QED
    BY <1>1, <1>2, <1>3, <1>4 DEF Next

-----------------------------------------------------------------------------
(* The theorems *)

(* The inductive invariant of the free-range list of kernel/memory.c. *)
THEOREM Invariance == Spec => []IInv
  <1>1. Init => IInv
    BY InitInv
  <1>2. IInv /\ [Next]_vars => IInv'
    BY NextInv
  <1> QED
    BY <1>1, <1>2, PTL DEF Spec

(* pmm_alloc_pages never hands a page out twice and pmm_free_pages never    *)
(* loses one: whatever the boot regions, the table size and the sequence of *)
(* calls, the list is coalesced, and it and the held pages partition the    *)
(* memory, which the statistics count.                                      *)
THEOREM PagesAreConserved == Spec => []EveryPageOnce
  <1>1. IInv => EveryPageOnce
    BY IInvImplies
  <1> QED
    BY <1>1, Invariance, PTL

-----------------------------------------------------------------------------
(* The list implements PagePool *)

(* Once pmm_init has returned, the maximal runs of free pages are the       *)
(* entries of the list.                                                     *)
LEMMA RunsAreEntries ==
  ASSUME IInv, Ready, NEW c \in Nat, NEW d \in Nat, c <= d, NEW n \in Nat
  PROVE  Pool!Run(c, d, n) <=>
            /\ \E k \in 1 .. Len(ranges) : c = ranges[k].base /\ d + 1 = ranges[k].end
            /\ d - c + 1 >= n
  <1>1. /\ ranges \in Seq(Block) /\ Len(ranges) \in Nat /\ Loose(ranges, {})
        /\ \A k \in 1 .. Len(ranges) : ranges[k].base \in Nat /\ ranges[k].end \in Nat
    BY BlockFields DEF IInv, Loose
  <1>2. /\ \A k \in 1 .. Len(ranges) : ranges[k].base < ranges[k].end
        /\ \A i, k \in 1 .. Len(ranges) : k < i => ranges[k].end < ranges[i].base
    BY <1>1, TightProperties
  <1>3. \A x : x \in FreePages <=>
           x \in Nat /\ \E k \in 1 .. Len(ranges) : ranges[k].base <= x /\ x < ranges[k].end
    BY <1>1, InPages DEF FreePages
  <1> DEFINE Maximal == /\ \A x \in c .. d : x \in FreePages
                        /\ c - 1 \notin FreePages /\ d + 1 \notin FreePages
  <1>4. Pool!Run(c, d, n) <=> Maximal /\ d - c + 1 >= n
    BY DEF Pool!Run
  <1>5. \A k \in 1 .. Len(ranges) :
           ranges[k].base - 1 \notin FreePages /\ ranges[k].end \notin FreePages
    <2> SUFFICES ASSUME NEW k \in 1 .. Len(ranges), NEW m \in 1 .. Len(ranges)
                 PROVE  /\ ~(ranges[m].base <= ranges[k].base - 1 /\ ranges[k].base - 1 < ranges[m].end)
                        /\ ~(ranges[m].base <= ranges[k].end /\ ranges[k].end < ranges[m].end)
      BY <1>3
    <2>1. m < k => ranges[m].end < ranges[k].base
      BY <1>2
    <2>2. k < m => ranges[k].end < ranges[m].base
      BY <1>2
    <2>3. m < k \/ m = k \/ k < m
      BY <1>1
    <2>4. ranges[k].base < ranges[k].end
      BY <1>2
    <2> QED
      BY <2>1, <2>2, <2>3, <2>4, <1>1
  <1>6. ASSUME NEW k \in 1 .. Len(ranges), c = ranges[k].base, d + 1 = ranges[k].end
        PROVE  Maximal
    <2>1. \A x \in c .. d : x \in Nat /\ ranges[k].base <= x /\ x < ranges[k].end
      BY <1>6, <1>1
    <2>2. \A x \in c .. d : x \in FreePages
      BY <2>1, <1>3
    <2> QED
      BY <2>2, <1>5, <1>6
  <1>7. ASSUME Maximal
        PROVE  \E k \in 1 .. Len(ranges) : c = ranges[k].base /\ d + 1 = ranges[k].end
    <2>1. c \in FreePages
      <3>1. c \in c .. d
        OBVIOUS
      <3> QED
        BY <3>1, <1>7
    <2>2. PICK k \in 1 .. Len(ranges) : ranges[k].base <= c /\ c < ranges[k].end
      BY <2>1, <1>3
    <2>3. c = ranges[k].base
      <3>1. ~(ranges[k].base <= c - 1 /\ c - 1 < ranges[k].end /\ c - 1 \in Nat)
        BY <1>3, <1>7
      <3> QED
        BY <3>1, <2>2, <1>1
    <2>4. ~(d + 1 < ranges[k].end)
      <3>1. d + 1 \in Nat /\ ranges[k].base <= d + 1
        BY <2>2, <1>1
      <3> QED
        BY <3>1, <1>3, <1>7
    <2>5. ~(d + 1 > ranges[k].end)
      <3> SUFFICES ASSUME d + 1 > ranges[k].end PROVE FALSE
        OBVIOUS
      <3>1. ranges[k].end \in c .. d
        BY <2>2, <1>1
      <3> QED
        BY <3>1, <1>5, <1>7
    <2>6. d + 1 \in Int /\ ranges[k].end \in Int
      BY <1>1
    <2>7. d + 1 = ranges[k].end
      BY <2>4, <2>5, <2>6
    <2> QED
      BY <2>3, <2>7
  <1> HIDE DEF Maximal
  <1> QED
    BY <1>4, <1>6, <1>7

(* An allocation takes the front of a smallest run that is long enough. *)
LEMMA AllocPool ==
  ASSUME IInv, NEW n \in 1 .. MaxBlock, Alloc(n)
  PROVE  Pool!PoolNext
  <1>1. PICK i \in DOMAIN ranges : BestFit(i, n) /\ ranges' = Take(i, n)
    BY DEF Alloc
  <1>2. Ready /\ Ready'
    BY DEF Alloc, Ready
  <1> DEFINE b == ranges[i].base
             e == ranges[i].end - 1
  <1>3. /\ i \in 1 .. Len(ranges) /\ b \in Nat /\ n \in Nat \ {0}
        /\ n <= ranges[i].end - b
        /\ b .. b + n - 1 \subseteq PagesOf(ranges)
        /\ PagesOf(ranges') = PagesOf(ranges) \ (b .. b + n - 1)
    BY <1>1, AllocStep
  <1>4. /\ Len(ranges) \in Nat /\ DOMAIN ranges = 1 .. Len(ranges)
        /\ \A m \in 1 .. Len(ranges) : ranges[m].base \in Nat /\ ranges[m].end \in Nat
    BY BlockFields DEF IInv, Loose
  <1>5. e \in Nat /\ b <= e /\ e + 1 = ranges[i].end /\ e - b + 1 >= n
    BY <1>3, <1>4
  <1>6. FreePages = PagesOf(ranges) /\ FreePages' = PagesOf(ranges')
    BY <1>2 DEF FreePages
  <1>7. \A m \in 1 .. Len(ranges) :
           ranges[m].end - ranges[m].base >= n =>
              ranges[i].end - ranges[i].base <= ranges[m].end - ranges[m].base
    <2> TAKE m \in 1 .. Len(ranges)
    <2>1. /\ ranges[m].end - ranges[m].base \in Int
          /\ ranges[i].end - ranges[i].base \in Int
      BY <1>3, <1>4
    <2>2. Size(m) >= n => Size(i) < Size(m) \/ Size(i) = Size(m)
      BY <1>1, <1>4 DEF BestFit
    <2>3. Size(m) = ranges[m].end - ranges[m].base /\ Size(i) = ranges[i].end - ranges[i].base
      BY DEF Size
    <2> QED
      BY <2>1, <2>2, <2>3
  <1>8. FreePages \subseteq Managed
    <2>1. EveryPageOnce
      BY IInvImplies
    <2> QED
      BY <2>1, <1>6, AddedProperties DEF EveryPageOnce, TypeOK
  <1> HIDE DEF b, e
  <1>9. Pool!Run(b, e, n)
    <2>1. b = ranges[i].base /\ e + 1 = ranges[i].end
      BY <1>5 DEF b
    <2> QED
      BY <2>1, <1>2, <1>3, <1>5, RunsAreEntries
  <1>10. e \in FreePages /\ b \in FreePages
    <2>1. e \in b .. e /\ b \in b .. e
      BY <1>3, <1>5
    <2> QED
      BY <2>1, <1>9 DEF Pool!Run
  <1>11. ASSUME NEW c \in FreePages, NEW d \in FreePages, Pool!Run(c, d, n)
         PROVE  e - b <= d - c
    <2>1. c \in Nat /\ d \in Nat
      BY <1>8, ManagedProperties
    <2>2. d - c + 1 >= n
      BY <1>11 DEF Pool!Run
    <2>3. c <= d
      BY <2>1, <2>2, <1>3
    <2>4. PICK m \in 1 .. Len(ranges) : c = ranges[m].base /\ d + 1 = ranges[m].end
      BY <2>1, <2>3, <1>2, <1>3, <1>11, RunsAreEntries
    <2>5. ranges[m].end - ranges[m].base = d - c + 1
      BY <2>1, <2>4
    <2>6. ranges[i].end - ranges[i].base = e - b + 1
      BY <1>3, <1>5 DEF b
    <2>7. e - b + 1 <= d - c + 1
      BY <2>2, <2>5, <2>6, <1>7
    <2> QED
      BY <2>1, <2>7, <1>3, <1>5
  <1>12. FreePages' = FreePages \ Pool!Block(b, n)
    BY <1>3, <1>6 DEF Pool!Block
  <1>13. Pool!PoolAlloc(b, n)
    <2>1. \A c, d \in FreePages : Pool!Run(c, d, n) => e - b <= d - c
      BY <1>11
    <2> QED
      BY <2>1, <1>9, <1>10, <1>12 DEF Pool!PoolAlloc
  <1> QED
    BY <1>8, <1>10, <1>13 DEF Pool!PoolNext

(* A free that is accepted gives back pages that were not free. *)
LEMMA FreePool ==
  ASSUME IInv, NEW b \in Managed, NEW n \in 1 .. MaxBlock, Free(b, n)
  PROVE  Pool!PoolNext
  <1>1. /\ b .. b + n - 1 \subseteq held
        /\ PagesOf(ranges') = PagesOf(ranges) \union (b .. b + n - 1)
    BY FreeStep
  <1>2. Ready /\ Ready'
    BY DEF Free, Ready
  <1>3. FreePages = PagesOf(ranges) /\ FreePages' = PagesOf(ranges')
    BY <1>2 DEF FreePages
  <1>4. held \subseteq Managed /\ PagesOf(ranges) \intersect held = {}
    BY IInvImplies DEF EveryPageOnce, TypeOK
  <1>5. Pool!PoolFree(b, n)
    BY <1>1, <1>3, <1>4 DEF Pool!PoolFree, Pool!Block
  <1> QED
    BY <1>5 DEF Pool!PoolNext

(* Every step of the list is a step of the pool or leaves it alone. *)
LEMMA NextPool ==
  ASSUME IInv, [Next]_vars
  PROVE  [Pool!PoolNext]_FreePages
  <1>1. CASE AddRegion
    BY <1>1, AddRegionInv
  <1>2. ASSUME NEW n \in 1 .. MaxBlock, Alloc(n) PROVE Pool!PoolNext
    BY <1>2, AllocPool
  <1>3. ASSUME NEW b \in Managed, NEW n \in 1 .. MaxBlock, Free(b, n) PROVE Pool!PoolNext
    BY <1>3, FreePool
  <1>4. CASE UNCHANGED vars
    BY <1>4 DEF vars, FreePages, Ready
  <1> QED
    BY <1>1, <1>2, <1>3, <1>4 DEF Next

(* From the moment pmm_init returns, the free-range list of memory.c, with  *)
(* its splits and merges, behaves as a pool of pages with best-fit          *)
(* allocation.                                                              *)
THEOREM ListImplementsPool == Spec => ImplementsPool
  <1>1. Init => Pool!PoolInit
    <2> SUFFICES ASSUME Init PROVE FreePages = Managed
      BY DEF Pool!PoolInit
    <2>1. booted = 0 /\ Len(Regions) # 0
      BY PmmAssumption DEF Init
    <2> QED
      BY <2>1 DEF FreePages, Ready
  <1>2. IInv /\ [Next]_vars => [Pool!PoolNext]_FreePages
    BY NextPool
  <1> QED
    BY <1>1, <1>2, Invariance, PTL DEF Spec, ImplementsPool, Pool!PoolSpec
=============================================================================
