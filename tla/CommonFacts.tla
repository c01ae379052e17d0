---------------------------- MODULE CommonFacts ---------------------------
(***************************************************************************)
(* Facts that the proofs of several components need: about lists of        *)
(* objects with no object twice on a list, about the least of a set of     *)
(* numbers, and about quotients and remainders.                            *)
(***************************************************************************)
EXTENDS Integers, Sequences, FiniteSets, SequencesExt, FiniteSetTheorems, NaturalsInduction, TLAPS

(***************************************************************************)
(* What the list operations do to a list that holds nothing twice.         *)
(***************************************************************************)
LEMMA AppendList ==
  ASSUME NEW S, NEW q \in Seq(S), NEW e \in S
  PROVE  /\ Append(q, e) \in Seq(S)
         /\ \A x : Contains(Append(q, e), x) <=> Contains(q, x) \/ x = e
         /\ IsInjective(q) /\ ~Contains(q, e) => IsInjective(Append(q, e))
  <1>1. /\ Append(q, e) \in Seq(S)
        /\ Len(Append(q, e)) = Len(q) + 1
        /\ DOMAIN q = 1..Len(q)
        /\ DOMAIN Append(q, e) = 1..(Len(q) + 1)
        /\ \A i \in 1..Len(q) : Append(q, e)[i] = q[i]
        /\ Append(q, e)[Len(q) + 1] = e
    OBVIOUS
  <1>2. ASSUME NEW x
        PROVE  Contains(Append(q, e), x) <=> Contains(q, x) \/ x = e
    BY <1>1 DEF Contains
  <1>3. IsInjective(q) /\ ~Contains(q, e) => IsInjective(Append(q, e))
    BY <1>1 DEF Contains, IsInjective
  <1> QED  BY <1>1, <1>2, <1>3

\* Tail takes the head off a list that holds nothing twice.
LEMMA TailList ==
  ASSUME NEW S, NEW q \in Seq(S), q # <<>>, IsInjective(q)
  PROVE  /\ Head(q) \in S /\ Contains(q, Head(q))
         /\ Tail(q) \in Seq(S) /\ IsInjective(Tail(q))
         /\ \A x : Contains(Tail(q), x) <=> Contains(q, x) /\ x # Head(q)
  <1>1. /\ Head(q) = q[1] /\ Head(q) \in S
        /\ Len(q) \in Nat \ {0}
        /\ DOMAIN q = 1..Len(q)
        /\ Tail(q) \in Seq(S)
        /\ Len(Tail(q)) = Len(q) - 1
        /\ DOMAIN Tail(q) = 1..(Len(q) - 1)
        /\ \A i \in 1..(Len(q) - 1) : Tail(q)[i] = q[i + 1]
    OBVIOUS
  <1>2. Contains(q, Head(q))
    BY <1>1 DEF Contains
  <1>3. IsInjective(Tail(q))
    BY <1>1 DEF IsInjective
  <1>4. ASSUME NEW x
        PROVE  Contains(Tail(q), x) <=> Contains(q, x) /\ x # Head(q)
    <2>1. ASSUME NEW i \in 1..Len(q), q[i] = x, x # Head(q)
          PROVE  Contains(Tail(q), x)
      <3>1. i - 1 \in 1..(Len(q) - 1) /\ Tail(q)[i - 1] = q[i]
        BY <1>1, <2>1
      <3> QED  BY <1>1, <2>1, <3>1 DEF Contains
    <2>2. ASSUME NEW i \in 1..(Len(q) - 1), Tail(q)[i] = x
          PROVE  Contains(q, x) /\ x # Head(q)
      BY <1>1, <2>2 DEF Contains, IsInjective
    <2> QED  BY <1>1, <2>1, <2>2 DEF Contains
  <1> QED  BY <1>1, <1>2, <1>3, <1>4

\* The entries of a concatenation.
LEMMA ConcatList ==
  ASSUME NEW S, NEW a \in Seq(S), NEW b \in Seq(S)
  PROVE  /\ a \o b \in Seq(S)
         /\ Len(a \o b) = Len(a) + Len(b)
         /\ DOMAIN (a \o b) = 1..(Len(a) + Len(b))
         /\ \A i \in 1..Len(a) : (a \o b)[i] = a[i]
         /\ \A i \in 1..Len(b) : (a \o b)[Len(a) + i] = b[i]
  OBVIOUS

\* A function of 1..n is a list.
LEMMA FunctionList ==
  ASSUME NEW S, NEW n \in Nat, NEW g \in [1..n -> S]
  PROVE  g \in Seq(S) /\ Len(g) = n
  OBVIOUS


\* What RemoveFirst leaves, entry by entry.
LEMMA RemoveEntries ==
  ASSUME NEW S, NEW q \in Seq(S), IsInjective(q), NEW k \in 1..Len(q)
  PROVE  LET r == RemoveFirst(q, q[k])
         IN  /\ r \in Seq(S)
             /\ Len(r) = Len(q) - 1
             /\ DOMAIN r = 1..(Len(q) - 1)
             /\ \A i \in 1..(k - 1) : r[i] = q[i]
             /\ \A i \in k..(Len(q) - 1) : r[i] = q[i + 1]
  <1> DEFINE e == q[k]
  <1>1. {i \in 1..Len(q) : q[i] = e} = {k}
    BY DEF IsInjective
  <1>2. SelectInSeq(q, LAMBDA v : v = e) = k
    BY <1>1 DEF SelectInSeq, Min
  <1> DEFINE r == RemoveFirst(q, e)
  <1>3. r = SubSeq(q, 1, k - 1) \o SubSeq(q, k + 1, Len(q))
    BY <1>2 DEF RemoveFirst, RemoveAt
  <1>4. /\ SubSeq(q, 1, k - 1) \in Seq(S)
        /\ Len(SubSeq(q, 1, k - 1)) = k - 1
        /\ \A i \in 1..(k - 1) : SubSeq(q, 1, k - 1)[i] = q[i]
    OBVIOUS
  <1>5. /\ SubSeq(q, k + 1, Len(q)) \in Seq(S)
        /\ Len(SubSeq(q, k + 1, Len(q))) = Len(q) - k
        /\ \A i \in 1..(Len(q) - k) : SubSeq(q, k + 1, Len(q))[i] = q[k + i]
    OBVIOUS
  <1> DEFINE a == SubSeq(q, 1, k - 1)
             b == SubSeq(q, k + 1, Len(q))
  <1> HIDE DEF r, a, b
  <1>6. /\ a \o b \in Seq(S)
        /\ Len(a \o b) = Len(a) + Len(b)
        /\ DOMAIN (a \o b) = 1..(Len(a) + Len(b))
        /\ \A i \in 1..Len(a) : (a \o b)[i] = a[i]
        /\ \A i \in 1..Len(b) : (a \o b)[Len(a) + i] = b[i]
    <2>1. a \in Seq(S) /\ b \in Seq(S)
      BY <1>4, <1>5 DEF a, b
    <2> QED  BY <2>1
  <1>7. /\ r \in Seq(S)
        /\ Len(r) = Len(q) - 1
        /\ DOMAIN r = 1..(Len(q) - 1)
        /\ \A i \in 1..(k - 1) : r[i] = q[i]
        /\ \A i \in k..(Len(q) - 1) : r[i] = q[i + 1]
    <2>1. r = a \o b /\ Len(a) = k - 1 /\ Len(b) = Len(q) - k
      BY <1>3, <1>4, <1>5 DEF a, b
    <2>2. ASSUME NEW i \in k..(Len(q) - 1)
          PROVE  r[i] = q[i + 1]
      <3>1. i - (k - 1) \in 1..Len(b) /\ Len(a) + (i - (k - 1)) = i
        BY <2>1
      <3>2. r[i] = b[i - (k - 1)]
        BY <1>6, <2>1, <3>1
      <3>3. b[i - (k - 1)] = q[k + (i - (k - 1))]
        BY <1>5, <2>1, <3>1 DEF b
      <3> QED  BY <3>2, <3>3
    <2>3. ASSUME NEW i \in 1..(k - 1)
          PROVE  r[i] = q[i]
      BY <1>4, <1>6, <2>1, <2>3 DEF a
    <2>4. Len(a) + Len(b) = Len(q) - 1
      BY <2>1
    <2>5. r \in Seq(S) /\ Len(r) = Len(q) - 1 /\ DOMAIN r = 1..(Len(q) - 1)
      BY <1>6, <2>1, <2>4, Zenon
    <2> QED  BY <2>2, <2>3, <2>5
  <1> QED  BY <1>7 DEF r

\* RemoveFirst takes one element off a list that holds nothing twice.
LEMMA RemoveList ==
  ASSUME NEW S, NEW q \in Seq(S), IsInjective(q), NEW e
  PROVE  /\ RemoveFirst(q, e) \in Seq(S) /\ IsInjective(RemoveFirst(q, e))
         /\ \A x : Contains(RemoveFirst(q, e), x) <=> Contains(q, x) /\ x # e
  <1>1. CASE ~Contains(q, e)
    <2>1. RemoveFirst(q, e) = q
      BY <1>1 DEF RemoveFirst, Contains
    <2> QED  BY <1>1, <2>1 DEF Contains
  <1>2. CASE Contains(q, e)
    <2>1. PICK k \in 1..Len(q) : q[k] = e
      BY <1>2 DEF Contains
    <2> DEFINE r == RemoveFirst(q, e)
    <2>8. /\ r \in Seq(S)
          /\ Len(r) = Len(q) - 1
          /\ DOMAIN r = 1..(Len(q) - 1)
          /\ \A i \in 1..(k - 1) : r[i] = q[i]
          /\ \A i \in k..(Len(q) - 1) : r[i] = q[i + 1]
      BY <2>1, RemoveEntries
    <2> HIDE DEF r
    <2>9. IsInjective(r)
      <3>1. SUFFICES ASSUME NEW i \in 1..(Len(q) - 1), NEW j \in 1..(Len(q) - 1), r[i] = r[j]
                     PROVE  i = j
        BY <2>8 DEF IsInjective
      <3>2. r[i] = IF i < k THEN q[i] ELSE q[i + 1]
        BY <2>1, <2>8
      <3>3. r[j] = IF j < k THEN q[j] ELSE q[j + 1]
        BY <2>1, <2>8
      <3>4. \A m, n \in 1..Len(q) : q[m] = q[n] => m = n
        BY DEF IsInjective
      <3>5. i \in 1..Len(q) /\ i + 1 \in 1..Len(q) /\ j \in 1..Len(q) /\ j + 1 \in 1..Len(q)
        OBVIOUS
      <3>6. CASE i < k /\ j < k
        BY <3>1, <3>2, <3>3, <3>4, <3>5, <3>6
      <3>7. CASE i < k /\ ~(j < k)
        <4>1. i = j + 1
          BY <3>1, <3>2, <3>3, <3>4, <3>5, <3>7
        <4> QED  BY <3>7, <4>1
      <3>8. CASE ~(i < k) /\ j < k
        <4>1. i + 1 = j
          BY <3>1, <3>2, <3>3, <3>4, <3>5, <3>8
        <4> QED  BY <3>8, <4>1
      <3>9. CASE ~(i < k) /\ ~(j < k)
        <4>1. i + 1 = j + 1
          BY <3>1, <3>2, <3>3, <3>4, <3>5, <3>9
        <4> QED  BY <4>1
      <3> QED  BY <3>6, <3>7, <3>8, <3>9
    <2>10. ASSUME NEW x
          PROVE  Contains(r, x) <=> Contains(q, x) /\ x # e
      <3>1. ASSUME NEW i \in 1..Len(q), q[i] = x, x # e
            PROVE  Contains(r, x)
        <4>1. CASE i < k
          BY <2>1, <2>8, <3>1, <4>1 DEF Contains
        <4>2. CASE i > k
          <5>1. i - 1 \in 1..(Len(q) - 1) /\ r[i - 1] = q[i]
            BY <2>1, <2>8, <4>2
          <5> QED  BY <2>8, <3>1, <5>1 DEF Contains
        <4> QED  BY <2>1, <3>1, <4>1, <4>2
      <3>2. ASSUME NEW i \in 1..(Len(q) - 1), r[i] = x
            PROVE  Contains(q, x) /\ x # e
        <4>1. PICK j \in 1..Len(q) : j # k /\ x = q[j]
          <5>1. CASE i < k
            BY <2>1, <2>8, <3>2, <5>1
          <5>2. CASE ~(i < k)
            <6>1. i + 1 \in 1..Len(q) /\ i + 1 # k /\ x = q[i + 1]
              BY <2>1, <2>8, <3>2, <5>2
            <6> QED  BY <6>1
          <5> QED  BY <5>1, <5>2
        <4> QED  BY <2>1, <4>1 DEF Contains, IsInjective
      <3> QED  BY <2>8, <3>1, <3>2 DEF Contains
    <2> QED  BY <2>8, <2>9, <2>10 DEF r
  <1> QED  BY <1>1, <1>2

\* RemoveFirst keeps the order of what is left.
LEMMA RemoveOrder ==
  ASSUME NEW S, NEW q \in Seq(S), IsInjective(q), NEW e,
         NEW i \in 1..Len(RemoveFirst(q, e)), NEW j \in 1..Len(RemoveFirst(q, e)), i < j
  PROVE  \E a, b \in 1..Len(q) :
           a < b /\ RemoveFirst(q, e)[i] = q[a] /\ RemoveFirst(q, e)[j] = q[b]
  <1> DEFINE r == RemoveFirst(q, e)
  <1>1. CASE ~Contains(q, e)
    <2>1. r = q
      BY <1>1 DEF RemoveFirst, Contains
    <2> QED  BY <2>1
  <1>2. CASE Contains(q, e)
    <2>1. PICK k \in 1..Len(q) : q[k] = e
      BY <1>2 DEF Contains
    <2> HIDE DEF r
    <2>2. /\ Len(r) = Len(q) - 1
          /\ \A l \in 1..(k - 1) : r[l] = q[l]
          /\ \A l \in k..(Len(q) - 1) : r[l] = q[l + 1]
      BY <2>1, RemoveEntries DEF r
    <2>3. Len(q) \in Nat /\ i \in 1..(Len(q) - 1) /\ j \in 1..(Len(q) - 1)
      BY <2>2 DEF r
    <2> DEFINE a == IF i < k THEN i ELSE i + 1
               b == IF j < k THEN j ELSE j + 1
    <2>4. a \in 1..Len(q) /\ b \in 1..Len(q) /\ a < b
      BY <2>1, <2>3
    <2>5. r[i] = q[a] /\ r[j] = q[b]
      BY <2>1, <2>2, <2>3
    <2> QED  BY <2>4, <2>5 DEF r
  <1> QED  BY <1>1, <1>2

\* A set of numbers that is not empty has a least one.
LEMMA LeastNat ==
  ASSUME NEW S, S \subseteq Nat, S # {}
  PROVE  Min(S) \in S /\ \A y \in S : Min(S) <= y
  <1> DEFINE R == OpToRel(<, Nat)
  <1>1. IsWellFoundedOn(R, Nat)
    BY NatLessThanWellFounded
  <1>2. \A y, x \in Nat : y < x => <<y, x>> \in R
    BY DEF OpToRel
  <1> HIDE DEF R
  <1>3. PICK x \in S : \A y \in S : ~(<<y, x>> \in R)
    BY <1>1, WFMin
  <1>4. ASSUME NEW y \in S
        PROVE  x <= y
    <2>1. x \in Nat /\ y \in Nat /\ ~(y < x)
      BY <1>2, <1>3, <1>4
    <2>. QED BY <2>1
  <1>5. \E z \in S : \A y \in S : z <= y
    BY <1>3, <1>4
  <1>. QED BY <1>5 DEF Min

\* The same facts for the set of a list's objects, and their number.
LEMMA RangeIs ==
  ASSUME NEW S, NEW q \in Seq(S)
  PROVE  /\ Range(q) \subseteq S
         /\ \A x : x \in Range(q) <=> Contains(q, x)
         /\ \A i \in 1..Len(q) : q[i] \in Range(q)
  BY DEF Range, Contains

\* Such a list is as long as its range is large.
LEMMA ListCount ==
  ASSUME NEW S, NEW q \in Seq(S), IsInjective(q)
  PROVE  IsFiniteSet(Range(q)) /\ Cardinality(Range(q)) = Len(q)
  <1>1. q \in Bijection(1..Len(q), Range(q))
    BY DEF Range, IsInjective, Bijection, Injection, Surjection, IsInjective
  <1>2. ExistsBijection(1..Len(q), Range(q))
    BY <1>1 DEF ExistsBijection
  <1>3. IsFiniteSet(1..Len(q)) /\ Cardinality(1..Len(q)) = Len(q)
    <2>1. Len(q) \in Nat
      OBVIOUS
    <2>. QED BY <2>1, FS_Interval
  <1>. QED BY <1>2, <1>3, FS_Bijection

\* The first k of a list.
LEMMA FrontOfList ==
  ASSUME NEW S, NEW q \in Seq(S), NEW k \in 0..Len(q)
  PROVE  /\ SubSeq(q, 1, k) \in Seq(S) /\ Len(SubSeq(q, 1, k)) = k
         /\ \A i \in 1..k : SubSeq(q, 1, k)[i] = q[i]
  OBVIOUS

\* Its first k entries and the rest share nothing and make up all of it.
LEMMA PartOfList ==
  ASSUME NEW S, NEW q \in Seq(S), IsInjective(q), NEW k \in 0..Len(q)
  PROVE  /\ SubSeq(q, 1, k) \in Seq(S) /\ IsInjective(SubSeq(q, 1, k))
         /\ SubSeq(q, k + 1, Len(q)) \in Seq(S) /\ IsInjective(SubSeq(q, k + 1, Len(q)))
         /\ Len(SubSeq(q, 1, k)) = k /\ Len(SubSeq(q, k + 1, Len(q))) = Len(q) - k
         /\ \A i \in 1..k : SubSeq(q, 1, k)[i] = q[i]
         /\ Range(SubSeq(q, 1, k)) \cup Range(SubSeq(q, k + 1, Len(q))) = Range(q)
         /\ Range(SubSeq(q, 1, k)) \cap Range(SubSeq(q, k + 1, Len(q))) = {}
  <1> DEFINE a == SubSeq(q, 1, k)
             b == SubSeq(q, k + 1, Len(q))
  <1>1. /\ a \in Seq(S) /\ Len(a) = k /\ DOMAIN a = 1..k
        /\ \A i \in 1..k : a[i] = q[i]
    OBVIOUS
  <1>2. /\ b \in Seq(S) /\ Len(b) = Len(q) - k /\ DOMAIN b = 1..(Len(q) - k)
        /\ \A i \in 1..(Len(q) - k) : b[i] = q[k + i]
    OBVIOUS
  <1>3. DOMAIN q = 1..Len(q) /\ Len(q) \in Nat /\ k \in Nat /\ k <= Len(q)
    OBVIOUS
  <1>4. \A i, j \in 1..Len(q) : q[i] = q[j] => i = j
    BY <1>3 DEF IsInjective
  <1> HIDE DEF a, b
  <1>5. IsInjective(a)
    BY <1>1, <1>3, <1>4 DEF IsInjective
  <1>6. IsInjective(b)
    <2> SUFFICES ASSUME NEW i \in 1..(Len(q) - k), NEW j \in 1..(Len(q) - k), b[i] = b[j]
                 PROVE  i = j
      BY <1>2 DEF IsInjective
    <2>1. k + i \in 1..Len(q) /\ k + j \in 1..Len(q) /\ q[k + i] = q[k + j]
      BY <1>2, <1>3
    <2>2. k + i = k + j
      BY <1>4, <2>1
    <2>. QED BY <1>3, <2>2
  <1>7. \A x \in Range(q) : x \in Range(a) \/ x \in Range(b)
    <2> SUFFICES ASSUME NEW i \in 1..Len(q)
                 PROVE  q[i] \in Range(a) \/ q[i] \in Range(b)
      BY <1>3 DEF Range
    <2>1. CASE i <= k
      BY <1>1, <1>3, <2>1 DEF Range
    <2>2. CASE ~(i <= k)
      <3>1. i - k \in 1..(Len(q) - k) /\ k + (i - k) = i
        BY <1>3, <2>2
      <3>2. b[i - k] = q[i]
        BY <1>2, <3>1
      <3>. QED BY <1>2, <3>1, <3>2 DEF Range
    <2>. QED BY <2>1, <2>2
  <1>8. Range(a) \subseteq Range(q)
    BY <1>1, <1>3 DEF Range
  <1>9. Range(b) \subseteq Range(q)
    <2> SUFFICES ASSUME NEW i \in 1..(Len(q) - k)
                 PROVE  b[i] \in Range(q)
      BY <1>2 DEF Range
    <2>1. k + i \in 1..Len(q)
      BY <1>3
    <2>. QED BY <1>2, <1>3, <2>1 DEF Range
  <1>10. Range(a) \cap Range(b) = {}
    <2> SUFFICES ASSUME NEW i \in 1..k, NEW j \in 1..(Len(q) - k), a[i] = b[j]
                 PROVE  FALSE
      BY <1>1, <1>2 DEF Range
    <2>1. i \in 1..Len(q) /\ k + j \in 1..Len(q) /\ i # k + j /\ q[i] = q[k + j]
      BY <1>1, <1>2, <1>3
    <2>. QED BY <1>4, <2>1
  <1>11. Range(a) \cup Range(b) = Range(q)
    BY <1>7, <1>8, <1>9
  <1>. QED BY <1>1, <1>2, <1>5, <1>6, <1>10, <1>11 DEF a, b

\* Two lists with nothing in common make one that holds nothing twice.
LEMMA JoinLists ==
  ASSUME NEW S, NEW p \in Seq(S), NEW q \in Seq(S)
  PROVE  /\ p \o q \in Seq(S) /\ Range(p \o q) = Range(p) \cup Range(q)
         /\ IsInjective(p) /\ IsInjective(q) /\ Range(p) \cap Range(q) = {} => IsInjective(p \o q)
  <1> DEFINE f == p \o q
             m == Len(p)
             n == Len(q)
  <1>1. /\ f \in Seq(S) /\ DOMAIN f = 1..(m + n) /\ m \in Nat /\ n \in Nat
        /\ DOMAIN p = 1..m /\ DOMAIN q = 1..n
        /\ \A i \in 1..m : f[i] = p[i]
        /\ \A i \in 1..n : f[m + i] = q[i]
    BY ConcatList
  <1> HIDE DEF f, m, n
  <1>2. ASSUME NEW i \in 1..(m + n), ~(i <= m)
        PROVE  i - m \in 1..n /\ f[i] = q[i - m]
    <2>1. i - m \in 1..n /\ m + (i - m) = i
      BY <1>1, <1>2
    <2>. QED BY <1>1, <2>1
  <1>0. ASSUME NEW i \in 1..(m + n), i <= m
        PROVE  i \in 1..m /\ f[i] = p[i]
    BY <1>0, <1>1
  <1>3. Range(f) \subseteq Range(p) \cup Range(q)
    <2> SUFFICES ASSUME NEW i \in 1..(m + n)
                 PROVE  f[i] \in Range(p) \cup Range(q)
      BY <1>1 DEF Range
    <2>1. CASE i <= m
      BY <1>0, <1>1, <2>1 DEF Range
    <2>2. CASE ~(i <= m)
      BY <1>1, <1>2, <2>2 DEF Range
    <2>. QED BY <2>1, <2>2
  <1>4. Range(p) \subseteq Range(f)
    BY <1>1 DEF Range
  <1>5. Range(q) \subseteq Range(f)
    <2> SUFFICES ASSUME NEW i \in 1..n
                 PROVE  q[i] \in Range(f)
      BY <1>1 DEF Range
    <2>1. m + i \in 1..(m + n) /\ f[m + i] = q[i]
      BY <1>1
    <2>. QED BY <1>1, <2>1 DEF Range
  <1>6. ASSUME IsInjective(p), IsInjective(q), Range(p) \cap Range(q) = {}
        PROVE  IsInjective(f)
    <2> SUFFICES ASSUME NEW i \in 1..(m + n), NEW j \in 1..(m + n), f[i] = f[j]
                 PROVE  i = j
      BY <1>1 DEF IsInjective
    <2>1. CASE i <= m /\ j <= m
      BY <1>0, <1>1, <1>6, <2>1 DEF IsInjective
    <2>2. CASE ~(i <= m) /\ ~(j <= m)
      <3>1. i - m \in DOMAIN q /\ j - m \in DOMAIN q /\ q[i - m] = q[j - m]
        BY <1>1, <1>2, <2>2
      <3>2. i - m = j - m
        BY <1>6, <3>1, Zenon DEF IsInjective
      <3>. QED BY <1>1, <3>2
    <2>3. CASE i <= m /\ ~(j <= m)
      <3>1. f[i] \in Range(p) /\ f[j] \in Range(q)
        BY <1>0, <1>1, <1>2, <2>3 DEF Range
      <3>. QED BY <1>6, <3>1
    <2>4. CASE ~(i <= m) /\ j <= m
      <3>1. f[j] \in Range(p) /\ f[i] \in Range(q)
        BY <1>0, <1>1, <1>2, <2>4 DEF Range
      <3>. QED BY <1>6, <3>1
    <2>. QED BY <2>1, <2>2, <2>3, <2>4
  <1>. QED BY <1>1, <1>3, <1>4, <1>5, <1>6 DEF f

-----------------------------------------------------------------------------
\* Products of natural numbers grow with a factor.
LEMMA TimesMono ==
  ASSUME NEW n \in Nat, NEW k \in Nat, NEW l \in Nat, k <= l
  PROVE  k * n <= l * n
  <1>1. PICK d \in Nat : l = k + d
    <2>1. l - k \in Nat /\ l = k + (l - k)
      OBVIOUS
    <2>. QED BY <2>1
  <1>2. l * n = k * n + d * n
    BY <1>1
  <1>3. d * n \in Nat /\ k * n \in Nat
    OBVIOUS
  <1>. QED BY <1>2, <1>3

\* Quotient and remainder.
LEMMA DivMod ==
  ASSUME NEW a \in Nat, NEW u \in Nat \ {0}
  PROVE  /\ a \div u \in Nat /\ a % u \in Nat /\ a % u < u
         /\ a = (a \div u) * u + (a % u)
  <1>1. a % u \in Nat /\ a % u < u
    OBVIOUS
  <1>2. a = u * (a \div u) + (a % u)
    OBVIOUS
  <1>3. a \div u \in Nat
    OBVIOUS
  <1>4. u * (a \div u) = (a \div u) * u
    <2> DEFINE d == a \div u
    <2>1. d \in Nat
      BY <1>3
    <2> HIDE DEF d
    <2>2. u * d = d * u
      BY <2>1
    <2>. QED BY <2>2 DEF d
  <1>. QED BY <1>1, <1>2, <1>3, <1>4

\* A number below k * n is in one of the first k rows of n.
LEMMA DivBelow ==
  ASSUME NEW n \in Nat \ {0}, NEW k \in Nat, NEW a \in Nat, a < k * n
  PROVE  a \div n \in Nat /\ a \div n < k
  <1> DEFINE d == a \div n
  <1>1. d \in Nat /\ a % n \in Nat /\ a = d * n + (a % n)
    BY DivMod
  <1> HIDE DEF d
  <1>2. ASSUME k <= d
        PROVE  FALSE
    <2>1. k * n <= d * n
      BY <1>1, <1>2, TimesMono
    <2>2. d * n \in Nat /\ k * n \in Nat
      BY <1>1
    <2>. QED BY <1>1, <2>1, <2>2
  <1>3. d < k
    BY <1>1, <1>2
  <1>. QED BY <1>1, <1>3 DEF d

\* Counting up from 0 one gets to every number.
LEMMA CountUp ==
  ASSUME NEW n \in Nat, NEW T, 0 \in T, \A k \in 1..n : k - 1 \in T => k \in T
  PROVE  n \in T
  <1> DEFINE S == {k \in 0..n : k \notin T}
  <1> SUFFICES ASSUME S # {}
               PROVE  FALSE
    OBVIOUS
  <1>1. S \subseteq Nat
    OBVIOUS
  <1>2. PICK k \in S : \A y \in S : k <= y
    BY <1>1, LeastNat
  <1>3. k \in 1..n /\ k - 1 \in 0..n /\ ~(k <= k - 1)
    BY <1>2
  <1> QED  BY <1>2, <1>3
============================================================================
