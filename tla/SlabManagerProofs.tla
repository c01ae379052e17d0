------------------------- MODULE SlabManagerProofs -------------------------
(***************************************************************************)
(* Proofs about the slab manager, for any number of slabs, buffers,        *)
(* segments and references.                                                *)
(***************************************************************************)
EXTENDS SlabManager, CommonFacts

(***************************************************************************)
(* What the list operations do to a list that holds nothing twice.         *)
(***************************************************************************)
\* A run of consecutive numbers appended to a list of smaller ones.
LEMMA GrowList ==
  ASSUME NEW S \in SUBSET Int, NEW q \in Seq(S), IsInjective(q),
         NEW g \in Seq(S), NEW first \in Int,
         \A i \in 1..Len(g) : g[i] = first + i - 1,
         \A i \in 1..Len(q) : q[i] < first
  PROVE  /\ q \o g \in Seq(S) /\ IsInjective(q \o g)
         /\ \A x \in Int :
              Contains(q \o g, x) <=> Contains(q, x) \/ (first <= x /\ x < first + Len(g))
  <1> DEFINE f == q \o g
             m == Len(q)
             n == Len(g)
  <1>1. /\ f \in Seq(S) /\ Len(f) = m + n /\ DOMAIN f = 1..(m + n)
        /\ \A i \in 1..m : f[i] = q[i]
        /\ \A i \in 1..n : f[m + i] = g[i]
    BY ConcatList
  <1>2. /\ m \in Nat /\ n \in Nat
        /\ \A i \in 1..m : q[i] \in Int
        /\ \A i, j \in 1..m : q[i] = q[j] => i = j
    <2>1. m \in Nat /\ n \in Nat /\ DOMAIN q = 1..m
      OBVIOUS
    <2>2. \A i \in 1..m : q[i] \in S
      OBVIOUS
    <2>3. \A x \in S : x \in Int
      OBVIOUS
    <2>4. \A i, j \in 1..m : q[i] = q[j] => i = j
      BY <2>1 DEF IsInjective
    <2> QED  BY <2>1, <2>2, <2>3, <2>4
  <1> HIDE DEF f, m, n
  <1>3. \A i \in 1..m : f[i] \in Int /\ f[i] < first
    BY <1>1, <1>2 DEF m
  <1>4. \A i \in (m + 1)..(m + n) : f[i] = first + (i - m) - 1
    <2> TAKE i \in (m + 1)..(m + n)
    <2>1. i - m \in 1..n /\ m + (i - m) = i
      BY <1>2
    <2>2. f[i] = g[i - m]
      BY <1>1, <2>1
    <2> QED  BY <2>1, <2>2 DEF n
  <1>5. IsInjective(f)
    <2> SUFFICES ASSUME NEW i \in 1..(m + n), NEW j \in 1..(m + n), f[i] = f[j]
                 PROVE  i = j
      BY <1>1 DEF IsInjective
    <2>1. CASE i <= m /\ j <= m
      <3>1. f[i] = q[i] /\ f[j] = q[j] /\ i \in 1..m /\ j \in 1..m
        BY <1>1, <1>2, <2>1
      <3>2. q[i] = q[j]
        BY <3>1
      <3> QED  BY <1>2, <3>1, <3>2, Zenon
    <2>2. CASE i <= m /\ j > m
      <3>1. f[i] \in Int /\ f[i] < first
        BY <1>2, <1>3, <2>2
      <3>2. f[j] = first + (j - m) - 1
        BY <1>2, <1>4, <2>2
      <3> QED  BY <1>2, <2>2, <3>1, <3>2
    <2>3. CASE i > m /\ j <= m
      <3>1. f[j] \in Int /\ f[j] < first
        BY <1>2, <1>3, <2>3
      <3>2. f[i] = first + (i - m) - 1
        BY <1>2, <1>4, <2>3
      <3> QED  BY <1>2, <2>3, <3>1, <3>2
    <2>4. CASE i > m /\ j > m
      <3>1. f[i] = first + (i - m) - 1 /\ f[j] = first + (j - m) - 1
        BY <1>2, <1>4, <2>4
      <3>2. first + (i - m) - 1 = first + (j - m) - 1
        BY <3>1
      <3>3. i \in Int /\ j \in Int /\ m \in Int
        BY <1>2
      <3> QED  BY <3>2, <3>3
    <2> QED  BY <1>2, <2>1, <2>2, <2>3, <2>4
  <1>6. ASSUME NEW x \in Int
        PROVE  Contains(f, x) <=> Contains(q, x) \/ (first <= x /\ x < first + n)
    <2>1. ASSUME NEW i \in 1..(m + n), f[i] = x
          PROVE  Contains(q, x) \/ (first <= x /\ x < first + n)
      <3>1. CASE i <= m
        BY <1>1, <1>2, <2>1, <3>1 DEF Contains, m
      <3>2. CASE i > m
        <4>1. x = first + (i - m) - 1
          BY <1>2, <1>4, <2>1, <3>2
        <4> QED  BY <1>2, <3>2, <4>1
      <3> QED  BY <1>2, <3>1, <3>2
    <2>2. ASSUME NEW i \in 1..m, q[i] = x
          PROVE  Contains(f, x)
      <3>1. i \in 1..Len(f) /\ f[i] = x
        BY <1>1, <1>2, <2>2
      <3> QED  BY <3>1 DEF Contains
    <2>3. ASSUME first <= x, x < first + n
          PROVE  Contains(f, x)
      <3> DEFINE i == m + (x - first + 1)
      <3>1. i \in (m + 1)..(m + n) /\ first + (i - m) - 1 = x /\ i \in 1..(m + n)
        BY <1>2, <2>3
      <3> HIDE DEF i
      <3>2. i \in 1..Len(f) /\ f[i] = x
        BY <1>1, <1>4, <3>1
      <3> QED  BY <3>2 DEF Contains
    <2>4. Contains(f, x) => \E i \in 1..(m + n) : f[i] = x
      BY <1>1 DEF Contains
    <2>5. Contains(q, x) => \E i \in 1..m : q[i] = x
      BY DEF Contains, m
    <2> QED  BY <2>1, <2>2, <2>3, <2>4, <2>5
  <1> QED  BY <1>1, <1>5, <1>6 DEF f, n

-----------------------------------------------------------------------------
(***************************************************************************)
(* The number of slabs: buffers are added whole.                           *)
(***************************************************************************)
LEMMA SlabCount ==
  ASSUME NEW m \in 0..MaxBuffers, NEW n \in 0..MaxBuffers, m <= n
  PROVE  /\ SlabsPerBuf * m \in Nat
         /\ SlabsPerBuf * (n - m) \in Nat
         /\ SlabsPerBuf * m + SlabsPerBuf * (n - m) = SlabsPerBuf * n
         /\ SlabsPerBuf * n <= SlabsPerBuf * MaxBuffers
  <1>1. \A a, b \in Nat : a * b \in Nat
    OBVIOUS
  <1>2. \A a, b, c \in Nat : b <= c => a * b + a * (c - b) = a * c
    OBVIOUS
  <1>3. /\ SlabsPerBuf \in Nat /\ MaxBuffers \in Nat /\ m \in Nat /\ n \in Nat
        /\ n - m \in Nat /\ MaxBuffers - n \in Nat
    BY BufferAssumption
  <1>4. /\ SlabsPerBuf * m \in Nat /\ SlabsPerBuf * (n - m) \in Nat
        /\ SlabsPerBuf * n \in Nat /\ SlabsPerBuf * (MaxBuffers - n) \in Nat
    BY <1>1, <1>3
  <1>5. SlabsPerBuf * m + SlabsPerBuf * (n - m) = SlabsPerBuf * n
    BY <1>2, <1>3
  <1>6. SlabsPerBuf * n + SlabsPerBuf * (MaxBuffers - n) = SlabsPerBuf * MaxBuffers
    BY <1>2, <1>3
  <1> QED  BY <1>4, <1>5, <1>6

-----------------------------------------------------------------------------
(***************************************************************************)
(* Every operation keeps the state well typed and its lists matched.       *)
(***************************************************************************)
Matched(sm) == sm \in SlabState /\ ListsMatch(sm)

\* GetFreeSlabs: the slab that a producer is given was free.
LEMMA GetFreeSlabMatched ==
  ASSUME NEW sm, Matched(sm), sm.free # <<>>
  PROVE  Matched(GetFreeSlab(sm))
  <1> DEFINE n == GetFreeSlab(sm)
             s == Head(sm.free)
             f == Tail(sm.free)
             h == sm.held \cup {s}
             k == sm.heldRefcnt[s] + 1
  <1>1. sm \in SlabState /\ ListsDistinct(sm) /\ ListsAgree(sm) /\ InUseExists(sm)
    BY DEF Matched, ListsMatch
  <1>2. sm.free \in Seq(Slabs) /\ IsInjective(sm.free)
    BY <1>1 DEF SlabState, ListsDistinct
  <1>3. /\ s \in Slabs /\ Contains(sm.free, s)
        /\ f \in Seq(Slabs) /\ IsInjective(f)
        /\ \A x : Contains(f, x) <=> Contains(sm.free, x) /\ x # s
    BY <1>2, TailList
  <1>4. h \in SUBSET Slabs /\ k \in Nat
    BY <1>1, <1>3 DEF SlabState
  <1>5. n = [sm EXCEPT !.free = f, !.held = h, !.heldRefcnt[s] = k]
    BY DEF GetFreeSlab
  <1> HIDE DEF n, s, f, h, k
  <1>6. /\ n \in SlabState
        /\ n.numBuffers = sm.numBuffers /\ n.wanted = sm.wanted /\ n.wantedSegs = sm.wantedSegs
        /\ n.free = f /\ n.held = h
        /\ n.heldRefcnt = [sm.heldRefcnt EXCEPT ![s] = k]
    BY <1>1, <1>3, <1>4, <1>5 DEF SlabState
  <1>7. /\ NumSlabs(n) = NumSlabs(sm)
        /\ Held(n, s)
        /\ \A t \in Slabs : (t # s => (Held(n, t) <=> Held(sm, t))) /\ (Wanted(n, t) <=> Wanted(sm, t))
    BY <1>1, <1>3, <1>6 DEF NumSlabs, Held, Wanted, SlabState, k
  <1>8. ListsDistinct(n)
    BY <1>1, <1>3, <1>6 DEF ListsDistinct
  <1>9. ListsAgree(n)
    BY <1>1, <1>3, <1>6, <1>7 DEF ListsAgree, h
  <1>10. InUseExists(n)
    BY <1>1, <1>3, <1>7 DEF InUseExists, ListsAgree
  <1> QED  BY <1>6, <1>8, <1>9, <1>10 DEF Matched, ListsMatch, n

\* IncrementHeldRefcnt: a wanted slab leaves wantedSlabs when it is held again.
LEMMA IncrementMatched ==
  ASSUME NEW sm, Matched(sm), NEW s \in Slabs, ~IncrementThrows(sm, s)
  PROVE  Matched(IncrementHeldRefcnt(sm, s))
  <1> DEFINE n == IncrementHeldRefcnt(sm, s)
             w == IF Held(sm, s) THEN sm.wanted ELSE RemoveFirst(sm.wanted, s)
             h == sm.held \cup {s}
             k == sm.heldRefcnt[s] + 1
  <1>1. sm \in SlabState /\ ListsDistinct(sm) /\ ListsAgree(sm) /\ InUseExists(sm)
    BY DEF Matched, ListsMatch
  <1>2. sm.wanted \in Seq(Slabs) /\ IsInjective(sm.wanted)
    BY <1>1 DEF SlabState, ListsDistinct
  <1>3. /\ RemoveFirst(sm.wanted, s) \in Seq(Slabs) /\ IsInjective(RemoveFirst(sm.wanted, s))
        /\ \A x : Contains(RemoveFirst(sm.wanted, s), x) <=> Contains(sm.wanted, x) /\ x # s
    BY <1>2, RemoveList
  <1>4. /\ w \in Seq(Slabs) /\ IsInjective(w)
        /\ \A x : Contains(w, x) <=> Contains(sm.wanted, x) /\ x # s
    BY <1>1, <1>2, <1>3 DEF ListsAgree
  <1>5. h \in SUBSET Slabs /\ k \in Nat
    BY <1>1 DEF SlabState
  <1>6. n = [sm EXCEPT !.wanted = w, !.held = h, !.heldRefcnt[s] = k]
    BY DEF IncrementHeldRefcnt
  <1> HIDE DEF n, w, h, k
  <1>7. /\ n \in SlabState
        /\ n.numBuffers = sm.numBuffers /\ n.wanted = w /\ n.wantedSegs = sm.wantedSegs
        /\ n.free = sm.free /\ n.held = h
        /\ n.heldRefcnt = [sm.heldRefcnt EXCEPT ![s] = k]
    BY <1>1, <1>4, <1>5, <1>6 DEF SlabState
  <1>8. /\ NumSlabs(n) = NumSlabs(sm)
        /\ Held(n, s)
        /\ \A t \in Slabs : (t # s => (Held(n, t) <=> Held(sm, t))) /\ (Wanted(n, t) <=> Wanted(sm, t))
    BY <1>1, <1>7 DEF NumSlabs, Held, Wanted, SlabState, k
  <1>9. ListsDistinct(n)
    BY <1>1, <1>4, <1>7 DEF ListsDistinct
  <1>10. ListsAgree(n)
    BY <1>1, <1>4, <1>7, <1>8 DEF ListsAgree, IncrementThrows, h
  <1>11. InUseExists(n)
    BY <1>1, <1>8 DEF InUseExists, IncrementThrows
  <1> QED  BY <1>7, <1>9, <1>10, <1>11 DEF Matched, ListsMatch, n

\* DecrementHeldRefcnt: with its last reference gone a slab joins one list, the right one.
LEMMA DecrementMatched ==
  ASSUME NEW sm, Matched(sm), NEW s \in Slabs, NEW amount \in Nat \ {0},
         ~DecrementThrows(sm, s, amount)
  PROVE  Matched(DecrementHeldRefcnt(sm, s, amount))
  <1> DEFINE n == DecrementHeldRefcnt(sm, s, amount)
             unheld == sm.heldRefcnt[s] = amount
             w == IF unheld /\ Wanted(sm, s) THEN Append(sm.wanted, s) ELSE sm.wanted
             f == IF unheld /\ ~Wanted(sm, s) THEN Append(sm.free, s) ELSE sm.free
             h == IF unheld THEN sm.held \ {s} ELSE sm.held
             k == sm.heldRefcnt[s] - amount
  <1>1. sm \in SlabState /\ ListsDistinct(sm) /\ ListsAgree(sm) /\ InUseExists(sm)
    BY DEF Matched, ListsMatch
  <1>2. /\ sm.wanted \in Seq(Slabs) /\ IsInjective(sm.wanted)
        /\ sm.free \in Seq(Slabs) /\ IsInjective(sm.free)
    BY <1>1 DEF SlabState, ListsDistinct
  <1>3. Held(sm, s) /\ ~Contains(sm.wanted, s) /\ ~Contains(sm.free, s) /\ s < NumSlabs(sm)
    BY <1>1 DEF ListsAgree, InUseExists, DecrementThrows, Held, SlabState
  <1>4. /\ Append(sm.wanted, s) \in Seq(Slabs) /\ IsInjective(Append(sm.wanted, s))
        /\ \A x : Contains(Append(sm.wanted, s), x) <=> Contains(sm.wanted, x) \/ x = s
    BY <1>2, <1>3, AppendList
  <1>5. /\ Append(sm.free, s) \in Seq(Slabs) /\ IsInjective(Append(sm.free, s))
        /\ \A x : Contains(Append(sm.free, s), x) <=> Contains(sm.free, x) \/ x = s
    BY <1>2, <1>3, AppendList
  <1>6. /\ w \in Seq(Slabs) /\ IsInjective(w)
        /\ \A x : Contains(w, x) <=> Contains(sm.wanted, x) \/ (x = s /\ unheld /\ Wanted(sm, s))
    BY <1>2, <1>4
  <1>7. /\ f \in Seq(Slabs) /\ IsInjective(f)
        /\ \A x : Contains(f, x) <=> Contains(sm.free, x) \/ (x = s /\ unheld /\ ~Wanted(sm, s))
    BY <1>2, <1>5
  <1>8. h \in SUBSET Slabs /\ k \in Nat
    BY <1>1 DEF SlabState, DecrementThrows
  <1>9. n = [sm EXCEPT !.heldRefcnt[s] = k, !.held = h, !.wanted = w, !.free = f]
    BY DEF DecrementHeldRefcnt
  <1> HIDE DEF n, w, f, h, k
  <1>10. /\ n \in SlabState
        /\ n.numBuffers = sm.numBuffers /\ n.wanted = w /\ n.wantedSegs = sm.wantedSegs
        /\ n.free = f /\ n.held = h
        /\ n.heldRefcnt = [sm.heldRefcnt EXCEPT ![s] = k]
    BY <1>1, <1>6, <1>7, <1>8, <1>9 DEF SlabState
  <1>11. /\ NumSlabs(n) = NumSlabs(sm)
         /\ Held(n, s) <=> ~unheld
         /\ \A t \in Slabs : (t # s => (Held(n, t) <=> Held(sm, t))) /\ (Wanted(n, t) <=> Wanted(sm, t))
    BY <1>1, <1>8, <1>10 DEF NumSlabs, Held, Wanted, SlabState, k
  <1> HIDE DEF unheld
  <1>12. ListsDistinct(n)
    BY <1>1, <1>6, <1>7, <1>10 DEF ListsDistinct
  <1>13. ListsAgree(n)
    BY <1>1, <1>3, <1>6, <1>7, <1>10, <1>11 DEF ListsAgree, h
  <1>14. InUseExists(n)
    BY <1>1, <1>3, <1>11 DEF InUseExists
  <1> QED  BY <1>10, <1>12, <1>13, <1>14 DEF Matched, ListsMatch, n

\* GetWantedSegment: only a slab in use gains wanted segments.
LEMMA GetWantedMatched ==
  ASSUME NEW sm, Matched(sm), NEW s \in Slabs, NEW seg \in Segments,
         ~GetWantedThrows(sm, s), ~Contains(sm.wantedSegs[s], seg)
  PROVE  Matched(GetWantedSegment(sm, seg, s))
  <1> DEFINE n == GetWantedSegment(sm, seg, s)
             g == Append(sm.wantedSegs[s], seg)
  <1>1. sm \in SlabState /\ ListsDistinct(sm) /\ ListsAgree(sm) /\ InUseExists(sm)
    BY DEF Matched, ListsMatch
  <1>2. sm.wantedSegs[s] \in Seq(Segments) /\ IsInjective(sm.wantedSegs[s])
    BY <1>1 DEF SlabState, ListsDistinct
  <1>3. g \in Seq(Segments) /\ IsInjective(g)
    BY <1>2, AppendList
  <1>4. g # <<>>
    BY <1>2
  <1>5. n = [sm EXCEPT !.wantedSegs[s] = g]
    BY DEF GetWantedSegment
  <1> HIDE DEF n, g
  <1>6. /\ n \in SlabState
        /\ n.numBuffers = sm.numBuffers /\ n.wanted = sm.wanted /\ n.free = sm.free
        /\ n.held = sm.held /\ n.heldRefcnt = sm.heldRefcnt
        /\ n.wantedSegs = [sm.wantedSegs EXCEPT ![s] = g]
    BY <1>1, <1>3, <1>5 DEF SlabState
  <1>7. /\ NumSlabs(n) = NumSlabs(sm)
        /\ Wanted(n, s)
        /\ \A t \in Slabs : (Held(n, t) <=> Held(sm, t)) /\ (t # s => (Wanted(n, t) <=> Wanted(sm, t)))
    BY <1>1, <1>4, <1>6 DEF NumSlabs, Held, Wanted, SlabState
  <1>8. ListsDistinct(n)
    BY <1>1, <1>3, <1>6 DEF ListsDistinct, SlabState
  <1>9. ListsAgree(n)
    BY <1>1, <1>6, <1>7 DEF ListsAgree, GetWantedThrows
  <1>10. InUseExists(n)
    BY <1>1, <1>7 DEF InUseExists, GetWantedThrows
  <1> QED  BY <1>6, <1>8, <1>9, <1>10 DEF Matched, ListsMatch, n

\* ReleaseWantedSegment: the last wanted segment of a slab nobody holds frees it.
LEMMA ReleaseWantedMatched ==
  ASSUME NEW sm, Matched(sm), NEW s \in Slabs, NEW seg \in Segments,
         Contains(sm.wantedSegs[s], seg)
  PROVE  Matched(ReleaseWantedSegment(sm, seg, s))
  <1> DEFINE n == ReleaseWantedSegment(sm, seg, s)
             g == RemoveFirst(sm.wantedSegs[s], seg)
             freed == g = <<>> /\ ~Held(sm, s)
             w == IF freed THEN RemoveFirst(sm.wanted, s) ELSE sm.wanted
             f == IF freed THEN Append(sm.free, s) ELSE sm.free
  <1>1. sm \in SlabState /\ ListsDistinct(sm) /\ ListsAgree(sm) /\ InUseExists(sm)
    BY DEF Matched, ListsMatch
  <1>2. /\ sm.wantedSegs[s] \in Seq(Segments) /\ IsInjective(sm.wantedSegs[s])
        /\ sm.wanted \in Seq(Slabs) /\ IsInjective(sm.wanted)
        /\ sm.free \in Seq(Slabs) /\ IsInjective(sm.free)
    BY <1>1 DEF SlabState, ListsDistinct
  <1>3. g \in Seq(Segments) /\ IsInjective(g)
    BY <1>2, RemoveList
  <1>4. Wanted(sm, s) /\ ~Contains(sm.free, s) /\ s < NumSlabs(sm)
    BY <1>1, <1>2 DEF ListsAgree, InUseExists, Wanted, Contains
  <1>5. /\ RemoveFirst(sm.wanted, s) \in Seq(Slabs) /\ IsInjective(RemoveFirst(sm.wanted, s))
        /\ \A x : Contains(RemoveFirst(sm.wanted, s), x) <=> Contains(sm.wanted, x) /\ x # s
    BY <1>2, RemoveList
  <1>6. /\ Append(sm.free, s) \in Seq(Slabs) /\ IsInjective(Append(sm.free, s))
        /\ \A x : Contains(Append(sm.free, s), x) <=> Contains(sm.free, x) \/ x = s
    BY <1>2, <1>4, AppendList
  <1>7. n = [sm EXCEPT !.wantedSegs[s] = g, !.wanted = w, !.free = f]
    BY DEF ReleaseWantedSegment
  <1> HIDE DEF g, freed
  <1>8. /\ w \in Seq(Slabs) /\ IsInjective(w)
        /\ \A x : Contains(w, x) <=> Contains(sm.wanted, x) /\ ~(x = s /\ freed)
    BY <1>2, <1>5
  <1>9. /\ f \in Seq(Slabs) /\ IsInjective(f)
        /\ \A x : Contains(f, x) <=> Contains(sm.free, x) \/ (x = s /\ freed)
    BY <1>2, <1>6
  <1> HIDE DEF n, w, f
  <1>10. /\ n \in SlabState
         /\ n.numBuffers = sm.numBuffers /\ n.wanted = w /\ n.free = f
         /\ n.held = sm.held /\ n.heldRefcnt = sm.heldRefcnt
         /\ n.wantedSegs = [sm.wantedSegs EXCEPT ![s] = g]
    BY <1>1, <1>3, <1>7, <1>8, <1>9 DEF SlabState
  <1>11. /\ NumSlabs(n) = NumSlabs(sm)
         /\ Wanted(n, s) <=> g # <<>>
         /\ \A t \in Slabs : (Held(n, t) <=> Held(sm, t)) /\ (t # s => (Wanted(n, t) <=> Wanted(sm, t)))
    BY <1>1, <1>10 DEF NumSlabs, Held, Wanted, SlabState
  <1>12. ListsDistinct(n)
    BY <1>1, <1>3, <1>8, <1>9, <1>10 DEF ListsDistinct, SlabState
  <1>13. ListsAgree(n)
    BY <1>1, <1>4, <1>8, <1>9, <1>10, <1>11 DEF ListsAgree, freed
  <1>14. InUseExists(n)
    BY <1>1, <1>4, <1>11 DEF InUseExists
  <1> QED  BY <1>10, <1>12, <1>13, <1>14 DEF Matched, ListsMatch, n

\* NumBuffers: the new slabs are numbered on, and free.
LEMMA NumBuffersMatched ==
  ASSUME NEW sm, Matched(sm), NEW n \in 0..MaxBuffers
  PROVE  Matched(NumBuffers(sm, n))
  <1> DEFINE m   == NumBuffers(sm, n)
             old == NumSlabs(sm)
             cnt == SlabsPerBuf * (n - sm.numBuffers)
             new == [i \in 1..cnt |-> old + i - 1]
             f   == sm.free \o new
  <1>1. sm \in SlabState /\ ListsDistinct(sm) /\ ListsAgree(sm) /\ InUseExists(sm)
    BY DEF Matched, ListsMatch
  <1>2. CASE n <= sm.numBuffers
    BY <1>2 DEF NumBuffers
  <1>3. CASE n > sm.numBuffers
    <2>1. sm.numBuffers \in 0..MaxBuffers
      BY <1>1 DEF SlabState
    <2>2. /\ old \in Nat /\ cnt \in Nat /\ old + cnt = SlabsPerBuf * n
          /\ SlabsPerBuf * n <= SlabsPerBuf * MaxBuffers
      BY <1>3, <2>1, SlabCount DEF NumSlabs
    <2>3. m = [sm EXCEPT !.numBuffers = n, !.free = f]
      <3>1. ~(n <= sm.numBuffers)
        BY <1>3, <2>1
      <3> QED  BY <3>1 DEF NumBuffers
    <2> HIDE DEF cnt, old, m
    <2>4. SlabsPerBuf * MaxBuffers \in Nat /\ Slabs \in SUBSET Int
      BY <2>1, SlabCount, BufferAssumption DEF Slabs
    <2>5. /\ new \in Seq(Slabs) /\ Len(new) = cnt
          /\ \A i \in 1..cnt : new[i] = old + i - 1
      <3>1. ASSUME NEW i \in 1..cnt
            PROVE  old + i - 1 \in Slabs
        BY <2>2, <2>4 DEF Slabs
      <3>2. new \in [1..cnt -> Slabs]
        BY <3>1
      <3>3. \A i \in 1..cnt : new[i] = old + i - 1
        OBVIOUS
      <3> HIDE DEF new
      <3> QED  BY <2>2, <3>2, <3>3, FunctionList
    <2> HIDE DEF new
    <2>6. sm.free \in Seq(Slabs) /\ IsInjective(sm.free)
      BY <1>1 DEF SlabState, ListsDistinct
    <2>7. \A i \in 1..Len(sm.free) : sm.free[i] < old
      <3> TAKE i \in 1..Len(sm.free)
      <3>1. sm.free[i] \in Slabs /\ Contains(sm.free, sm.free[i])
        BY <2>6 DEF Contains
      <3> QED  BY <1>1, <3>1 DEF ListsAgree, old
    <2>8. /\ f \in Seq(Slabs) /\ IsInjective(f)
          /\ \A x \in Int :
               Contains(f, x) <=> Contains(sm.free, x) \/ (old <= x /\ x < old + Len(new))
      <3>1. old \in Int /\ \A i \in 1..Len(new) : new[i] = old + i - 1
        BY <2>2, <2>5
      <3> QED  BY <2>4, <2>5, <2>6, <2>7, <3>1, GrowList
    <2> HIDE DEF f
    <2>9. \A x \in Slabs : Contains(f, x) <=> Contains(sm.free, x) \/ (old <= x /\ x < old + cnt)
      BY <2>4, <2>5, <2>8
    <2>10. /\ m \in SlabState
           /\ m.numBuffers = n /\ m.free = f
           /\ m.wanted = sm.wanted /\ m.held = sm.held
           /\ m.heldRefcnt = sm.heldRefcnt /\ m.wantedSegs = sm.wantedSegs
      BY <1>1, <2>3, <2>8 DEF SlabState
    <2>11. /\ NumSlabs(sm) = old /\ NumSlabs(m) = old + cnt
           /\ \A t \in Slabs : (Held(m, t) <=> Held(sm, t)) /\ (Wanted(m, t) <=> Wanted(sm, t))
      BY <2>2, <2>10 DEF NumSlabs, Held, Wanted, old
    <2>12. ListsDistinct(m)
      BY <1>1, <2>8, <2>10 DEF ListsDistinct
    <2>13. InUseExists(m)
      <3> SUFFICES ASSUME NEW t \in Slabs, Held(m, t) \/ Wanted(m, t)
                   PROVE  t < old + cnt
        BY <2>11 DEF InUseExists
      <3>1. t < old
        BY <1>1, <2>11 DEF InUseExists
      <3> QED  BY <2>2, <2>4, <3>1 DEF Slabs
    <2>14. ListsAgree(m)
      <3> SUFFICES ASSUME NEW t \in Slabs
                   PROVE  /\ Contains(f, t) <=> t < old + cnt /\ ~Held(sm, t) /\ ~Wanted(sm, t)
                          /\ t \in sm.held <=> Held(sm, t)
                          /\ Contains(sm.wanted, t) <=> ~Held(sm, t) /\ Wanted(sm, t)
        BY <2>10, <2>11 DEF ListsAgree
      <3>1. Contains(sm.free, t) <=> t < old /\ ~Held(sm, t) /\ ~Wanted(sm, t)
        BY <1>1, <2>11 DEF ListsAgree
      <3>2. Held(sm, t) \/ Wanted(sm, t) => t < old
        BY <1>1, <2>11 DEF InUseExists
      <3>3. t < old \/ old <= t
        BY <2>2, <2>4 DEF Slabs
      <3>4. t < old => t < old + cnt /\ ~(old <= t)
        BY <2>2, <2>4 DEF Slabs
      <3>5. Contains(f, t) <=> t < old + cnt /\ ~Held(sm, t) /\ ~Wanted(sm, t)
        BY <2>9, <3>1, <3>2, <3>3, <3>4
      <3> QED  BY <1>1, <3>5 DEF ListsAgree
    <2> QED  BY <2>10, <2>12, <2>13, <2>14 DEF Matched, ListsMatch, m
  <1>4. n <= sm.numBuffers \/ n > sm.numBuffers
    BY <1>1 DEF SlabState
  <1> QED  BY <1>2, <1>3, <1>4

\* GetSlabReservation and ReleaseSlabReservation touch no list, and stay in range.
LEMMA ReservationMatched ==
  ASSUME NEW sm, Matched(sm), NEW n \in 0..(UIntRange - 1)
  PROVE  Matched(GetSlabReservation(sm, n)) /\ Matched(ReleaseSlabReservation(sm, n))
  <1>1. sm \in SlabState /\ ListsDistinct(sm) /\ ListsAgree(sm) /\ InUseExists(sm)
    BY DEF Matched, ListsMatch
  <1>2. ASSUME NEW r \in 0..(UIntRange - 1)
        PROVE  Matched([sm EXCEPT !.reserved = r])
    <2> DEFINE m == [sm EXCEPT !.reserved = r]
    <2>1. /\ m \in SlabState
          /\ m.numBuffers = sm.numBuffers /\ m.free = sm.free /\ m.wanted = sm.wanted
          /\ m.held = sm.held /\ m.heldRefcnt = sm.heldRefcnt /\ m.wantedSegs = sm.wantedSegs
      BY <1>1 DEF SlabState
    <2> HIDE DEF m
    <2>2. ListsDistinct(m) /\ ListsAgree(m) /\ InUseExists(m)
      BY <1>1, <2>1 DEF ListsDistinct, ListsAgree, InUseExists, NumSlabs, Held, Wanted
    <2> QED  BY <2>1, <2>2 DEF Matched, ListsMatch, m
  <1>3. sm.reserved \in 0..(UIntRange - 1) /\ UIntRange \in Nat
    BY <1>1, BufferAssumption DEF SlabState
  <1>4. UAdd(sm.reserved, n) \in 0..(UIntRange - 1)
    BY <1>3 DEF UAdd
  <1>5. ~(n > sm.reserved) => sm.reserved - n \in 0..(UIntRange - 1)
    BY <1>3
  <1>6. Matched(GetSlabReservation(sm, n))
    BY <1>2, <1>4 DEF GetSlabReservation
  <1>7. Matched(ReleaseSlabReservation(sm, n))
    BY <1>2, <1>5 DEF ReleaseSlabReservation
  <1> QED  BY <1>6, <1>7

-----------------------------------------------------------------------------
(***************************************************************************)
(* The constructor and every step of any caller keep the state matched.    *)
(***************************************************************************)
MatchedInv == Matched(slabMgr)

\* The constructor's state is matched,
LEMMA NewMatched == Matched(NewSlabManager)
  <1> DEFINE e == [numBuffers |-> 0, reserved |-> 0,
                   free |-> <<>>, held |-> {}, wanted |-> <<>>,
                   heldRefcnt |-> [s \in Slabs |-> 0],
                   wantedSegs |-> [s \in Slabs |-> <<>>]]
  <1>1. 0 \in 0..MaxBuffers /\ InitBuffers \in 0..MaxBuffers /\ 0 \in 0..(UIntRange - 1)
    <2>1. SlabsPerBuf * MaxBuffers \in Nat
      BY SlabCount, BufferAssumption
    <2> QED  BY <2>1, BufferAssumption
  <1>2. e \in SlabState
    <2>1. <<>> \in Seq(Slabs) /\ <<>> \in Seq(Segments) /\ {} \in SUBSET Slabs
      OBVIOUS
    <2>2. [s \in Slabs |-> 0] \in [Slabs -> Nat] /\ [s \in Slabs |-> <<>>] \in [Slabs -> Seq(Segments)]
      OBVIOUS
    <2> QED  BY <1>1, <2>1, <2>2 DEF SlabState
  <1>3. NumSlabs(e) = 0
    BY BufferAssumption DEF NumSlabs
  <1>4. \A s \in Slabs : ~Held(e, s) /\ ~Wanted(e, s) /\ ~(s < 0)
    BY DEF Held, Wanted, Slabs
  <1>5. ListsDistinct(e)
    BY DEF ListsDistinct, IsInjective
  <1>6. ListsAgree(e)
    <2>1. e.free = <<>> /\ e.held = {} /\ e.wanted = <<>>
      OBVIOUS
    <2>2. \A x : ~Contains(<<>>, x)
      BY DEF Contains
    <2> HIDE DEF e
    <2> QED  BY <1>3, <1>4, <2>1, <2>2 DEF ListsAgree
  <1>7. InUseExists(e)
    BY <1>4 DEF InUseExists
  <1>8. Matched(e)
    BY <1>2, <1>5, <1>6, <1>7 DEF Matched, ListsMatch
  <1> HIDE DEF e
  <1>9. Matched(NumBuffers(e, InitBuffers))
    BY <1>1, <1>8, NumBuffersMatched
  <1> QED  BY <1>9 DEF NewSlabManager, e

\* so the invariant holds at the start,
LEMMA InitMatched == Init => MatchedInv
  BY NewMatched DEF Init, MatchedInv

\* every operation keeps it,
LEMMA NextMatched == MatchedInv /\ [Next]_slabMgr => MatchedInv'
  <1> SUFFICES ASSUME Matched(slabMgr), [Next]_slabMgr
               PROVE  Matched(slabMgr')
    BY DEF MatchedInv
  <1>1. CASE \E n \in 1..MaxBuffers : Grow(n)
    <2>1. PICK n \in 1..MaxBuffers : Grow(n)
      BY <1>1
    <2>2. n \in 0..MaxBuffers
      BY BufferAssumption
    <2> QED  BY <2>1, <2>2, NumBuffersMatched DEF Grow
  <1>2. CASE \E n \in AskedSlabs : Reserve(n) \/ Unreserve(n)
    <2>1. PICK n \in AskedSlabs : Reserve(n) \/ Unreserve(n)
      BY <1>2
    <2>2. n \in 0..(UIntRange - 1)
      BY CallerAssumption
    <2> QED  BY <2>1, <2>2, ReservationMatched DEF Reserve, Unreserve
  <1>3. CASE Acquire
    BY <1>3, GetFreeSlabMatched DEF Acquire
  <1>4. CASE \E s \in Slabs : Increment(s)
    BY <1>4, IncrementMatched DEF Increment
  <1>5. CASE \E s \in Slabs : \E amount \in 1..MaxRefcnt : Decrement(s, amount)
    <2>1. PICK s \in Slabs, amount \in 1..MaxRefcnt : Decrement(s, amount)
      BY <1>5
    <2>2. amount \in Nat \ {0}
      BY CallerAssumption
    <2> QED  BY <2>1, <2>2, DecrementMatched DEF Decrement
  <1>6. CASE \E s \in Slabs, seg \in Segments : Want(seg, s)
    BY <1>6, GetWantedMatched DEF Want
  <1>7. CASE \E s \in Slabs, seg \in Segments : Unwant(seg, s)
    BY <1>7, ReleaseWantedMatched DEF Unwant
  <1>8. CASE UNCHANGED slabMgr
    BY <1>8
  <1> QED  BY <1>1, <1>2, <1>3, <1>4, <1>5, <1>6, <1>7, <1>8 DEF Next

\* and so it holds in every reachable state.
LEMMA AlwaysMatched == Spec => []MatchedInv
  BY InitMatched, NextMatched, PTL DEF Spec

(***************************************************************************)
(* SlabManager keeps its state within its types, whatever its caller does: *)
(* in particular ReleaseSlabReservation never takes numSlabsReserved below *)
(* zero, and no operation lists a slab of a buffer beyond the last.        *)
(***************************************************************************)
THEOREM TypeCorrect == Spec => []TypeOK
  <1>1. MatchedInv => TypeOK
    BY DEF MatchedInv, Matched, TypeOK
  <1> QED  BY <1>1, AlwaysMatched, PTL

(***************************************************************************)
(* For every number of slabs, buffers, segments and references: after any  *)
(* sequence of the operations of SlabManager.cc every slab is on exactly   *)
(* the list that Held() and Wanted() of its SlabInfo call for, and on it   *)
(* once.                                                                   *)
(***************************************************************************)
THEOREM ListsAlwaysMatch == Spec => []ListsMatchState
  <1>1. MatchedInv => ListsMatchState
    BY DEF MatchedInv, Matched, ListsMatchState
  <1> QED  BY <1>1, AlwaysMatched, PTL

(***************************************************************************)
(* The exceptions in SlabManager.cc that would show "a deeper problem":    *)
(* GetFreeSlab on a slab in use, FrontWantedSegment on a listed slab that  *)
(* nobody wants.                                                           *)
(***************************************************************************)
ListedIsUsable ==
  /\ slabMgr.free # <<>> => ~GetFreeSlabThrows(slabMgr)
  /\ slabMgr.wanted # <<>> => Wanted(slabMgr, Head(slabMgr.wanted)) /\ ~Held(slabMgr, Head(slabMgr.wanted))

(***************************************************************************)
(* Neither exception is ever thrown: the front of freeSlabs can always be  *)
(* handed out and the front of wantedSlabs always has a segment to drop.   *)
(***************************************************************************)
THEOREM ListedAlwaysUsable == Spec => []ListedIsUsable
  <1>1. ASSUME MatchedInv
        PROVE  ListedIsUsable
    <2>1. /\ slabMgr \in SlabState /\ ListsDistinct(slabMgr) /\ ListsAgree(slabMgr)
      BY <1>1 DEF MatchedInv, Matched, ListsMatch
    <2>2. slabMgr.free \in Seq(Slabs) /\ slabMgr.wanted \in Seq(Slabs)
      BY <2>1 DEF SlabState
    <2>3. ASSUME slabMgr.free # <<>>
          PROVE  ~GetFreeSlabThrows(slabMgr)
      <3>1. Head(slabMgr.free) \in Slabs /\ Contains(slabMgr.free, Head(slabMgr.free))
        BY <2>1, <2>2, <2>3, TailList DEF ListsDistinct
      <3> QED  BY <2>1, <3>1 DEF ListsAgree, GetFreeSlabThrows
    <2>4. ASSUME slabMgr.wanted # <<>>
          PROVE  Wanted(slabMgr, Head(slabMgr.wanted)) /\ ~Held(slabMgr, Head(slabMgr.wanted))
      <3>1. Head(slabMgr.wanted) \in Slabs /\ Contains(slabMgr.wanted, Head(slabMgr.wanted))
        BY <2>1, <2>2, <2>4, TailList DEF ListsDistinct
      <3> QED  BY <2>1, <3>1 DEF ListsAgree
    <2> QED  BY <2>3, <2>4 DEF ListedIsUsable
  <1> QED  BY <1>1, AlwaysMatched, PTL
-----------------------------------------------------------------------------
(***************************************************************************)
(* Reservations: with slabs added, the nonreservable share grows by less   *)
(* than their number.                                                      *)
(***************************************************************************)
Nonreservable(numSlabs) == (PctNonreservable * numSlabs + 99) \div 100

\* The nonreservable share grows by no more slabs than are added.
LEMMA NonreservableGrows ==
  ASSUME NEW a \in Nat, NEW k \in Nat
  PROVE  /\ Nonreservable(a) \in Nat
         /\ Nonreservable(a + k) <= Nonreservable(a) + k
         /\ Nonreservable(0) = 0
  <1> DEFINE x == PctNonreservable * a
             y == PctNonreservable * k
  <1>1. x \in Nat /\ y \in Nat /\ y <= 100 * k /\ PctNonreservable * (a + k) = x + y
    <2>1. \A p, u \in Nat : p * u \in Nat
      OBVIOUS
    <2>2. \A p, u, v \in Nat : p * (u + v) = p * u + p * v
      OBVIOUS
    <2>3. \A p, u \in Nat : p <= 100 => p * u <= 100 * u
      OBVIOUS
    <2>4. PctNonreservable \in Nat /\ PctNonreservable <= 100
      BY PctAssumption
    <2> QED  BY <2>1, <2>2, <2>3, <2>4
  <1> HIDE DEF x, y
  <1>2. (x + 99) \div 100 \in Nat
    BY <1>1
  <1>3. (x + y + 99) \div 100 <= (x + 99) \div 100 + k
    BY <1>1
  <1>4. PctNonreservable * 0 = 0 /\ 99 \div 100 = 0
    BY PctAssumption
  <1> QED  BY <1>1, <1>2, <1>3, <1>4 DEF Nonreservable, x

\* No request is so large that adding it to the slabs in existence wraps a uint32_t.
AskedFits == \A n \in AskedSlabs : n + SlabsPerBuf * MaxBuffers < UIntRange

BoundInv == MatchedInv /\ ReservationBound

\* The bound on reservations holds at the start,
LEMMA InitBound == Init => BoundInv
  <1> SUFFICES ASSUME Init
               PROVE  MatchedInv /\ ReservationBound
    BY DEF BoundInv
  <1>1. MatchedInv
    BY InitMatched
  <1>2. slabMgr.reserved = 0 /\ slabMgr.numBuffers \in 0..MaxBuffers
    BY <1>1 DEF Init, NewSlabManager, NumBuffers, MatchedInv, Matched, SlabState
  <1>3. NumSlabs(slabMgr) \in Nat
    BY <1>2, SlabCount DEF NumSlabs
  <1>4. /\ Nonreservable(NumSlabs(slabMgr)) \in Nat
        /\ Nonreservable(NumSlabs(slabMgr)) <= NumSlabs(slabMgr)
    BY <1>3, NonreservableGrows
  <1> QED  BY <1>1, <1>2, <1>4 DEF ReservationBound, NumSlabsNonreservable, Nonreservable

\* and every operation keeps it as long as the sums fit a uint32_t.
LEMMA NextBound == AskedFits /\ BoundInv /\ [Next]_slabMgr => BoundInv'
  <1> SUFFICES ASSUME AskedFits, MatchedInv, ReservationBound, [Next]_slabMgr
               PROVE  MatchedInv' /\ ReservationBound'
    BY DEF BoundInv
  <1>1. MatchedInv'
    BY NextMatched
  <1> DEFINE r == slabMgr.reserved
             b == slabMgr.numBuffers
             N == NumSlabs(slabMgr)
             R == Nonreservable(N)
  <1>2. /\ slabMgr \in SlabState
        /\ r \in 0..(UIntRange - 1) /\ b \in 0..MaxBuffers /\ UIntRange \in Nat
    BY BufferAssumption DEF MatchedInv, Matched, SlabState
  <1>3. N \in Nat /\ N <= SlabsPerBuf * MaxBuffers
    BY <1>2, SlabCount DEF NumSlabs
  <1>4. R \in Nat /\ r + R <= N
    BY <1>3, NonreservableGrows DEF ReservationBound, NumSlabsNonreservable, Nonreservable
  <1>5. SlabsPerBuf * MaxBuffers \in Nat /\ SlabsPerBuf * MaxBuffers < UIntRange
    BY <1>2, SlabCount, BufferAssumption
  \* a step that leaves the buffers alone and reserves no more than fits
  <1>6. ASSUME slabMgr'.numBuffers = b, slabMgr'.reserved + R <= N
        PROVE  ReservationBound'
    BY <1>6 DEF ReservationBound, NumSlabsNonreservable, Nonreservable, NumSlabs
  <1> HIDE DEF r, b, N, R
  <1>7. CASE \E n \in 1..MaxBuffers : Grow(n)
    <2>1. PICK n \in 1..MaxBuffers : Grow(n)
      BY <1>7
    <2> DEFINE k == SlabsPerBuf * (n - b)
    <2>2. n \in 0..MaxBuffers /\ b <= n /\ ~(n <= b)
      BY <1>2, <2>1, BufferAssumption DEF Grow, b
    <2>3. k \in Nat /\ N + k = SlabsPerBuf * n
      BY <1>2, <2>2, SlabCount DEF N, b, NumSlabs
    <2>4. slabMgr'.reserved = r /\ slabMgr'.numBuffers = n
      BY <1>2, <2>1, <2>2 DEF Grow, NumBuffers, SlabState, r, b
    <2> HIDE DEF k
    <2>5. R + k \in Nat /\ Nonreservable(N + k) <= R + k /\ Nonreservable(N + k) \in Nat
      <3>1. N + k \in Nat /\ 0 \in Nat
        BY <1>3, <2>3
      <3>2. Nonreservable(N + k) \in Nat
        BY <3>1, NonreservableGrows
      <3>3. Nonreservable(N + k) <= R + k
        BY <1>3, <2>3, NonreservableGrows DEF R
      <3> QED  BY <1>4, <2>3, <3>2, <3>3
    <2>6. r + Nonreservable(N + k) <= N + k
      BY <1>2, <1>3, <1>4, <2>3, <2>5
    <2> QED  BY <1>1, <2>3, <2>4, <2>6
             DEF ReservationBound, NumSlabsNonreservable, Nonreservable, NumSlabs
  <1>8. CASE \E n \in AskedSlabs : Reserve(n)
    <2>1. PICK n \in AskedSlabs : Reserve(n)
      BY <1>8
    <2>2. n \in 0..(UIntRange - 1) /\ n + SlabsPerBuf * MaxBuffers < UIntRange
      BY CallerAssumption DEF AskedFits
    <2>3. slabMgr'.reserved = UAdd(r, n) /\ slabMgr'.numBuffers = b
      BY <1>2, <2>1 DEF Reserve, GetSlabReservation, SlabState, r, b
    <2>4. n = 0 \/ UAdd(UAdd(r, R), n) <= N
      BY <2>1 DEF Reserve, CanReserve, NumSlabsNonreservable, Nonreservable, r, R, N
    <2>5. UAdd(r, n) = r + n /\ UAdd(r, R) = r + R /\ UAdd(r + R, n) = r + R + n
      BY <1>2, <1>3, <1>4, <1>5, <2>2 DEF UAdd
    <2>6. r + n + R <= N
      BY <1>2, <1>3, <1>4, <2>2, <2>4, <2>5
    <2> QED  BY <1>1, <1>6, <2>3, <2>5, <2>6
  <1>9. CASE \E n \in AskedSlabs : Unreserve(n)
    <2>1. PICK n \in AskedSlabs : Unreserve(n)
      BY <1>9
    <2>2. n \in 0..(UIntRange - 1)
      BY CallerAssumption
    <2>3. slabMgr'.numBuffers = b /\ (slabMgr'.reserved = r \/ slabMgr'.reserved = r - n)
      BY <1>2, <2>1 DEF Unreserve, ReleaseSlabReservation, SlabState, r, b
    <2>4. slabMgr'.reserved + R <= N
      BY <1>2, <1>3, <1>4, <2>2, <2>3
    <2> QED  BY <1>1, <1>6, <2>3, <2>4
  <1>10. ASSUME slabMgr'.numBuffers = b, slabMgr'.reserved = r
         PROVE  ReservationBound'
    BY <1>4, <1>6, <1>10
  <1>11. CASE Acquire
    BY <1>1, <1>2, <1>10, <1>11 DEF Acquire, GetFreeSlab, SlabState, r, b
  <1>12. CASE \E s \in Slabs : Increment(s)
    BY <1>1, <1>2, <1>10, <1>12 DEF Increment, IncrementHeldRefcnt, SlabState, r, b
  <1>13. CASE \E s \in Slabs : \E amount \in 1..MaxRefcnt : Decrement(s, amount)
    BY <1>1, <1>2, <1>10, <1>13 DEF Decrement, DecrementHeldRefcnt, SlabState, r, b
  <1>14. CASE \E s \in Slabs, seg \in Segments : Want(seg, s)
    BY <1>1, <1>2, <1>10, <1>14 DEF Want, GetWantedSegment, SlabState, r, b
  <1>15. CASE \E s \in Slabs, seg \in Segments : Unwant(seg, s)
    BY <1>1, <1>2, <1>10, <1>15 DEF Unwant, ReleaseWantedSegment, SlabState, r, b
  <1>16. CASE UNCHANGED slabMgr
    BY <1>1, <1>10, <1>16 DEF r, b
  <1> QED  BY <1>1, <1>7, <1>8, <1>9, <1>11, <1>12, <1>13, <1>14, <1>15, <1>16 DEF Next

(***************************************************************************)
(* Provided that no request is so large that it wraps a uint32_t, what is  *)
(* reserved and the nonreservable share always fit in the slabs that       *)
(* exist: GetSlabReservation never promises more, and NumBuffers, which    *)
(* recomputes the share, never takes back what was promised.               *)
(***************************************************************************)
THEOREM ReservationAlwaysBounded ==
  ASSUME AskedFits
  PROVE  Spec => []ReservationBound
  <1>1. Init => BoundInv
    BY InitBound
  <1>2. BoundInv /\ [Next]_slabMgr => BoundInv'
    BY NextBound
  <1>3. BoundInv => ReservationBound
    BY DEF BoundInv
  <1> QED  BY <1>1, <1>2, <1>3, PTL DEF Spec

-----------------------------------------------------------------------------
(***************************************************************************)
(* SlabManager implements SlabLifeCycle.  In a matched state the lists say *)
(* of a slab what its refcount and its segments say, so that a step is     *)
(* known by what it does to those.                                         *)
(***************************************************************************)
\* The status of a slab, without the lists
StatusOf(sm, s) ==
  IF Held(sm, s) THEN "held"
  ELSE IF Wanted(sm, s) THEN "wanted"
  ELSE IF s < NumSlabs(sm) THEN "free" ELSE "absent"

\* In a matched state the lists give every slab that status.
LEMMA StatusIs ==
  ASSUME NEW sm, Matched(sm)
  PROVE  /\ Statuses(sm) = [s \in Slabs |-> StatusOf(sm, s)]
         /\ \A s \in Slabs : Wanted(sm, s) <=> Queued(sm)[s] # {}
         /\ \A s \in Slabs : Queued(sm)[s] = Range(sm.wantedSegs[s])
         /\ \A s \in Slabs : \A x : x \in Queued(sm)[s] <=> Contains(sm.wantedSegs[s], x)
         /\ DOMAIN Queued(sm) = Slabs
  <1>1. ListsAgree(sm) /\ sm \in SlabState
    BY DEF Matched, ListsMatch
  <1>2. Statuses(sm) = [s \in Slabs |-> StatusOf(sm, s)]
    BY <1>1 DEF Statuses, StatusOf, ListsAgree
  <1>3. ASSUME NEW s \in Slabs
        PROVE  /\ Wanted(sm, s) <=> Queued(sm)[s] # {}
               /\ \A x : x \in Queued(sm)[s] <=> Contains(sm.wantedSegs[s], x)
    <2>1. sm.wantedSegs[s] \in Seq(Segments)
      BY <1>1 DEF SlabState
    <2> DEFINE q == sm.wantedSegs[s]
    <2>2. \A x : x \in Range(q) <=> Contains(q, x)
      BY <2>1, RangeIs
    <2>3. q # <<>> <=> Range(q) # {}
      <3>1. q = <<>> => Range(q) = {}
        BY DEF Range
      <3>2. q # <<>> => 1 \in 1..Len(q)
        BY <2>1
      <3>3. \A i \in 1..Len(q) : q[i] \in Range(q)
        BY <2>1, RangeIs
      <3> QED  BY <3>1, <3>2, <3>3
    <2> QED  BY <2>2, <2>3 DEF Queued, Wanted
  <1> QED  BY <1>2, <1>3 DEF Queued

\* A step changes one slab at most.
LEMMA OneStatus ==
  ASSUME NEW sm, NEW new, Matched(sm), Matched(new), NEW s \in Slabs,
         new.numBuffers = sm.numBuffers,
         \A t \in Slabs : t # s => /\ Held(new, t) <=> Held(sm, t)
                                   /\ Wanted(new, t) <=> Wanted(sm, t)
  PROVE  /\ Statuses(new) = [Statuses(sm) EXCEPT ![s] = StatusOf(new, s)]
         /\ Statuses(sm)[s] = StatusOf(sm, s)
         /\ StatusOf(new, s) = StatusOf(sm, s) => Statuses(new) = Statuses(sm)
  <1>1. /\ Statuses(sm) = [t \in Slabs |-> StatusOf(sm, t)]
        /\ Statuses(new) = [t \in Slabs |-> StatusOf(new, t)]
    BY StatusIs
  <1>2. \A t \in Slabs : t # s => StatusOf(new, t) = StatusOf(sm, t)
    BY DEF StatusOf, NumSlabs
  <1> QED  BY <1>1, <1>2

\* Reservations, the references of a slab that stays held, change nothing here.
LEMMA SameLife ==
  ASSUME NEW sm, NEW new, Matched(sm), Matched(new),
         new.numBuffers = sm.numBuffers, new.wantedSegs = sm.wantedSegs,
         \A t \in Slabs : Held(new, t) <=> Held(sm, t)
  PROVE  Statuses(new) = Statuses(sm) /\ Queued(new) = Queued(sm)
  <1>1. /\ Statuses(sm) = [t \in Slabs |-> StatusOf(sm, t)]
        /\ Statuses(new) = [t \in Slabs |-> StatusOf(new, t)]
    BY StatusIs
  <1>2. \A t \in Slabs : StatusOf(new, t) = StatusOf(sm, t)
    BY DEF StatusOf, NumSlabs, Wanted
  <1> QED  BY <1>1, <1>2 DEF Queued

\* The constructor's slabs are free, the others absent.
LEMMA InitLife == Init => Life!Init
  <1> SUFFICES ASSUME Init
               PROVE  Life!Init
    OBVIOUS
  <1>1. Matched(slabMgr)
    BY InitMatched DEF MatchedInv
  <1>2. /\ \A s \in Slabs : slabMgr.heldRefcnt[s] = 0 /\ slabMgr.wantedSegs[s] = <<>>
    BY DEF Init, NewSlabManager, NumBuffers
  <1>3. \A s \in Slabs : ~Held(slabMgr, s) /\ ~Wanted(slabMgr, s)
    BY <1>2 DEF Held, Wanted
  <1>4. Statuses(slabMgr) \in [Slabs -> {"absent", "free"}]
    BY <1>1, <1>3, StatusIs DEF StatusOf
  <1>5. Queued(slabMgr) = [s \in Slabs |-> {}]
    BY <1>1, <1>3, StatusIs DEF Queued
  <1> QED  BY <1>4, <1>5 DEF Life!Init

\* NumBuffers: absent slabs become free, the others keep their status.
LEMMA GrowLife ==
  ASSUME Matched(slabMgr), Matched(slabMgr'), NEW n \in 1..MaxBuffers, Grow(n)
  PROVE  Life!Added
  <1> DEFINE N == NumSlabs(slabMgr)
             M == NumSlabs(slabMgr')
             new == {s \in Slabs : N <= s /\ s < M}
  <1>1. slabMgr \in SlabState /\ slabMgr.numBuffers \in 0..MaxBuffers /\ InUseExists(slabMgr)
    BY DEF Matched, ListsMatch, SlabState
  <1>2. /\ slabMgr'.numBuffers = n
        /\ slabMgr'.wantedSegs = slabMgr.wantedSegs /\ slabMgr'.heldRefcnt = slabMgr.heldRefcnt
    BY <1>1 DEF Grow, NumBuffers, SlabState
  <1>3. N \in Nat /\ M \in Nat /\ N <= M
    BY <1>1, <1>2, SlabCount DEF NumSlabs, Grow
  <1>4. /\ \A s \in Slabs : Statuses(slabMgr)[s] = StatusOf(slabMgr, s)
        /\ Statuses(slabMgr') = [s \in Slabs |-> StatusOf(slabMgr', s)]
    BY StatusIs
  <1>5. ASSUME NEW s \in Slabs
        PROVE  /\ s \in new => Statuses(slabMgr)[s] = "absent" /\ StatusOf(slabMgr', s) = "free"
               /\ s \notin new => StatusOf(slabMgr', s) = Statuses(slabMgr)[s]
    <2>1. /\ Held(slabMgr', s) <=> Held(slabMgr, s)
          /\ Wanted(slabMgr', s) <=> Wanted(slabMgr, s)
      BY <1>2 DEF Held, Wanted
    <2>2. Held(slabMgr, s) \/ Wanted(slabMgr, s) => s < N
      BY <1>1 DEF InUseExists
    <2>3. s \in Int
      BY DEF Slabs
    <2> HIDE DEF N, M
    <2>4. s \in new <=> ~(s < N) /\ s < M
      BY <1>3, <2>3
    <2>5. s < N => s < M
      BY <1>3, <2>3
    <2> QED  BY <1>4, <2>1, <2>2, <2>4, <2>5 DEF StatusOf, N, M
  <1> HIDE DEF new
  <1>6. new \in SUBSET {s \in Slabs : Statuses(slabMgr)[s] = "absent"}
    <2>1. new \subseteq Slabs
      BY DEF new
    <2> QED  BY <1>5, <2>1
  <1>7. Statuses(slabMgr') = [s \in Slabs |-> IF s \in new THEN "free" ELSE Statuses(slabMgr)[s]]
    BY <1>4, <1>5
  <1>8. Queued(slabMgr') = Queued(slabMgr)
    BY <1>2 DEF Queued
  <1> QED  BY <1>6, <1>7, <1>8 DEF Life!Added

\* GetFreeSlab takes a slab that is free.
LEMMA AcquireLife ==
  ASSUME Matched(slabMgr), Matched(slabMgr'), Acquire
  PROVE  \E s \in Slabs : Life!FreeToHeld(s)
  <1> DEFINE s == Head(slabMgr.free)
  <1>1. slabMgr \in SlabState /\ ListsDistinct(slabMgr) /\ ListsAgree(slabMgr)
    BY DEF Matched, ListsMatch
  <1>2. slabMgr.free \in Seq(Slabs) /\ IsInjective(slabMgr.free) /\ slabMgr.free # <<>>
    BY <1>1 DEF SlabState, ListsDistinct, Acquire
  <1>3. s \in Slabs /\ Contains(slabMgr.free, s)
    BY <1>2, TailList
  <1>4. ~Held(slabMgr, s) /\ ~Wanted(slabMgr, s) /\ s < NumSlabs(slabMgr)
    BY <1>1, <1>3 DEF ListsAgree
  <1>5. /\ slabMgr'.numBuffers = slabMgr.numBuffers /\ slabMgr'.wantedSegs = slabMgr.wantedSegs
        /\ slabMgr'.heldRefcnt = [slabMgr.heldRefcnt EXCEPT ![s] = @ + 1]
    BY <1>1, <1>3 DEF Acquire, GetFreeSlab, SlabState
  <1> HIDE DEF s
  <1>6. /\ Held(slabMgr', s)
        /\ \A t \in Slabs : t # s => (Held(slabMgr', t) <=> Held(slabMgr, t))
        /\ \A t \in Slabs : Wanted(slabMgr', t) <=> Wanted(slabMgr, t)
    BY <1>1, <1>3, <1>5 DEF Held, Wanted, SlabState
  <1>7. /\ Statuses(slabMgr') = [Statuses(slabMgr) EXCEPT ![s] = StatusOf(slabMgr', s)]
        /\ Statuses(slabMgr)[s] = StatusOf(slabMgr, s)
    BY <1>3, <1>5, <1>6, OneStatus
  <1>8. StatusOf(slabMgr', s) = "held" /\ StatusOf(slabMgr, s) = "free"
    BY <1>4, <1>6 DEF StatusOf
  <1>9. Queued(slabMgr') = Queued(slabMgr)
    BY <1>5 DEF Queued
  <1> QED  BY <1>3, <1>7, <1>8, <1>9 DEF Life!FreeToHeld, Life!Becomes

\* IncrementHeldRefcnt: another reference, or the first to a wanted slab.
LEMMA IncrementLife ==
  ASSUME Matched(slabMgr), Matched(slabMgr'), NEW s \in Slabs, Increment(s)
  PROVE  Life!WantedToHeld(s) \/ UNCHANGED Life!vars
  <1>1. slabMgr \in SlabState
    BY DEF Matched
  <1>2. /\ slabMgr'.numBuffers = slabMgr.numBuffers /\ slabMgr'.wantedSegs = slabMgr.wantedSegs
        /\ slabMgr'.heldRefcnt = [slabMgr.heldRefcnt EXCEPT ![s] = @ + 1]
    BY <1>1 DEF Increment, IncrementHeldRefcnt, SlabState
  <1>3. /\ Held(slabMgr', s)
        /\ \A t \in Slabs : t # s => (Held(slabMgr', t) <=> Held(slabMgr, t))
        /\ \A t \in Slabs : Wanted(slabMgr', t) <=> Wanted(slabMgr, t)
    BY <1>1, <1>2 DEF Held, Wanted, SlabState
  <1>4. /\ Statuses(slabMgr') = [Statuses(slabMgr) EXCEPT ![s] = StatusOf(slabMgr', s)]
        /\ Statuses(slabMgr)[s] = StatusOf(slabMgr, s)
        /\ StatusOf(slabMgr', s) = StatusOf(slabMgr, s) => Statuses(slabMgr') = Statuses(slabMgr)
    BY <1>2, <1>3, OneStatus
  <1>5. StatusOf(slabMgr', s) = "held" /\ StatusOf(slabMgr, s) \in {"held", "wanted"}
    BY <1>3 DEF StatusOf, Increment, IncrementThrows
  <1>6. Queued(slabMgr') = Queued(slabMgr)
    BY <1>2 DEF Queued
  <1> QED  BY <1>4, <1>5, <1>6 DEF Life!WantedToHeld, Life!Becomes, Life!vars

\* DecrementHeldRefcnt: the last reference decides by what is queued.
LEMMA DecrementLife ==
  ASSUME Matched(slabMgr), Matched(slabMgr'), NEW s \in Slabs, NEW amount \in Nat \ {0},
         Decrement(s, amount)
  PROVE  Life!HeldToWanted(s) \/ Life!HeldToFree(s) \/ UNCHANGED Life!vars
  <1>1. slabMgr \in SlabState /\ InUseExists(slabMgr)
    BY DEF Matched, ListsMatch
  <1>2. /\ slabMgr'.numBuffers = slabMgr.numBuffers /\ slabMgr'.wantedSegs = slabMgr.wantedSegs
        /\ slabMgr'.heldRefcnt = [slabMgr.heldRefcnt EXCEPT ![s] = @ - amount]
    BY <1>1 DEF Decrement, DecrementHeldRefcnt, SlabState
  <1>3. /\ Held(slabMgr, s)
        /\ \A t \in Slabs : t # s => (Held(slabMgr', t) <=> Held(slabMgr, t))
        /\ \A t \in Slabs : Wanted(slabMgr', t) <=> Wanted(slabMgr, t)
    BY <1>1, <1>2 DEF Held, Wanted, SlabState, Decrement, DecrementThrows
  <1>4. /\ Statuses(slabMgr') = [Statuses(slabMgr) EXCEPT ![s] = StatusOf(slabMgr', s)]
        /\ Statuses(slabMgr)[s] = StatusOf(slabMgr, s)
        /\ StatusOf(slabMgr', s) = StatusOf(slabMgr, s) => Statuses(slabMgr') = Statuses(slabMgr)
    BY <1>2, <1>3, OneStatus
  <1>5. NumSlabs(slabMgr') = NumSlabs(slabMgr) /\ s < NumSlabs(slabMgr)
    BY <1>1, <1>2, <1>3 DEF NumSlabs, InUseExists
  <1>6. /\ StatusOf(slabMgr, s) = "held"
        /\ \/ StatusOf(slabMgr', s) = "held"
           \/ StatusOf(slabMgr', s) = "wanted" /\ Wanted(slabMgr, s)
           \/ StatusOf(slabMgr', s) = "free" /\ ~Wanted(slabMgr, s)
    BY <1>3, <1>5 DEF StatusOf
  <1>7. Wanted(slabMgr, s) <=> Queued(slabMgr)[s] # {}
    BY StatusIs
  <1>8. Queued(slabMgr') = Queued(slabMgr)
    BY <1>2 DEF Queued
  <1> QED  BY <1>4, <1>6, <1>7, <1>8
           DEF Life!HeldToWanted, Life!HeldToFree, Life!Becomes, Life!vars

\* GetWantedSegment queues a segment in a slab that is in use.
LEMMA WantLife ==
  ASSUME Matched(slabMgr), Matched(slabMgr'), NEW s \in Slabs, NEW seg \in Segments,
         Want(seg, s)
  PROVE  Life!Queue(s, seg)
  <1> DEFINE g == Append(slabMgr.wantedSegs[s], seg)
  <1>1. slabMgr \in SlabState
    BY DEF Matched
  <1>2. /\ slabMgr'.numBuffers = slabMgr.numBuffers /\ slabMgr'.heldRefcnt = slabMgr.heldRefcnt
        /\ slabMgr'.wantedSegs = [slabMgr.wantedSegs EXCEPT ![s] = g]
        /\ slabMgr.wantedSegs \in [Slabs -> Seq(Segments)]
    BY <1>1 DEF Want, GetWantedSegment, SlabState
  <1>3. \A x : Contains(g, x) <=> Contains(slabMgr.wantedSegs[s], x) \/ x = seg
    BY <1>2, AppendList
  <1>4. g # <<>>
    BY <1>2
  <1> HIDE DEF g
  <1>5. /\ \A t \in Slabs : Held(slabMgr', t) <=> Held(slabMgr, t)
        /\ Wanted(slabMgr', s)
        /\ \A t \in Slabs : t # s => (Wanted(slabMgr', t) <=> Wanted(slabMgr, t))
    BY <1>2, <1>4 DEF Held, Wanted
  <1>6. StatusOf(slabMgr', s) = StatusOf(slabMgr, s) /\ StatusOf(slabMgr, s) \in {"held", "wanted"}
    BY <1>5 DEF StatusOf, Want, GetWantedThrows
  <1>7. Statuses(slabMgr') = Statuses(slabMgr) /\ Statuses(slabMgr)[s] = StatusOf(slabMgr, s)
    BY <1>2, <1>5, <1>6, OneStatus
  <1>8. \A t \in Slabs : seg \notin Queued(slabMgr)[t]
    BY StatusIs DEF Want
  <1>9. Queued(slabMgr') = [Queued(slabMgr) EXCEPT ![s] = @ \cup {seg}]
    <2>1. \A t \in Slabs \ {s} : Queued(slabMgr')[t] = Queued(slabMgr)[t]
      BY <1>2 DEF Queued
    <2>2. Queued(slabMgr')[s] = Queued(slabMgr)[s] \cup {seg}
      BY <1>2, <1>3, StatusIs
    <2>3. DOMAIN Queued(slabMgr') = Slabs /\ DOMAIN Queued(slabMgr) = Slabs
      BY DEF Queued
    <2> QED  BY <2>1, <2>2, <2>3 DEF Queued
  <1> QED  BY <1>6, <1>7, <1>8, <1>9 DEF Life!Queue

\* ReleaseWantedSegment takes a segment off, and frees a slab only with its last.
LEMMA UnwantLife ==
  ASSUME Matched(slabMgr), Matched(slabMgr'), NEW s \in Slabs, NEW seg \in Segments,
         Unwant(seg, s)
  PROVE  Life!Dequeue(s, seg) \/ Life!WantedToFree(s, seg)
  <1> DEFINE g == RemoveFirst(slabMgr.wantedSegs[s], seg)
  <1>1. slabMgr \in SlabState /\ ListsDistinct(slabMgr) /\ InUseExists(slabMgr)
    BY DEF Matched, ListsMatch
  <1>2. /\ slabMgr'.numBuffers = slabMgr.numBuffers /\ slabMgr'.heldRefcnt = slabMgr.heldRefcnt
        /\ slabMgr'.wantedSegs = [slabMgr.wantedSegs EXCEPT ![s] = g]
        /\ slabMgr.wantedSegs \in [Slabs -> Seq(Segments)]
        /\ IsInjective(slabMgr.wantedSegs[s])
    BY <1>1 DEF Unwant, ReleaseWantedSegment, SlabState, ListsDistinct
  <1>3. \A x : Contains(g, x) <=> Contains(slabMgr.wantedSegs[s], x) /\ x # seg
    BY <1>2, RemoveList
  <1> HIDE DEF g
  <1>4. seg \in Queued(slabMgr)[s] /\ Wanted(slabMgr, s)
    BY StatusIs DEF Unwant
  <1>5. Queued(slabMgr')[s] = Queued(slabMgr)[s] \ {seg}
    BY <1>2, <1>3, StatusIs
  <1>6. Queued(slabMgr') = [Queued(slabMgr) EXCEPT ![s] = @ \ {seg}]
    <2>1. \A t \in Slabs \ {s} : Queued(slabMgr')[t] = Queued(slabMgr)[t]
      BY <1>2 DEF Queued
    <2> QED  BY <1>5, <2>1 DEF Queued
  <1>7. /\ \A t \in Slabs : Held(slabMgr', t) <=> Held(slabMgr, t)
        /\ \A t \in Slabs : t # s => (Wanted(slabMgr', t) <=> Wanted(slabMgr, t))
    BY <1>2 DEF Held, Wanted
  <1>8. Wanted(slabMgr', s) <=> Queued(slabMgr)[s] # {seg}
    BY <1>4, <1>5, StatusIs
  <1>9. s < NumSlabs(slabMgr) /\ NumSlabs(slabMgr') = NumSlabs(slabMgr)
    BY <1>1, <1>2, <1>4 DEF InUseExists, NumSlabs
  <1>10. /\ Statuses(slabMgr') = [Statuses(slabMgr) EXCEPT ![s] = StatusOf(slabMgr', s)]
         /\ Statuses(slabMgr)[s] = StatusOf(slabMgr, s)
         /\ StatusOf(slabMgr', s) = StatusOf(slabMgr, s) => Statuses(slabMgr') = Statuses(slabMgr)
    BY <1>2, <1>7, OneStatus
  <1>11. CASE Held(slabMgr, s) \/ Queued(slabMgr)[s] # {seg}
    <2>1. StatusOf(slabMgr', s) = StatusOf(slabMgr, s)
      BY <1>4, <1>7, <1>8, <1>11 DEF StatusOf
    <2>2. StatusOf(slabMgr, s) = "held" \/ Queued(slabMgr)[s] # {seg}
      BY <1>11 DEF StatusOf
    <2> QED  BY <1>4, <1>6, <1>10, <2>1, <2>2 DEF Life!Dequeue
  <1>12. CASE ~Held(slabMgr, s) /\ Queued(slabMgr)[s] = {seg}
    <2>1. StatusOf(slabMgr', s) = "free" /\ StatusOf(slabMgr, s) = "wanted"
      BY <1>4, <1>7, <1>8, <1>9, <1>12 DEF StatusOf
    <2>2. Queued(slabMgr') = [Queued(slabMgr) EXCEPT ![s] = {}]
      BY <1>6, <1>12
    <2> QED  BY <1>10, <1>12, <2>1, <2>2 DEF Life!WantedToFree, Life!Becomes
  <1> QED  BY <1>11, <1>12

(***************************************************************************)
(* The lists of SlabManager implement the life cycle that its enumeration  *)
(* of state changes allows, for every number of slabs, segments and        *)
(* references.                                                             *)
(***************************************************************************)
THEOREM LifeCycleFollowed == Spec => FollowsLifeCycle
  <1>1. ASSUME MatchedInv, MatchedInv', [Next]_slabMgr
        PROVE  [Life!Next]_(Life!vars)
    <2>1. Matched(slabMgr) /\ Matched(slabMgr')
      BY <1>1 DEF MatchedInv
    <2>2. CASE \E n \in 1..MaxBuffers : Grow(n)
      BY <2>1, <2>2, GrowLife DEF Life!Next
    <2>3. CASE \E n \in AskedSlabs : Reserve(n) \/ Unreserve(n)
      <3>1. PICK r : slabMgr' = [slabMgr EXCEPT !.reserved = r] \/ slabMgr' = slabMgr
        BY <2>3 DEF Reserve, Unreserve, GetSlabReservation, ReleaseSlabReservation
      <3>2. /\ slabMgr'.numBuffers = slabMgr.numBuffers
            /\ slabMgr'.wantedSegs = slabMgr.wantedSegs
            /\ slabMgr'.heldRefcnt = slabMgr.heldRefcnt
        BY <2>1, <3>1 DEF Matched, SlabState
      <3>3. \A t \in Slabs : Held(slabMgr', t) <=> Held(slabMgr, t)
        BY <3>2 DEF Held
      <3> QED  BY <2>1, <3>2, <3>3, SameLife DEF Life!vars
    <2>4. CASE Acquire
      BY <2>1, <2>4, AcquireLife DEF Life!Next
    <2>5. CASE \E s \in Slabs : Increment(s)
      BY <2>1, <2>5, IncrementLife DEF Life!Next
    <2>6. CASE \E s \in Slabs : \E amount \in 1..MaxRefcnt : Decrement(s, amount)
      <3>1. PICK s \in Slabs, amount \in 1..MaxRefcnt : Decrement(s, amount)
        BY <2>6
      <3>2. amount \in Nat \ {0}
        BY CallerAssumption
      <3> QED  BY <2>1, <3>1, <3>2, DecrementLife DEF Life!Next
    <2>7. CASE \E s \in Slabs, seg \in Segments : Want(seg, s)
      BY <2>1, <2>7, WantLife DEF Life!Next
    <2>8. CASE \E s \in Slabs, seg \in Segments : Unwant(seg, s)
      BY <2>1, <2>8, UnwantLife DEF Life!Next
    <2>9. CASE UNCHANGED slabMgr
      BY <2>9 DEF Life!vars
    <2> QED  BY <1>1, <2>2, <2>3, <2>4, <2>5, <2>6, <2>7, <2>8, <2>9 DEF Next
  <1> QED  BY <1>1, AlwaysMatched, InitLife, PTL DEF Spec, FollowsLifeCycle, Life!Spec

(***************************************************************************)
(* The life cycle by itself, as SlabManager's lists go through it.         *)
(***************************************************************************)
\* Nothing is queued at first,
LEMMA InitKept == Life!Init => Life!KeptInv
  BY DEF Life!Init, Life!KeptInv, Life!LifeType, Life!QueuedIsKept

\* and no change of state forgets what is.
LEMMA NextKept == Life!KeptInv /\ [Life!Next]_(Life!vars) => Life!KeptInv'
  <1> SUFFICES ASSUME Life!KeptInv, [Life!Next]_(Life!vars)
               PROVE  Life!KeptInv'
    OBVIOUS
  <1> USE DEF Life!KeptInv, Life!LifeType, Life!QueuedIsKept, Life!Becomes
  <1>1. CASE Life!Added
    BY <1>1 DEF Life!Added
  <1>2. ASSUME NEW s \in Slabs, Life!FreeToHeld(s)
        PROVE  Life!KeptInv'
    BY <1>2 DEF Life!FreeToHeld
  <1>3. ASSUME NEW s \in Slabs, Life!HeldToWanted(s)
        PROVE  Life!KeptInv'
    BY <1>3 DEF Life!HeldToWanted
  <1>4. ASSUME NEW s \in Slabs, Life!HeldToFree(s)
        PROVE  Life!KeptInv'
    BY <1>4 DEF Life!HeldToFree
  <1>5. ASSUME NEW s \in Slabs, Life!WantedToHeld(s)
        PROVE  Life!KeptInv'
    BY <1>5 DEF Life!WantedToHeld
  <1>6. ASSUME NEW s \in Slabs, NEW seg \in Segments, Life!Queue(s, seg)
        PROVE  Life!KeptInv'
    BY <1>6 DEF Life!Queue
  <1>7. ASSUME NEW s \in Slabs, NEW seg \in Segments, Life!Dequeue(s, seg)
        PROVE  Life!KeptInv'
    BY <1>7 DEF Life!Dequeue
  <1>8. ASSUME NEW s \in Slabs, NEW seg \in Segments, Life!WantedToFree(s, seg)
        PROVE  Life!KeptInv'
    BY <1>8 DEF Life!WantedToFree
  <1>9. CASE UNCHANGED Life!vars
    BY <1>9 DEF Life!vars
  <1> QED  BY <1>1, <1>2, <1>3, <1>4, <1>5, <1>6, <1>7, <1>8, <1>9 DEF Life!Next

(***************************************************************************)
(* The life cycle by itself keeps every slab in which a segment is queued  *)
(* from being handed out, and every wanted slab worth harvesting.          *)
(***************************************************************************)
THEOREM QueuedAlwaysKept == Life!Spec => []Life!QueuedIsKept
  <1>1. Life!KeptInv => Life!QueuedIsKept
    BY DEF Life!KeptInv
  <1> QED  BY <1>1, InitKept, NextKept, PTL DEF Life!Spec

\* A segment that a consumer has yet to take keeps its slab from every producer.
SegmentsSafe == Life!QueuedIsKept

(***************************************************************************)
(* What the life cycle promises holds of SlabManager: a slab on freeSlabs  *)
(* has no segment queued, a slab on wantedSlabs has one, and no segment is *)
(* queued in two slabs.                                                    *)
(***************************************************************************)
THEOREM SegmentsAlwaysSafe == Spec => []SegmentsSafe
  BY LifeCycleFollowed, QueuedAlwaysKept, PTL DEF FollowsLifeCycle, SegmentsSafe
=============================================================================
