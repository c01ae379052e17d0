------------------------- MODULE ClientRecvProofs --------------------------
(***************************************************************************)
(* Proofs about the receiving half of the client library, for any number   *)
(* of messages, segments, variables and slabs.                             *)
(***************************************************************************)
EXTENDS ClientRecv, CommonFacts

(***************************************************************************)
(* The inductive invariant.  Segments that have not been put together yet  *)
(* wait in three lists, in the order of publication.                       *)
(***************************************************************************)
Before(g, h) == g.msg < h.msg \/ (g.msg = h.msg /\ g.num < h.num)
AllBefore(S, T) == \A g \in S, h \in T : Before(g, h)
Sorted(q) == \A i, j \in 1..Len(q) : i < j => Before(q[i], q[j])
SortedItems(items) ==
  \A i, j \in 1..Len(items) :
    i < j /\ items[i] # Echo /\ items[j] # Echo => Before(items[i].seg, items[j].seg)
Once(items) ==
  \A i, j \in 1..Len(items) : items[i] = items[j] /\ items[i] # Echo => i = j

Item == {Echo} \cup [type : {"seg"}, seg : Segment]
Pending == Range(recvMgr.pendingSegs)
Queue == Range(wantedQueue)
Waiting == Pending \cup SegsIn(fromMgr) \cup Queue
Present == consSegs \cup Queue

TypeInv ==
  /\ recvMgr \in RecvState
  /\ held \in [Vars -> Seq(Segment)] /\ rmd \in Seq(Segment)
  /\ pc \in Phases
  /\ toMgr \in Seq(Item) /\ fromMgr \in Seq(Item) /\ wantedQueue \in Seq(Segment)
  /\ consSegs \in SUBSET Segment
  /\ published \in Seq([of : Sizes, crc : BOOLEAN]) /\ Len(published) <= MaxMsgs
  /\ delivered \in SUBSET Msgs /\ dropped \in BOOLEAN

\* The waiting segments are in order, each list before the next.
OrderInv ==
  /\ Sorted(recvMgr.pendingSegs) /\ SortedItems(fromMgr) /\ Sorted(wantedQueue)
  /\ AllBefore(Pending, SegsIn(fromMgr))
  /\ AllBefore(Pending \cup SegsIn(fromMgr), Queue)

\* A segment is in one place, and the proxy counts all but those it has queued.
PlaceInv ==
  /\ Once(toMgr) /\ recvMgr.retiredSegs = <<>>
  /\ Pending \cap SegsIn(fromMgr) = {} /\ Pending \cap recvMgr.busySegs = {}
  /\ Pending \cap SegsIn(toMgr) = {} /\ SegsIn(fromMgr) \cap recvMgr.busySegs = {}
  /\ SegsIn(fromMgr) \cap SegsIn(toMgr) = {} /\ recvMgr.busySegs \cap SegsIn(toMgr) = {}
  /\ consSegs = Pending \cup SegsIn(fromMgr) \cup recvMgr.busySegs \cup SegsIn(toMgr)
  /\ Queue \cap consSegs = {}

\* The proxy counts no more than the reservation.
CountInv == IsFiniteSet(consSegs) /\ Cardinality(consSegs) <= NumConsSlabs

\* A segment is known by its message and its number.
KnownInv ==
  /\ \A g \in Present : g.msg <= Len(published) /\ g.of = published[g.msg].of
  /\ \A g, h \in Present : g.msg = h.msg /\ g.num = h.num => g = h

\* As long as nothing was dropped, no gap lies between segments that wait.
GaplessInv ==
  ~dropped => \A g, h \in Waiting :
                Before(h, g) /\ g.num > 0 =>
                  \E p \in Waiting : p.msg = g.msg /\ p.num = g.num - 1

\* What was delivered came before all that waits.
DeliveredInv ==
  /\ \A m \in delivered : m <= Len(published)
  /\ \A m \in delivered, g \in Waiting : m < g.msg \/ (m = g.msg /\ g.num > 0)
  /\ AllBefore(Range(recvMgr.pendingMsg), Waiting)
  /\ recvMgr.pendingMsg # Null => \A m \in delivered : m < recvMgr.pendingMsg[1].msg

\* How often a descriptor is used
Used(h, r, p) == {h[v] : v \in Vars} \cup {r, p}
CountOf(h, r, p, d) ==
  Cardinality({v \in Vars : h[v] = d}) + (IF r = d THEN 1 ELSE 0) + (IF p = d THEN 1 ELSE 0)
Count(d) == CountOf(held, rmd, recvMgr.pendingMsg, d)
Whole(d) ==
  /\ Len(d) = published[d[1].msg].of
  /\ \A i \in 1..Len(d) : d[i].msg = d[1].msg /\ d[i].num = i - 1

\* The descriptors in use are apart, and counted.
DescInv ==
  /\ recvMgr.busySegs = UNION {Range(d) : d \in InUse}
  /\ \A d, e \in InUse : d # e => Range(d) \cap Range(e) = {}
  /\ \A d \in InUse \ {Null} :
       /\ IsInjective(d) /\ d[1].num = 0
       /\ recvMgr.refcnt[d[1].msg] = Count(d)
       /\ ~dropped => Whole(d)

\* A first segment that waits for its message has one reference, for it.
FirstInv == \A g \in Pending : g.num = 0 => recvMgr.refcnt[g.msg] = 1

ControlInv ==
  /\ recvMgr.pendingMsg # Null =>
       pc = "get" /\ \A v \in Vars : held[v] # recvMgr.pendingMsg
  /\ rmd # Null => pc = "handler"

RecvInv ==
  /\ TypeInv /\ OrderInv /\ PlaceInv /\ CountInv /\ KnownInv
  /\ GaplessInv /\ DeliveredInv /\ DescInv /\ FirstInv /\ ControlInv
-----------------------------------------------------------------------------
(***************************************************************************)
(* Lists of segments in order.                                             *)
(***************************************************************************)
\* The order of segments is strict.
LEMMA BeforeIsOrder ==
  ASSUME NEW g \in Segment, NEW h \in Segment
  PROVE  ~Before(g, g) /\ ~(Before(g, h) /\ Before(h, g))
  BY DEF Before, Segment, Msgs

\* An ordered list holds nothing twice.
LEMMA SortedInjective ==
  ASSUME NEW q \in Seq(Segment), Sorted(q)
  PROVE  IsInjective(q)
  <1> SUFFICES ASSUME NEW i \in 1..Len(q), NEW j \in 1..Len(q), q[i] = q[j], i # j
               PROVE  FALSE
    BY DEF IsInjective
  <1>1. q[i] \in Segment /\ ~Before(q[i], q[i])
    BY BeforeIsOrder
  <1>2. i < j \/ j < i
    OBVIOUS
  <1> QED  BY <1>1, <1>2 DEF Sorted

\* A part of an ordered list, and what comes before it.
LEMMA SortedParts ==
  ASSUME NEW q \in Seq(Segment), Sorted(q), NEW k \in 0..Len(q)
  PROVE  /\ SubSeq(q, 1, k) \in Seq(Segment) /\ Sorted(SubSeq(q, 1, k))
         /\ SubSeq(q, k + 1, Len(q)) \in Seq(Segment) /\ Sorted(SubSeq(q, k + 1, Len(q)))
         /\ Range(SubSeq(q, 1, k)) \cup Range(SubSeq(q, k + 1, Len(q))) = Range(q)
         /\ Range(SubSeq(q, 1, k)) \cap Range(SubSeq(q, k + 1, Len(q))) = {}
         /\ AllBefore(Range(SubSeq(q, 1, k)), Range(SubSeq(q, k + 1, Len(q))))
         /\ Len(SubSeq(q, 1, k)) = k /\ Len(SubSeq(q, k + 1, Len(q))) = Len(q) - k
  <1> DEFINE a == SubSeq(q, 1, k)
             b == SubSeq(q, k + 1, Len(q))
  <1>1. IsInjective(q)
    BY SortedInjective
  <1>2. /\ a \in Seq(Segment) /\ b \in Seq(Segment)
        /\ Range(a) \cup Range(b) = Range(q) /\ Range(a) \cap Range(b) = {}
    BY <1>1, PartOfList
  <1>3. Len(a) = k /\ \A i \in 1..k : a[i] = q[i]
    OBVIOUS
  <1>4. Len(b) = Len(q) - k /\ \A i \in 1..(Len(q) - k) : b[i] = q[k + i]
    OBVIOUS
  <1> HIDE DEF a, b
  <1>5. Sorted(a)
    BY <1>3 DEF Sorted
  <1>6. Sorted(b)
    BY <1>4 DEF Sorted
  <1>7. AllBefore(Range(a), Range(b))
    <2> SUFFICES ASSUME NEW g \in Range(a), NEW h \in Range(b)
                 PROVE  Before(g, h)
      BY DEF AllBefore
    <2>1. PICK i \in 1..k : g = q[i]
      BY <1>2, <1>3 DEF Range
    <2>2. PICK j \in 1..(Len(q) - k) : h = q[k + j]
      <3>1. PICK j \in 1..Len(b) : h = b[j]
        BY <1>2 DEF Range
      <3>2. j \in 1..(Len(q) - k)
        BY <1>4, <3>1
      <3> QED  BY <1>4, <3>1, <3>2
    <2> QED  BY <2>1, <2>2 DEF Sorted
  <1> QED  BY <1>2, <1>3, <1>4, <1>5, <1>6, <1>7 DEF a, b

\* Two ordered lists, one before the other.
LEMMA SortedJoin ==
  ASSUME NEW p \in Seq(Segment), Sorted(p), NEW q \in Seq(Segment), Sorted(q),
         AllBefore(Range(p), Range(q))
  PROVE  Sorted(p \o q)
  <1> DEFINE f == p \o q
             m == Len(p)
             n == Len(q)
  <1>1. /\ Len(f) = m + n /\ m \in Nat /\ n \in Nat
        /\ \A i \in 1..m : f[i] = p[i]
        /\ \A i \in 1..n : f[m + i] = q[i]
    BY ConcatList
  <1>2. /\ \A i \in 1..m : p[i] \in Range(p)
        /\ \A i \in 1..n : q[i] \in Range(q)
    BY RangeIs DEF m, n
  <1>3. /\ \A i, j \in 1..m : i < j => Before(p[i], p[j])
        /\ \A i, j \in 1..n : i < j => Before(q[i], q[j])
    BY DEF Sorted, m, n
  <1> HIDE DEF f, m, n
  <1> SUFFICES ASSUME NEW i \in 1..(m + n), NEW j \in 1..(m + n), i < j
               PROVE  Before(f[i], f[j])
    BY <1>1 DEF Sorted, f
  <1>4. CASE j <= m
    <2>1. i \in 1..m /\ j \in 1..m
      BY <1>1, <1>4
    <2> QED  BY <1>1, <1>3, <2>1
  <1>5. CASE ~(j <= m) /\ i <= m
    <2>1. i \in 1..m /\ j - m \in 1..n /\ j = m + (j - m)
      BY <1>1, <1>5
    <2>2. f[i] = p[i] /\ f[j] = q[j - m]
      BY <1>1, <2>1
    <2> QED  BY <1>2, <2>1, <2>2 DEF AllBefore
  <1>6. CASE ~(i <= m)
    <2>1. i - m \in 1..n /\ j - m \in 1..n /\ i = m + (i - m) /\ j = m + (j - m) /\ i - m < j - m
      BY <1>1, <1>6
    <2>2. f[i] = q[i - m] /\ f[j] = q[j - m]
      BY <1>1, <2>1
    <2> QED  BY <1>3, <2>1, <2>2
  <1> QED  BY <1>4, <1>5, <1>6

-----------------------------------------------------------------------------
(***************************************************************************)
(* The items of a socket.                                                  *)
(***************************************************************************)
\* An item is an echo or a segment.
LEMMA ItemIs ==
  ASSUME NEW it \in Item
  PROVE  /\ it # Echo => it.seg \in Segment /\ it = SegItem(it.seg)
         /\ \A g : SegItem(g) # Echo /\ SegItem(g).seg = g
         /\ \A g \in Segment : SegItem(g) \in Item
  <1>1. \A g : SegItem(g).type = "seg" /\ SegItem(g).seg = g /\ Echo.type = "echo"
    BY DEF SegItem, Echo
  <1>2. it # Echo => it \in [type : {"seg"}, seg : Segment]
    BY DEF Item
  <1>3. it # Echo => it.seg \in Segment /\ it = SegItem(it.seg)
    BY <1>2 DEF SegItem
  <1>4. \A g \in Segment : SegItem(g) \in Item
    BY DEF SegItem, Item
  <1> QED  BY <1>1, <1>3, <1>4

\* The segments among the items.
LEMMA SegsInIs ==
  ASSUME NEW items \in Seq(Item)
  PROVE  /\ SegsIn(items) \subseteq Segment
         /\ \A g : g \in SegsIn(items) <=> \E i \in 1..Len(items) : items[i] = SegItem(g)
         /\ \A i \in 1..Len(items) : items[i] # Echo => items[i].seg \in SegsIn(items)
  <1>1. DOMAIN items = 1..Len(items) /\ \A i \in 1..Len(items) : items[i] \in Item
    OBVIOUS
  <1>2. \A i \in 1..Len(items) : items[i] # Echo => items[i].seg \in SegsIn(items)
    BY <1>1 DEF SegsIn
  <1>3. ASSUME NEW g \in SegsIn(items)
        PROVE  g \in Segment /\ \E i \in 1..Len(items) : items[i] = SegItem(g)
    <2>1. PICK i \in 1..Len(items) : items[i] # Echo /\ g = items[i].seg
      BY <1>1, <1>3 DEF SegsIn
    <2> QED  BY <1>1, <2>1, ItemIs
  <1>4. ASSUME NEW g, NEW i \in 1..Len(items), items[i] = SegItem(g)
        PROVE  g \in SegsIn(items)
    <2>1. items[i] # Echo /\ items[i].seg = g
      BY <1>1, <1>4, ItemIs
    <2> QED  BY <1>2, <2>1
  <1> QED  BY <1>2, <1>3, <1>4

\* Ordered items hold no segment twice.
LEMMA SortedOnce ==
  ASSUME NEW items \in Seq(Item), SortedItems(items)
  PROVE  Once(items)
  <1> SUFFICES ASSUME NEW i \in 1..Len(items), NEW j \in 1..Len(items),
                      items[i] = items[j], items[i] # Echo, i # j
               PROVE  FALSE
    BY DEF Once
  <1>1. items[i] \in Item
    OBVIOUS
  <1>2. items[i].seg \in Segment /\ ~Before(items[i].seg, items[i].seg)
    BY <1>1, ItemIs, BeforeIsOrder
  <1>3. i < j \/ j < i
    OBVIOUS
  <1> QED  BY <1>2, <1>3 DEF SortedItems

\* The first item is taken off.
LEMMA TailItems ==
  ASSUME NEW items \in Seq(Item), items # <<>>, Once(items)
  PROVE  /\ Tail(items) \in Seq(Item) /\ Head(items) \in Item /\ Once(Tail(items))
         /\ Head(items) = Echo => SegsIn(Tail(items)) = SegsIn(items)
         /\ Head(items) # Echo => /\ SegsIn(Tail(items)) = SegsIn(items) \ {Head(items).seg}
                                  /\ Head(items).seg \in SegsIn(items)
         /\ SortedItems(items) =>
              /\ SortedItems(Tail(items))
              /\ Head(items) # Echo => AllBefore({Head(items).seg}, SegsIn(Tail(items)))
  <1> DEFINE t == Tail(items)
             n == Len(items)
             h == Head(items)
  <1>1. /\ t \in Seq(Item) /\ n \in Nat \ {0} /\ Len(t) = n - 1 /\ h = items[1] /\ h \in Item
        /\ \A i \in 1..(n - 1) : t[i] = items[i + 1]
    OBVIOUS
  <1> HIDE DEF t, h
  <1>2. /\ \A g : g \in SegsIn(t) <=> \E i \in 1..(n - 1) : t[i] = SegItem(g)
        /\ \A g : g \in SegsIn(items) <=> \E i \in 1..n : items[i] = SegItem(g)
    BY <1>1, SegsInIs
  <1>3. ASSUME NEW g
        PROVE  /\ g \in SegsIn(t) <=> \E i \in 2..n : items[i] = SegItem(g)
               /\ g \in SegsIn(items) <=> h = SegItem(g) \/ g \in SegsIn(t)
    <2>1. ASSUME NEW i \in 1..(n - 1)
          PROVE  i + 1 \in 2..n /\ t[i] = items[i + 1]
      BY <1>1
    <2>2. ASSUME NEW i \in 2..n
          PROVE  i - 1 \in 1..(n - 1) /\ items[i] = t[i - 1]
      BY <1>1
    <2>3. g \in SegsIn(t) <=> \E i \in 2..n : items[i] = SegItem(g)
      BY <1>2, <2>1, <2>2
    <2>4. \A i \in 1..n : i = 1 \/ i \in 2..n
      BY <1>1
    <2>5. \A i \in 2..n : i \in 1..n
      BY <1>1
    <2>6. 1 \in 1..n
      BY <1>1
    <2> QED  BY <1>1, <1>2, <2>3, <2>4, <2>5, <2>6
  <1>4. Once(t)
    <2> SUFFICES ASSUME NEW i \in 1..(n - 1), NEW j \in 1..(n - 1), t[i] = t[j], t[i] # Echo
                 PROVE  i = j
      BY <1>1 DEF Once
    <2>1. i + 1 \in 1..n /\ j + 1 \in 1..n /\ items[i + 1] = items[j + 1] /\ items[i + 1] # Echo
      BY <1>1
    <2>2. i + 1 = j + 1
      BY <2>1 DEF Once
    <2> QED  BY <2>2
  <1>5. h = Echo => SegsIn(t) = SegsIn(items)
    BY <1>1, <1>3, ItemIs
  <1>6. ASSUME h # Echo
        PROVE  SegsIn(t) = SegsIn(items) \ {h.seg} /\ h.seg \in SegsIn(items)
    <2>1. h = SegItem(h.seg) /\ \A g : h = SegItem(g) => g = h.seg
      BY <1>1, <1>6, ItemIs
    <2>2. h.seg \notin SegsIn(t)
      <3> SUFFICES ASSUME NEW i \in 2..n, items[i] = h
                   PROVE  FALSE
        BY <1>3, <2>1
      <3>1. i \in 1..n /\ 1 \in 1..n /\ i # 1
        BY <1>1
      <3> QED  BY <1>1, <1>6, <3>1 DEF Once
    <2> QED  BY <1>3, <2>1, <2>2
  <1>7. ASSUME SortedItems(items)
        PROVE  /\ SortedItems(t)
               /\ h # Echo => AllBefore({h.seg}, SegsIn(t))
    <2>1. SortedItems(t)
      <3> SUFFICES ASSUME NEW i \in 1..(n - 1), NEW j \in 1..(n - 1), i < j, t[i] # Echo, t[j] # Echo
                   PROVE  Before(t[i].seg, t[j].seg)
        BY <1>1 DEF SortedItems
      <3>1. i + 1 \in 1..n /\ j + 1 \in 1..n /\ i + 1 < j + 1
        BY <1>1
      <3>2. t[i] = items[i + 1] /\ t[j] = items[j + 1]
        BY <1>1
      <3> QED  BY <1>7, <3>1, <3>2 DEF SortedItems
    <2>2. ASSUME h # Echo, NEW g \in SegsIn(t)
          PROVE  Before(h.seg, g)
      <3>1. PICK i \in 2..n : items[i] = SegItem(g)
        BY <1>3, <2>2
      <3>2. items[i] # Echo /\ items[i].seg = g
        BY <1>1, <3>1, ItemIs
      <3>3. 1 \in 1..n /\ i \in 1..n /\ 1 < i
        BY <1>1
      <3> QED  BY <1>1, <1>7, <2>2, <3>2, <3>3 DEF SortedItems
    <2> QED  BY <2>1, <2>2 DEF AllBefore
  <1> QED  BY <1>1, <1>4, <1>5, <1>6, <1>7 DEF t, h

\* The items for a list of segments
ItemsOf(q) == [k \in 1..Len(q) |-> SegItem(q[k])]

\* They go to the end of a socket.
LEMMA AddItems ==
  ASSUME NEW items \in Seq(Item), NEW q \in Seq(Segment)
  PROVE  /\ items \o ItemsOf(q) \in Seq(Item)
         /\ SegsIn(items \o ItemsOf(q)) = SegsIn(items) \cup Range(q)
         /\ SortedItems(items) /\ Sorted(q) /\ AllBefore(SegsIn(items), Range(q))
              => SortedItems(items \o ItemsOf(q))
         /\ Once(items) /\ IsInjective(q) /\ SegsIn(items) \cap Range(q) = {}
              => Once(items \o ItemsOf(q))
  <1> DEFINE b == ItemsOf(q)
             f == items \o b
             m == Len(items)
             n == Len(q)
  <1>1. m \in Nat /\ n \in Nat /\ DOMAIN q = 1..n /\ \A k \in 1..n : q[k] \in Segment
    OBVIOUS
  <1>2. /\ b \in Seq(Item) /\ Len(b) = n
        /\ \A k \in 1..n : b[k] = SegItem(q[k]) /\ b[k] # Echo /\ b[k].seg = q[k]
    <2>1. \A k \in 1..n : SegItem(q[k]) \in Item /\ SegItem(q[k]) # Echo /\ SegItem(q[k]).seg = q[k]
      <3>1. Echo \in Item
        BY DEF Item
      <3> QED  BY <1>1, <3>1, ItemIs
    <2>2. b \in [1..n -> Item] /\ \A k \in 1..n : b[k] = SegItem(q[k])
      BY <2>1 DEF ItemsOf
    <2> HIDE DEF b
    <2> QED  BY <1>1, <2>1, <2>2, FunctionList
  <1> HIDE DEF b
  <1>3. /\ f \in Seq(Item) /\ Len(f) = m + n
        /\ \A i \in 1..m : f[i] = items[i]
        /\ \A i \in 1..n : f[m + i] = b[i]
    BY <1>2, ConcatList
  <1> HIDE DEF f
  <1>4. ASSUME NEW i \in 1..(m + n)
        PROVE  \/ i \in 1..m /\ f[i] = items[i]
               \/ i - m \in 1..n /\ f[i] = b[i - m] /\ ~(i <= m)
    <2>1. CASE i <= m
      BY <1>1, <1>3, <2>1
    <2>2. CASE ~(i <= m)
      <3>1. i - m \in 1..n /\ i = m + (i - m)
        BY <1>1, <2>2
      <3> QED  BY <1>3, <2>2, <3>1
    <2> QED  BY <2>1, <2>2
  <1>5. /\ \A g : g \in SegsIn(f) <=> \E i \in 1..(m + n) : f[i] = SegItem(g)
        /\ \A g : g \in SegsIn(items) <=> \E i \in 1..m : items[i] = SegItem(g)
        /\ \A i \in 1..m : items[i] # Echo => items[i].seg \in SegsIn(items)
    BY <1>3, SegsInIs
  <1>6. \A g : g \in Range(q) <=> \E i \in 1..n : q[i] = g
    BY <1>1 DEF Range
  <1> HIDE DEF m, n
  <1>7. \A g, h : SegItem(g) = SegItem(h) => g = h
    BY DEF SegItem
  <1>8. SegsIn(f) = SegsIn(items) \cup Range(q)
    <2>1. ASSUME NEW g \in SegsIn(f)
          PROVE  g \in SegsIn(items) \cup Range(q)
      <3>1. PICK i \in 1..(m + n) : f[i] = SegItem(g)
        BY <1>5, <2>1
      <3>2. CASE i \in 1..m /\ f[i] = items[i]
        BY <1>5, <3>1, <3>2
      <3>3. CASE i - m \in 1..n /\ f[i] = b[i - m]
        <4>1. SegItem(q[i - m]) = SegItem(g)
          BY <1>2, <3>1, <3>3
        <4> QED  BY <1>6, <1>7, <3>3, <4>1
      <3> QED  BY <1>4, <3>2, <3>3
    <2>2. ASSUME NEW g \in SegsIn(items)
          PROVE  g \in SegsIn(f)
      <3>1. PICK i \in 1..m : items[i] = SegItem(g)
        BY <1>5, <2>2
      <3>2. i \in 1..(m + n) /\ f[i] = SegItem(g)
        BY <1>1, <1>3, <3>1
      <3> QED  BY <1>5, <3>2
    <2>3. ASSUME NEW g \in Range(q)
          PROVE  g \in SegsIn(f)
      <3>1. PICK i \in 1..n : q[i] = g
        BY <1>6, <2>3
      <3>2. m + i \in 1..(m + n) /\ f[m + i] = SegItem(g)
        BY <1>1, <1>2, <1>3, <3>1
      <3> QED  BY <1>5, <3>2
    <2> QED  BY <2>1, <2>2, <2>3
  <1>9. ASSUME SortedItems(items), Sorted(q), AllBefore(SegsIn(items), Range(q))
        PROVE  SortedItems(f)
    <2> SUFFICES ASSUME NEW i \in 1..(m + n), NEW j \in 1..(m + n), i < j, f[i] # Echo, f[j] # Echo
                 PROVE  Before(f[i].seg, f[j].seg)
      BY <1>3 DEF SortedItems
    <2>1. CASE i \in 1..m /\ f[i] = items[i] /\ j \in 1..m /\ f[j] = items[j]
      BY <1>9, <2>1 DEF SortedItems, m
    <2>2. CASE i \in 1..m /\ f[i] = items[i] /\ j - m \in 1..n /\ f[j] = b[j - m]
      <3>1. items[i].seg \in SegsIn(items) /\ q[j - m] \in Range(q) /\ f[j].seg = q[j - m]
        BY <1>2, <1>5, <1>6, <2>2
      <3> QED  BY <1>9, <2>2, <3>1 DEF AllBefore
    <2>3. CASE i - m \in 1..n /\ f[i] = b[i - m] /\ j - m \in 1..n /\ f[j] = b[j - m]
      <3>1. f[i].seg = q[i - m] /\ f[j].seg = q[j - m] /\ i - m < j - m
        BY <1>1, <1>2, <2>3
      <3> QED  BY <1>9, <2>3, <3>1 DEF Sorted, n
    <2>4. ~(i - m \in 1..n /\ ~(i <= m) /\ j \in 1..m)
      BY <1>1
    <2> QED  BY <1>4, <2>1, <2>2, <2>3, <2>4
  <1>10. ASSUME Once(items), IsInjective(q), SegsIn(items) \cap Range(q) = {}
         PROVE  Once(f)
    <2> SUFFICES ASSUME NEW i \in 1..(m + n), NEW j \in 1..(m + n), f[i] = f[j], f[i] # Echo
                 PROVE  i = j
      BY <1>3 DEF Once
    <2>1. CASE i \in 1..m /\ f[i] = items[i] /\ j \in 1..m /\ f[j] = items[j]
      BY <1>10, <2>1 DEF Once, m
    <2>2. ASSUME NEW k \in 1..m, NEW l \in 1..n, items[k] = b[l], items[k] # Echo
          PROVE  FALSE
      <3>1. items[k].seg \in SegsIn(items) /\ q[l] \in Range(q) /\ b[l].seg = q[l]
        BY <1>2, <1>5, <1>6, <2>2
      <3> QED  BY <1>10, <2>2, <3>1
    <2>3. CASE i - m \in 1..n /\ f[i] = b[i - m] /\ j - m \in 1..n /\ f[j] = b[j - m]
      <3>1. q[i - m] = q[j - m]
        BY <1>2, <2>3
      <3>2. i - m = j - m
        BY <1>1, <1>10, <2>3, <3>1 DEF IsInjective
      <3> QED  BY <1>1, <3>2
    <2> QED  BY <1>4, <2>1, <2>2, <2>3
  <1> QED  BY <1>3, <1>8, <1>9, <1>10 DEF f, b

\* So may an echo.
LEMMA AddEcho ==
  ASSUME NEW items \in Seq(Item)
  PROVE  /\ Append(items, Echo) \in Seq(Item) /\ items \o <<Echo>> = Append(items, Echo)
         /\ SegsIn(Append(items, Echo)) = SegsIn(items)
         /\ SortedItems(items) => SortedItems(Append(items, Echo))
         /\ Once(items) => Once(Append(items, Echo))
  <1> DEFINE f == Append(items, Echo)
             m == Len(items)
  <1>1. Echo \in Item
    BY DEF Item
  <1>2. /\ f \in Seq(Item) /\ Len(f) = m + 1 /\ m \in Nat
        /\ \A i \in 1..m : f[i] = items[i]
        /\ f[m + 1] = Echo
    BY <1>1
  <1>3. items \o <<Echo>> = Append(items, Echo)
    <2> HIDE DEF Echo
    <2> QED  OBVIOUS
  <1> HIDE DEF f
  <1>4. /\ \A g : g \in SegsIn(f) <=> \E i \in 1..(m + 1) : f[i] = SegItem(g)
        /\ \A g : g \in SegsIn(items) <=> \E i \in 1..m : items[i] = SegItem(g)
    BY <1>2, SegsInIs
  <1>5. \A g : SegItem(g) # Echo
    BY <1>1, ItemIs
  <1>6. \A i \in 1..(m + 1) : f[i] # Echo => i \in 1..m /\ f[i] = items[i]
    BY <1>2
  <1>7. \A i \in 1..m : i \in 1..(m + 1)
    BY <1>2
  <1>8. SegsIn(f) = SegsIn(items)
    BY <1>2, <1>4, <1>5, <1>6, <1>7
  <1>9. SortedItems(items) => SortedItems(f)
    BY <1>2, <1>6 DEF SortedItems
  <1>10. Once(items) => Once(f)
    BY <1>2, <1>6 DEF Once
  <1> QED  BY <1>2, <1>3, <1>8, <1>9, <1>10 DEF f

-----------------------------------------------------------------------------
(***************************************************************************)
(* GetMessageDescriptor takes some segments off, and the next ones are the *)
(* message.                                                                *)
(***************************************************************************)
\* Its loop ends.
LEMMA DroppedIs ==
  ASSUME NEW segs \in Seq(Segment)
  PROVE  /\ NumDropped(segs) \in 0..Len(segs)
         /\ NumDropped(segs) = Len(segs) \/ ~DropsHead(From(segs, NumDropped(segs)))
  <1> DEFINE n == Len(segs)
             S == {k \in 0..n : k = n \/ ~DropsHead(From(segs, k))}
             P(k) == /\ k = n \/ ~DropsHead(From(segs, k))
                     /\ \A j \in 0..(k - 1) : DropsHead(From(segs, j))
  <1>1. n \in Nat
    OBVIOUS
  <1>2. S \subseteq Nat /\ S # {}
    <2>1. n \in S
      BY <1>1
    <2> QED  BY <1>1, <2>1
  <1>3. Min(S) \in S /\ \A k \in S : Min(S) <= k
    BY <1>2, LeastNat
  <1>4. Min(S) \in 0..n /\ P(Min(S))
    <2>1. Min(S) \in 0..n /\ (Min(S) = n \/ ~DropsHead(From(segs, Min(S))))
      BY <1>3
    <2>2. ASSUME NEW j \in 0..(Min(S) - 1)
          PROVE  DropsHead(From(segs, j))
      <3>1. j \in 0..n /\ ~(Min(S) <= j)
        BY <1>1, <2>1
      <3>2. j \notin S
        BY <1>3, <3>1
      <3> QED  BY <3>1, <3>2
    <2> QED  BY <2>1, <2>2
  <1>5. NumDropped(segs) = CHOOSE k \in 0..n : P(k)
    BY DEF NumDropped
  <1> HIDE DEF S, P
  <1>6. NumDropped(segs) \in 0..n /\ P(NumDropped(segs))
    BY <1>4, <1>5
  <1> QED  BY <1>6 DEF P, n

\* What was taken: some that are dropped, a message or nothing, and what is left
Taken(segs, drop, desc, left) ==
  /\ drop \in Seq(Segment) /\ desc \in Seq(Segment) /\ left \in Seq(Segment)
  /\ Sorted(drop) /\ Sorted(desc) /\ Sorted(left)
  /\ Range(segs) = Range(drop) \cup Range(desc) \cup Range(left)
  /\ Range(drop) \cap Range(desc) = {} /\ Range(drop) \cap Range(left) = {}
  /\ Range(desc) \cap Range(left) = {}
  /\ AllBefore(Range(drop), Range(desc)) /\ AllBefore(Range(drop), Range(left))
  /\ AllBefore(Range(desc), Range(left))
  /\ desc # Null => Len(desc) = desc[1].of /\ \A i \in 1..Len(desc) : desc[i].num = i - 1

\* The manager of received segments afterwards
TakenFrom(rm, new, drop, desc, left) ==
  /\ new \in RecvState
  /\ new.pendingSegs = left /\ new.busySegs = rm.busySegs \cup Range(desc)
  /\ new.retiredSegs = rm.retiredSegs \o drop
  /\ new.pendingMsg = Null /\ new.refcnt = rm.refcnt /\ new.numSegmentsRcvd = rm.numSegmentsRcvd

\* GetMessageDescriptor takes such parts off the pending segments.
LEMMA GotIs ==
  ASSUME NEW rm \in RecvState, Sorted(rm.pendingSegs), rm.pendingMsg = Null
  PROVE  \E drop, desc, left \in Seq(Segment) :
           /\ Taken(rm.pendingSegs, drop, desc, left)
           /\ TakenFrom(rm, GetMessageDescriptor(rm).rm, drop, desc, left)
           /\ GetMessageDescriptor(rm).desc = desc
  <1> DEFINE segs == rm.pendingSegs
             k    == NumDropped(segs)
             rest == From(segs, k)
             n    == IF rest = <<>> \/ rest[1].of > Len(rest) THEN 0 ELSE rest[1].of
             drop == SubSeq(segs, 1, k)
             desc == SubSeq(rest, 1, n)
             left == From(rest, n)
             new  == [rm EXCEPT !.pendingSegs = left, !.busySegs = @ \cup Range(desc),
                                !.retiredSegs = @ \o drop]
  <1>1. segs \in Seq(Segment) /\ Len(segs) \in Nat
    BY DEF RecvState
  <1>2. k \in 0..Len(segs) /\ (k = Len(segs) \/ ~DropsHead(rest))
    BY <1>1, DroppedIs
  <1>3. /\ GetMessageDescriptor(rm).rm = new
        /\ GetMessageDescriptor(rm).desc = desc
    BY DEF GetMessageDescriptor
  <1> HIDE DEF k, segs
  <1>4. /\ drop \in Seq(Segment) /\ Sorted(drop) /\ rest \in Seq(Segment) /\ Sorted(rest)
        /\ Range(drop) \cup Range(rest) = Range(segs) /\ Range(drop) \cap Range(rest) = {}
        /\ AllBefore(Range(drop), Range(rest)) /\ Len(rest) = Len(segs) - k
    BY <1>1, <1>2, SortedParts DEF From, segs
  <1> HIDE DEF rest, drop
  <1>5. n \in 0..Len(rest)
    <2>1. CASE rest = <<>> \/ rest[1].of > Len(rest)
      BY <1>4, <2>1
    <2>2. CASE ~(rest = <<>> \/ rest[1].of > Len(rest))
      <3>1. rest[1] \in Segment
        BY <1>4, <2>2
      <3>2. rest[1].of \in Nat
        BY <3>1, RecvAssumption DEF Segment
      <3> QED  BY <1>4, <2>2, <3>2
    <2> QED  BY <2>1, <2>2
  <1>6. /\ desc \in Seq(Segment) /\ Sorted(desc) /\ left \in Seq(Segment) /\ Sorted(left)
        /\ Range(desc) \cup Range(left) = Range(rest) /\ Range(desc) \cap Range(left) = {}
        /\ AllBefore(Range(desc), Range(left)) /\ Len(desc) = n
    <2> HIDE DEF n
    <2> QED  BY <1>4, <1>5, SortedParts DEF From
  <1>7. \A i \in 1..n : desc[i] = rest[i]
    <2> HIDE DEF n
    <2> QED  BY <1>4, <1>5
  <1>8. ASSUME desc # Null
        PROVE  Len(desc) = desc[1].of /\ \A i \in 1..Len(desc) : desc[i].num = i - 1
    <2>1. n # 0
      BY <1>6, <1>8 DEF Null
    <2>2. rest # <<>> /\ ~(rest[1].of > Len(rest)) /\ n = rest[1].of
      BY <2>1
    <2>3. Len(rest) # 0 /\ ~DropsHead(rest)
      <3>1. Len(rest) # 0
        BY <1>4, <2>2
      <3>2. k # Len(segs)
        BY <1>1, <1>2, <1>4, <3>1
      <3> QED  BY <1>2, <3>1, <3>2
    <2>4. rest[1] \in Segment /\ rest[1].num = 0 /\ rest[1].of \in Nat /\ rest[1].of <= Len(rest)
      <3>1. rest[1] \in Segment
        BY <1>4, <2>3
      <3>2. rest[1].of \in Nat
        BY <3>1, RecvAssumption DEF Segment
      <3> QED  BY <1>4, <2>2, <2>3, <3>1, <3>2 DEF DropsHead
    <2>5. Matches(rest)
      BY <2>3, <2>4 DEF DropsHead
    <2>6. ASSUME NEW i \in 1..n
          PROVE  desc[i].num = i - 1
      <3>1. CASE i = 1
        BY <1>7, <2>4, <3>1
      <3>2. CASE i # 1
        <4>1. i \in 2..rest[1].of
          BY <1>5, <2>2, <3>2
        <4> QED  BY <1>7, <2>5, <4>1 DEF Matches
      <3> QED  BY <3>1, <3>2
    <2>7. desc[1] = rest[1]
      BY <1>5, <1>7, <2>1
    <2> QED  BY <1>6, <2>2, <2>6, <2>7
  <1> HIDE DEF n, desc, left
  <1>9. Taken(segs, drop, desc, left)
    <2>1. Range(desc) \subseteq Range(rest) /\ Range(left) \subseteq Range(rest)
      BY <1>6
    <2>2. AllBefore(Range(drop), Range(desc)) /\ AllBefore(Range(drop), Range(left))
      BY <1>4, <2>1 DEF AllBefore
    <2>3. Range(segs) = Range(drop) \cup Range(desc) \cup Range(left)
      BY <1>4, <1>6
    <2>4. Range(drop) \cap Range(desc) = {} /\ Range(drop) \cap Range(left) = {}
      BY <1>4, <2>1
    <2> QED  BY <1>4, <1>6, <1>8, <2>2, <2>3, <2>4 DEF Taken
  <1>10. TakenFrom(rm, new, drop, desc, left)
    <2>1. rm.retiredSegs \o drop \in Seq(Segment) /\ Range(desc) \subseteq Segment
      <3>1. rm.retiredSegs \in Seq(Segment)
        BY DEF RecvState
      <3>2. Range(desc) \subseteq Segment
        BY <1>6, RangeIs
      <3> QED  BY <1>4, <3>1, <3>2, ConcatList
    <2>2. rm.busySegs \cup Range(desc) \in SUBSET Segment
      BY <2>1 DEF RecvState
    <2>3. new \in RecvState
      BY <1>6, <2>1, <2>2 DEF RecvState
    <2>4. /\ new.pendingSegs = left /\ new.busySegs = rm.busySegs \cup Range(desc)
          /\ new.retiredSegs = rm.retiredSegs \o drop
          /\ new.pendingMsg = rm.pendingMsg /\ new.refcnt = rm.refcnt
          /\ new.numSegmentsRcvd = rm.numSegmentsRcvd
      BY DEF RecvState
    <2> QED  BY <2>3, <2>4 DEF TakenFrom
  <1> QED  BY <1>3, <1>4, <1>6, <1>9, <1>10 DEF segs

-----------------------------------------------------------------------------
(***************************************************************************)
(* What the client does with its segments.                                 *)
(***************************************************************************)
\* Where the waiting segments are, and that all are present.
LEMMA WaitingIs ==
  ASSUME TypeInv, PlaceInv
  PROVE  /\ Pending \subseteq Segment /\ SegsIn(fromMgr) \subseteq Segment
         /\ SegsIn(toMgr) \subseteq Segment /\ Queue \subseteq Segment
         /\ recvMgr.busySegs \subseteq Segment
         /\ Waiting \subseteq Present /\ recvMgr.busySegs \subseteq Present
         /\ Waiting \cap recvMgr.busySegs = {}
         /\ Pending \subseteq Waiting
  <1>1. /\ recvMgr.pendingSegs \in Seq(Segment) /\ recvMgr.busySegs \subseteq Segment
        /\ wantedQueue \in Seq(Segment) /\ toMgr \in Seq(Item) /\ fromMgr \in Seq(Item)
    BY DEF TypeInv, RecvState
  <1>2. Pending \subseteq Segment /\ Queue \subseteq Segment
    BY <1>1, RangeIs DEF Pending, Queue
  <1>3. SegsIn(fromMgr) \subseteq Segment /\ SegsIn(toMgr) \subseteq Segment
    BY <1>1, SegsInIs
  <1>4. Waiting \subseteq Present /\ recvMgr.busySegs \subseteq Present
        /\ Waiting \cap recvMgr.busySegs = {} /\ Pending \subseteq Waiting
    BY DEF PlaceInv, Waiting, Present
  <1> QED  BY <1>1, <1>2, <1>3, <1>4

\* A step of the client that takes the segments of r out of its hands and moves
\* others from the pending to those in use.
ClientStep(r) ==
  /\ r \in Seq(Segment) /\ IsInjective(r)
  /\ recvMgr' \in RecvState /\ recvMgr'.retiredSegs = <<>>
  /\ Sorted(recvMgr'.pendingSegs)
  /\ Range(recvMgr'.pendingSegs) \subseteq Pending
  /\ AllBefore(Pending \ Range(recvMgr'.pendingSegs), Range(recvMgr'.pendingSegs))
  /\ Range(recvMgr'.pendingSegs) \cap recvMgr'.busySegs = {}
  /\ Range(recvMgr'.pendingSegs) \cap Range(r) = {} /\ recvMgr'.busySegs \cap Range(r) = {}
  /\ Range(recvMgr'.pendingSegs) \cup recvMgr'.busySegs \cup Range(r)
       = Pending \cup recvMgr.busySegs
  /\ \/ toMgr' = toMgr \o ItemsOf(r)
     \/ toMgr' = (toMgr \o ItemsOf(r)) \o <<Echo>>
  /\ UNCHANGED <<fromMgr, wantedQueue, consSegs, published, dropped>>

\* It leaves each segment in one place, and the waiting ones in order.
LEMMA ClientStepKeeps ==
  ASSUME TypeInv, OrderInv, PlaceInv, CountInv, KnownInv, GaplessInv,
         NEW r, ClientStep(r)
  PROVE  /\ OrderInv' /\ PlaceInv' /\ CountInv' /\ KnownInv' /\ GaplessInv'
         /\ toMgr' \in Seq(Item)
         /\ Waiting' \subseteq Waiting
  <1> DEFINE P == Range(recvMgr'.pendingSegs)
             B == recvMgr'.busySegs
             F == SegsIn(fromMgr)
             R == Range(r)
  <1>1. /\ r \in Seq(Segment) /\ IsInjective(r) /\ Sorted(recvMgr'.pendingSegs)
        /\ P \subseteq Pending /\ AllBefore(Pending \ P, P)
        /\ P \cap B = {} /\ P \cap R = {} /\ B \cap R = {}
        /\ P \cup B \cup R = Pending \cup recvMgr.busySegs
        /\ recvMgr'.retiredSegs = <<>>
    BY DEF ClientStep
  <1>2. /\ fromMgr' = fromMgr /\ wantedQueue' = wantedQueue /\ consSegs' = consSegs
        /\ published' = published /\ dropped' = dropped
    BY DEF ClientStep
  <1>3. Pending' = P /\ Queue' = Queue /\ SegsIn(fromMgr)' = F /\ SegsIn(toMgr)' = SegsIn(toMgr')
    BY <1>2 DEF Pending, Queue, SegsIn
  <1>4. Waiting' = P \cup F \cup Queue /\ Present' = Present
    BY <1>2, <1>3 DEF Waiting, Present
  <1>5. Waiting' \subseteq Waiting
    BY <1>1, <1>4 DEF Waiting
  <1>6. /\ toMgr' \in Seq(Item) /\ Once(toMgr') /\ SegsIn(toMgr') = SegsIn(toMgr) \cup R
    <2>1. toMgr \in Seq(Item) /\ Once(toMgr) /\ SegsIn(toMgr) \cap R = {}
      BY <1>1 DEF TypeInv, PlaceInv
    <2> DEFINE t == toMgr \o ItemsOf(r)
    <2>2. t \in Seq(Item) /\ SegsIn(t) = SegsIn(toMgr) \cup R /\ Once(t)
      BY <1>1, <2>1, AddItems
    <2>3. toMgr' = t \/ toMgr' = t \o <<Echo>>
      BY DEF ClientStep
    <2> HIDE DEF t
    <2>4. CASE toMgr' = t
      BY <2>2, <2>4
    <2>5. CASE toMgr' = t \o <<Echo>>
      BY <2>2, <2>5, AddEcho
    <2> QED  BY <2>3, <2>4, <2>5
  <1> HIDE DEF P, B, R
  <1>7. OrderInv'
    <2>1. Sorted(recvMgr.pendingSegs)'
      BY <1>1 DEF Sorted
    <2>2. SortedItems(fromMgr)' /\ Sorted(wantedQueue)'
      BY <1>2 DEF OrderInv, SortedItems, Sorted
    <2>3. AllBefore(P, F) /\ AllBefore(P \cup F, Queue)
      BY <1>1 DEF OrderInv, AllBefore
    <2>4. AllBefore(Pending, SegsIn(fromMgr))' /\ AllBefore(Pending \cup SegsIn(fromMgr), Queue)'
      BY <1>3, <2>3 DEF AllBefore
    <2> QED  BY <2>1, <2>2, <2>4 DEF OrderInv
  <1>8. PlaceInv'
    <2>1. Once(toMgr)' /\ (recvMgr.retiredSegs = <<>>)'
      BY <1>1, <1>6 DEF Once
    <2>2. recvMgr'.busySegs = B
      BY DEF B
    <2> HIDE DEF F
    <2>3. /\ Pending \cap F = {} /\ Pending \cap SegsIn(toMgr) = {} /\ F \cap recvMgr.busySegs = {}
          /\ F \cap SegsIn(toMgr) = {} /\ recvMgr.busySegs \cap SegsIn(toMgr) = {}
          /\ consSegs = Pending \cup F \cup recvMgr.busySegs \cup SegsIn(toMgr)
          /\ Queue \cap consSegs = {}
      BY DEF PlaceInv, F
    <2>4. /\ P \cap F = {} /\ P \cap SegsIn(toMgr') = {} /\ F \cap B = {}
          /\ F \cap SegsIn(toMgr') = {} /\ B \cap SegsIn(toMgr') = {}
          /\ consSegs = P \cup F \cup B \cup SegsIn(toMgr')
      BY <1>1, <1>6, <2>3
    <2> QED  BY <1>1, <1>2, <1>3, <2>1, <2>2, <2>3, <2>4 DEF PlaceInv
  <1>9. CountInv' /\ KnownInv'
    BY <1>2, <1>4 DEF CountInv, KnownInv
  <1>10. GaplessInv'
    <2> SUFFICES ASSUME ~dropped, NEW g \in Waiting', NEW h \in Waiting', Before(h, g), g.num > 0
                 PROVE  \E p \in Waiting' : p.msg = g.msg /\ p.num = g.num - 1
      BY <1>2 DEF GaplessInv, Before
    <2>1. PICK p \in Waiting : p.msg = g.msg /\ p.num = g.num - 1
      BY <1>5 DEF GaplessInv
    <2>2. p \in Segment /\ g \in Segment /\ h \in Segment
      BY <1>5, <2>1, WaitingIs DEF Waiting
    <2>3. ASSUME p \notin Waiting'
          PROVE  FALSE
      <3>1. p \in Pending \ P
        BY <1>4, <2>1, <2>3 DEF Waiting
      <3>2. Before(p, h)
        <4>1. h \in P \/ h \in F \/ h \in Queue
          BY <1>4
        <4> QED  BY <1>1, <3>1, <4>1 DEF OrderInv, AllBefore
      <3> QED  BY <2>1, <2>2, <3>2 DEF Before, Segment, Msgs
    <2> QED  BY <2>1, <2>3
  <1> QED  BY <1>5, <1>6, <1>7, <1>8, <1>9, <1>10

\* As long as nothing was dropped, the segments taken are all of one message.
LEMMA WholeDesc ==
  ASSUME TypeInv, OrderInv, PlaceInv, KnownInv, GaplessInv, ~dropped,
         NEW drop, NEW desc, NEW left, Taken(recvMgr.pendingSegs, drop, desc, left),
         desc # Null
  PROVE  Whole(desc)
  <1> DEFINE n == Len(desc)
  <1>1. /\ desc \in Seq(Segment) /\ Sorted(desc) /\ n = desc[1].of
        /\ \A i \in 1..n : desc[i].num = i - 1
        /\ Pending = Range(drop) \cup Range(desc) \cup Range(left)
        /\ AllBefore(Range(drop), Range(desc)) /\ AllBefore(Range(desc), Range(left))
    BY DEF Taken, Pending
  <1>2. n \in Nat /\ 1 \in 1..n /\ \A i \in 1..n : desc[i] \in Segment
    BY <1>1 DEF Null
  <1>3. \A i \in 1..n : desc[i] \in Range(desc) /\ desc[i] \in Pending
    BY <1>1, RangeIs
  <1>4. ASSUME NEW i \in 1..n, i + 1 \in 1..n
        PROVE  desc[i + 1].msg = desc[i].msg
    <2> DEFINE g == desc[i + 1]
               h == desc[i]
    <2>1. g \in Segment /\ h \in Segment /\ g \in Pending /\ h \in Pending
          /\ g \in Range(desc) /\ h \in Range(desc)
      BY <1>2, <1>3, <1>4
    <2>2. g.num = i /\ h.num = i - 1 /\ Before(h, g)
      <3>1. i < i + 1
        OBVIOUS
      <3>2. Before(h, g)
        BY <1>1, <1>4, <3>1 DEF Sorted
      <3>3. g.num = (i + 1) - 1 /\ h.num = i - 1
        BY <1>1, <1>4
      <3> QED  BY <3>2, <3>3
    <2> HIDE DEF g, h
    <2>3. g \in Waiting /\ h \in Waiting
      BY <2>1 DEF Waiting
    <2>4. PICK p \in Waiting : p.msg = g.msg /\ p.num = g.num - 1
      BY <2>2, <2>3 DEF GaplessInv
    <2>5. p \in Segment
      BY <2>4, WaitingIs DEF Waiting
    <2>6. ASSUME g.msg # h.msg
          PROVE  FALSE
      <3>1. Before(h, p) /\ Before(p, g)
        BY <2>1, <2>2, <2>4, <2>5, <2>6 DEF Before, Segment, Msgs
      <3>2. ~Before(g, p) /\ ~Before(p, h)
        BY <2>1, <2>5, <3>1, BeforeIsOrder
      <3>3. p \in Pending
        BY <2>1, <2>4, <3>2 DEF Waiting, OrderInv, AllBefore
      <3>4. p \in Range(desc)
        BY <1>1, <2>1, <3>2, <3>3 DEF AllBefore
      <3>5. PICK j \in 1..n : p = desc[j]
        BY <1>1, <3>4 DEF Range
      <3>6. j - 1 = i - 1
        BY <1>1, <2>2, <2>4, <3>5
      <3>7. p = h
        BY <3>5, <3>6 DEF h
      <3> QED  BY <2>4, <2>6, <3>7
    <2> QED  BY <2>6 DEF g, h
  <1> DEFINE S == {i \in 1..n : desc[i].msg # desc[1].msg}
  <1>5. S = {}
    <2> SUFFICES ASSUME S # {}
                 PROVE  FALSE
      OBVIOUS
    <2>1. S \subseteq Nat
      BY <1>2
    <2>2. Min(S) \in S /\ \A y \in S : Min(S) <= y
      BY <2>1, LeastNat
    <2> DEFINE m == Min(S)
    <2> HIDE DEF m
    <2>3. m \in 1..n /\ desc[m].msg # desc[1].msg /\ \A y \in S : m <= y
      BY <2>2 DEF m
    <2>4. m # 1 /\ m - 1 \in 1..n /\ (m - 1) + 1 = m /\ ~(m <= m - 1)
      BY <1>2, <2>3
    <2>5. m - 1 \notin S
      BY <2>3, <2>4
    <2>6. desc[m - 1].msg = desc[1].msg
      BY <2>4, <2>5
    <2>7. desc[(m - 1) + 1].msg = desc[m - 1].msg
      BY <1>4, <2>3, <2>4
    <2> QED  BY <2>3, <2>4, <2>6, <2>7
  <1>6. \A i \in 1..n : desc[i].msg = desc[1].msg
    BY <1>5
  <1>7. desc[1].of = published[desc[1].msg].of
    <2>1. desc[1] \in Present
      BY <1>2, <1>3, WaitingIs
    <2> QED  BY <2>1 DEF KnownInv
  <1> QED  BY <1>1, <1>6, <1>7 DEF Whole

-----------------------------------------------------------------------------
(***************************************************************************)
(* Counting references.                                                    *)
(***************************************************************************)
\* The descriptors that are used are those with a count.
LEMMA CountIs ==
  ASSUME NEW h, NEW r, NEW p, NEW d
  PROVE  /\ CountOf(h, r, p, d) \in Nat
         /\ d \in Used(h, r, p) <=> CountOf(h, r, p, d) # 0
  <1> DEFINE T == {v \in Vars : h[v] = d}
             c == Cardinality(T)
  <1>1. IsFiniteSet(T)
    BY RecvAssumption, FS_Subset
  <1>2. c \in Nat /\ (c = 0 <=> T = {})
    BY <1>1, FS_CardinalityType, FS_EmptySet
  <1>3. CountOf(h, r, p, d) = c + (IF r = d THEN 1 ELSE 0) + (IF p = d THEN 1 ELSE 0)
    BY DEF CountOf
  <1>4. d \in Used(h, r, p) <=> T # {} \/ r = d \/ p = d
    BY DEF Used
  <1> HIDE DEF T, c
  <1> QED  BY <1>2, <1>3, <1>4

\* A variable is given another descriptor.
CountsMove(h, k, old, new) ==
  \A r, p, d : CountOf(k, r, p, d)
                = CountOf(h, r, p, d) + (IF d = new THEN 1 ELSE 0) - (IF d = old THEN 1 ELSE 0)

\* One count goes up, and one down.
LEMMA CountHeld ==
  ASSUME NEW h \in [Vars -> Seq(Segment)], NEW v \in Vars, NEW new,
         NEW k, k = [h EXCEPT ![v] = new]
  PROVE  CountsMove(h, k, h[v], new)
  <1> SUFFICES ASSUME NEW r, NEW p, NEW d
               PROVE  CountOf(k, r, p, d)
           = CountOf(h, r, p, d) + (IF d = new THEN 1 ELSE 0) - (IF d = h[v] THEN 1 ELSE 0)
    BY DEF CountsMove
  <1> DEFINE S  == {w \in Vars \ {v} : h[w] = d}
             T  == {w \in Vars : h[w] = d}
             U  == {w \in Vars : k[w] = d}
  <1>1. IsFiniteSet(S)
    <2>1. S \subseteq Vars
      OBVIOUS
    <2> QED  BY <2>1, RecvAssumption, FS_Subset
  <1>2. v \notin S
    OBVIOUS
  <1>3. T = IF d = h[v] THEN S \cup {v} ELSE S
    OBVIOUS
  <1>4. U = IF d = new THEN S \cup {v} ELSE S
    OBVIOUS
  <1>5. CountOf(k, r, p, d) = Cardinality(U) + (IF r = d THEN 1 ELSE 0) + (IF p = d THEN 1 ELSE 0)
    BY DEF CountOf
  <1>6. CountOf(h, r, p, d) = Cardinality(T) + (IF r = d THEN 1 ELSE 0) + (IF p = d THEN 1 ELSE 0)
    BY DEF CountOf
  <1> HIDE DEF S, T, U
  <1>7. Cardinality(S) \in Nat /\ Cardinality(S \cup {v}) = Cardinality(S) + 1
    BY <1>1, <1>2, FS_CardinalityType, FS_AddElement
  <1>8. /\ Cardinality(T) = Cardinality(S) + (IF d = h[v] THEN 1 ELSE 0)
        /\ Cardinality(U) = Cardinality(S) + (IF d = new THEN 1 ELSE 0)
    BY <1>3, <1>4, <1>7
  <1> QED  BY <1>5, <1>6, <1>7, <1>8

\* A reference to new is added and one to old taken away: what becomes of the
\* counts, and of the segments of old if that was the last one.
One(d, m) == IF d # Null /\ d[1].msg = m THEN 1 ELSE 0
RefOut(rm, out, old, new) ==
  /\ out \in RecvState
  /\ out.pendingSegs = rm.pendingSegs /\ out.pendingMsg = rm.pendingMsg
  /\ \A m \in Msgs : out.refcnt[m] = rm.refcnt[m] + One(new, m) - One(old, m)
  /\ IF old # Null /\ out.refcnt[old[1].msg] = 0
     THEN out.busySegs = rm.busySegs \ Range(old) /\ out.retiredSegs = rm.retiredSegs \o old
     ELSE out.busySegs = rm.busySegs /\ out.retiredSegs = rm.retiredSegs

\* The message of a descriptor.
LEMMA FirstIs ==
  ASSUME NEW d \in Seq(Segment), d # Null
  PROVE  /\ d[1] \in Segment /\ d[1].msg \in Msgs /\ d[1] \in Range(d) /\ Len(d) \in Nat \ {0}
         /\ 1 \in 1..Len(d)
  <1>1. Len(d) \in Nat \ {0} /\ 1 \in 1..Len(d) /\ d[1] \in Segment
    BY DEF Null
  <1>2. d[1] \in Range(d)
    BY <1>1, RangeIs
  <1>3. d[1].msg \in Msgs
    BY <1>1 DEF Segment
  <1> QED  BY <1>1, <1>2, <1>3

\* inc
LEMMA IncIs ==
  ASSUME NEW rm \in RecvState, NEW d \in Seq(Segment)
  PROVE  RefOut(rm, Inc(rm, d), Null, d)
  <1>1. rm.refcnt \in [Msgs -> Nat]
    BY DEF RecvState
  <1>2. CASE d = Null
    BY <1>1, <1>2 DEF Inc, RefOut, One
  <1>3. CASE d # Null
    <2> DEFINE k   == d[1].msg
               f   == [rm.refcnt EXCEPT ![k] = @ + 1]
               out == [rm EXCEPT !.refcnt[k] = @ + 1]
    <2>1. k \in Msgs
      BY <1>3, FirstIs
    <2>2. Inc(rm, d) = out
      BY <1>3 DEF Inc
    <2> HIDE DEF k
    <2>3. f \in [Msgs -> Nat] /\ \A m \in Msgs : f[m] = rm.refcnt[m] + (IF k = m THEN 1 ELSE 0)
      BY <1>1, <2>1
    <2>4. /\ out.refcnt = f /\ out.pendingSegs = rm.pendingSegs /\ out.pendingMsg = rm.pendingMsg
          /\ out.busySegs = rm.busySegs /\ out.retiredSegs = rm.retiredSegs
      BY DEF RecvState
    <2>5. out = [rm EXCEPT !.refcnt = f]
      BY DEF RecvState
    <2> HIDE DEF f
    <2>6. [rm EXCEPT !.refcnt = f] \in RecvState
      BY <2>3 DEF RecvState
    <2>7. \A m : One(d, m) = (IF k = m THEN 1 ELSE 0) /\ One(Null, m) = 0
      BY <1>3 DEF One, k
    <2> HIDE DEF out
    <2>8. \A m \in Msgs : out.refcnt[m] = rm.refcnt[m] + One(d, m) - One(Null, m)
      BY <1>1, <2>3, <2>4, <2>7
    <2> QED  BY <2>2, <2>4, <2>5, <2>6, <2>8 DEF RefOut
  <1> QED  BY <1>2, <1>3

\* dec
LEMMA DecIs ==
  ASSUME NEW rm \in RecvState, NEW d \in Seq(Segment),
         d # Null => rm.refcnt[d[1].msg] # 0
  PROVE  RefOut(rm, Dec(rm, d), d, Null)
  <1>1. rm.refcnt \in [Msgs -> Nat]
    BY DEF RecvState
  <1>2. CASE d = Null
    BY <1>1, <1>2 DEF Dec, RefOut, One
  <1>3. CASE d # Null
    <2> DEFINE k    == d[1].msg
               f    == [rm.refcnt EXCEPT ![k] = @ - 1]
               less == [rm EXCEPT !.refcnt[k] = @ - 1]
               out  == IF less.refcnt[k] # 0 THEN less ELSE ReleaseMessageDescriptor(less, d)
    <2>1. k \in Msgs /\ rm.refcnt[k] # 0
      BY <1>3, FirstIs
    <2>2. Dec(rm, d) = out
      BY <1>3 DEF Dec
    <2> HIDE DEF k
    <2>3. f \in [Msgs -> Nat] /\ \A m \in Msgs : f[m] = rm.refcnt[m] - (IF k = m THEN 1 ELSE 0)
      BY <1>1, <2>1
    <2>4. /\ less.refcnt = f /\ less.pendingSegs = rm.pendingSegs
          /\ less.pendingMsg = rm.pendingMsg
          /\ less.busySegs = rm.busySegs /\ less.retiredSegs = rm.retiredSegs
      BY DEF RecvState
    <2>5. less = [rm EXCEPT !.refcnt = f]
      BY DEF RecvState
    <2> HIDE DEF f
    <2>6. [rm EXCEPT !.refcnt = f] \in RecvState
      BY <2>3 DEF RecvState
    <2>7. \A m : One(d, m) = (IF k = m THEN 1 ELSE 0) /\ One(Null, m) = 0
      BY <1>3 DEF One, k
    <2>8. less \in RecvState
      BY <2>5, <2>6
    <2> HIDE DEF less
    <2> DEFINE rel == ReleaseMessageDescriptor(less, d)
    <2>9. /\ rel \in RecvState /\ rel.refcnt = f /\ rel.pendingSegs = rm.pendingSegs
          /\ rel.pendingMsg = rm.pendingMsg
          /\ rel.busySegs = rm.busySegs \ Range(d) /\ rel.retiredSegs = rm.retiredSegs \o d
      <3>1. less.busySegs \ Range(d) \in SUBSET Segment /\ less.retiredSegs \o d \in Seq(Segment)
        <4>1. less.busySegs \in SUBSET Segment /\ less.retiredSegs \in Seq(Segment)
          BY <2>8 DEF RecvState
        <4> QED  BY <4>1, ConcatList
      <3>2. rel = [less EXCEPT !.busySegs = less.busySegs \ Range(d),
                               !.retiredSegs = less.retiredSegs \o d]
        BY <2>8 DEF ReleaseMessageDescriptor, RecvState
      <3>3. rel \in RecvState
        BY <2>8, <3>1, <3>2 DEF RecvState
      <3> QED  BY <2>4, <2>8, <3>2, <3>3 DEF RecvState
    <2> HIDE DEF rel
    <2>10. out = IF f[k] # 0 THEN less ELSE rel
      BY <2>4 DEF rel
    <2> HIDE DEF out
    <2>11. out.refcnt = f /\ out \in RecvState
      BY <2>4, <2>8, <2>9, <2>10
    <2>12. \A m \in Msgs : out.refcnt[m] = rm.refcnt[m] + One(Null, m) - One(d, m)
      BY <1>1, <2>3, <2>7, <2>11
    <2> QED  BY <1>3, <2>2, <2>4, <2>9, <2>10, <2>11, <2>12 DEF RefOut, k
  <1> QED  BY <1>2, <1>3

\* operator= takes away one reference and adds one, also when both are the same.
LEMMA AssignIs ==
  ASSUME NEW rm \in RecvState, NEW old \in Seq(Segment), NEW new \in Seq(Segment),
         old # Null => rm.refcnt[old[1].msg] # 0,
         new # Null => rm.refcnt[new[1].msg] # 0
  PROVE  RefOut(rm, Assign(rm, old, new), old, new)
  <1> DEFINE a == Inc(rm, new)
             b == Dec(a, old)
             c == Inc(b, new)
             e == Dec(c, new)
  <1>0. Assign(rm, old, new) = e
    BY DEF Assign
  <1>1. RefOut(rm, a, Null, new)
    BY IncIs
  <1> HIDE DEF a
  <1>t. rm.refcnt \in [Msgs -> Nat]
    BY DEF RecvState
  <1>o. /\ \A m : One(old, m) \in 0..1 /\ One(new, m) \in 0..1 /\ One(Null, m) = 0
        /\ old # Null => old[1].msg \in Msgs /\ One(old, old[1].msg) = 1
        /\ new # Null => new[1].msg \in Msgs /\ One(new, new[1].msg) = 1
    BY FirstIs DEF One
  <1>2. /\ a \in RecvState /\ a.refcnt \in [Msgs -> Nat] /\ a.pendingSegs = rm.pendingSegs
        /\ a.pendingMsg = rm.pendingMsg /\ a.busySegs = rm.busySegs
        /\ a.retiredSegs = rm.retiredSegs
        /\ \A m \in Msgs : a.refcnt[m] = rm.refcnt[m] + One(new, m)
    <2>1. a \in RecvState /\ \A m \in Msgs : a.refcnt[m] = rm.refcnt[m] + One(new, m) - One(Null, m)
      BY <1>1 DEF RefOut
    <2>2. a.refcnt \in [Msgs -> Nat]
      BY <2>1 DEF RecvState
    <2>3. \A m \in Msgs : a.refcnt[m] = rm.refcnt[m] + One(new, m)
      BY <1>t, <1>o, <2>1
    <2> QED  BY <1>1, <2>1, <2>2, <2>3 DEF RefOut
  <1>3. old # Null => a.refcnt[old[1].msg] # 0
    BY <1>t, <1>o, <1>2
  <1>4. RefOut(a, b, old, Null)
    BY <1>2, <1>3, DecIs
  <1> HIDE DEF b
  <1>5. /\ b \in RecvState /\ b.refcnt \in [Msgs -> Nat] /\ b.pendingSegs = rm.pendingSegs
        /\ b.pendingMsg = rm.pendingMsg
        /\ \A m \in Msgs : b.refcnt[m] = rm.refcnt[m] + One(new, m) - One(old, m)
        /\ IF old # Null /\ b.refcnt[old[1].msg] = 0
           THEN b.busySegs = rm.busySegs \ Range(old) /\ b.retiredSegs = rm.retiredSegs \o old
           ELSE b.busySegs = rm.busySegs /\ b.retiredSegs = rm.retiredSegs
    <2>1. b \in RecvState /\ \A m \in Msgs : b.refcnt[m] = a.refcnt[m] + One(Null, m) - One(old, m)
      BY <1>4 DEF RefOut
    <2>2. b.refcnt \in [Msgs -> Nat]
      BY <2>1 DEF RecvState
    <2>3. \A m \in Msgs : b.refcnt[m] = rm.refcnt[m] + One(new, m) - One(old, m)
      <3> SUFFICES ASSUME NEW m \in Msgs
                   PROVE  b.refcnt[m] = rm.refcnt[m] + One(new, m) - One(old, m)
        OBVIOUS
      <3>1. One(old, m) \in 0..1 /\ One(new, m) \in 0..1 /\ One(Null, m) = 0 /\ rm.refcnt[m] \in Nat
        BY <1>t, <1>o
      <3>2. a.refcnt[m] = rm.refcnt[m] + One(new, m)
        BY <1>2
      <3>3. b.refcnt[m] = a.refcnt[m] + One(Null, m) - One(old, m)
        BY <2>1
      <3> QED  BY <3>1, <3>2, <3>3
    <2> QED  BY <1>2, <1>4, <2>1, <2>2, <2>3 DEF RefOut
  <1>6. RefOut(b, c, Null, new)
    BY <1>5, IncIs
  <1> HIDE DEF c
  <1>7. /\ c \in RecvState /\ c.refcnt \in [Msgs -> Nat] /\ c.pendingSegs = rm.pendingSegs
        /\ c.pendingMsg = rm.pendingMsg /\ c.busySegs = b.busySegs
        /\ c.retiredSegs = b.retiredSegs
        /\ \A m \in Msgs : c.refcnt[m] = b.refcnt[m] + One(new, m)
    <2>1. c \in RecvState /\ \A m \in Msgs : c.refcnt[m] = b.refcnt[m] + One(new, m) - One(Null, m)
      BY <1>6 DEF RefOut
    <2>2. c.refcnt \in [Msgs -> Nat]
      BY <2>1 DEF RecvState
    <2>3. \A m \in Msgs : c.refcnt[m] = b.refcnt[m] + One(new, m)
      BY <1>5, <1>o, <2>1
    <2> QED  BY <1>5, <1>6, <2>1, <2>2, <2>3 DEF RefOut
  <1>8. new # Null => b.refcnt[new[1].msg] # 0 /\ c.refcnt[new[1].msg] # 0
    <2> SUFFICES ASSUME new # Null
                 PROVE  b.refcnt[new[1].msg] # 0 /\ c.refcnt[new[1].msg] # 0
      OBVIOUS
    <2> DEFINE m == new[1].msg
    <2>1. m \in Msgs /\ One(new, m) = 1 /\ One(old, m) \in 0..1
      BY <1>o
    <2>2. rm.refcnt[m] \in Nat /\ rm.refcnt[m] # 0
      BY <1>t, <2>1
    <2> HIDE DEF m
    <2>3. b.refcnt[m] = rm.refcnt[m] + One(new, m) - One(old, m)
      BY <1>5, <2>1
    <2>4. c.refcnt[m] = b.refcnt[m] + One(new, m)
      BY <1>7, <2>1
    <2>5. b.refcnt[m] # 0 /\ c.refcnt[m] # 0
      BY <2>1, <2>2, <2>3, <2>4
    <2> QED  BY <2>5 DEF m
  <1>9. RefOut(c, e, new, Null)
    BY <1>7, <1>8, DecIs
  <1> HIDE DEF e
  <1>10. /\ e \in RecvState /\ e.refcnt \in [Msgs -> Nat] /\ e.pendingSegs = rm.pendingSegs
         /\ e.pendingMsg = rm.pendingMsg
         /\ \A m \in Msgs : e.refcnt[m] = b.refcnt[m]
    <2>1. e \in RecvState /\ \A m \in Msgs : e.refcnt[m] = c.refcnt[m] + One(Null, m) - One(new, m)
      BY <1>9 DEF RefOut
    <2>2. e.refcnt \in [Msgs -> Nat]
      BY <2>1 DEF RecvState
    <2>3. \A m \in Msgs : e.refcnt[m] = b.refcnt[m]
      BY <1>5, <1>o, <1>7, <2>1
    <2> QED  BY <1>7, <1>9, <2>1, <2>2, <2>3 DEF RefOut
  <1>11. e.busySegs = b.busySegs /\ e.retiredSegs = b.retiredSegs
    <2>1. ~(new # Null /\ e.refcnt[new[1].msg] = 0)
      BY <1>o, <1>8, <1>10
    <2> QED  BY <1>7, <1>9, <2>1 DEF RefOut
  <1>12. old # Null => e.refcnt[old[1].msg] = b.refcnt[old[1].msg]
    BY <1>o, <1>10
  <1>13. \A m \in Msgs : e.refcnt[m] = rm.refcnt[m] + One(new, m) - One(old, m)
    BY <1>5, <1>10
  <1> QED  BY <1>0, <1>5, <1>10, <1>11, <1>12, <1>13 DEF RefOut

\* The descriptors in use: their segments are busy, and no two are of one message.
LEMMA InUseIs ==
  ASSUME TypeInv, PlaceInv, KnownInv, DescInv
  PROVE  /\ InUse = Used(held, rmd, recvMgr.pendingMsg)
         /\ \A d \in InUse : d \in Seq(Segment) /\ Range(d) \subseteq recvMgr.busySegs
         /\ \A d \in InUse \ {Null} :
              /\ IsInjective(d) /\ d[1].num = 0 /\ d[1] \in recvMgr.busySegs
              /\ d[1].msg \in Msgs /\ d[1].msg \in 1..Len(published)
              /\ recvMgr.refcnt[d[1].msg] = Count(d) /\ Count(d) \in Nat /\ Count(d) # 0
         /\ \A d, e \in InUse \ {Null} : d[1].msg = e[1].msg => d = e
         /\ \A d \in InUse \ {Null}, g \in Waiting : g.num = 0 => g.msg # d[1].msg
  <1>1. InUse = Used(held, rmd, recvMgr.pendingMsg)
    BY DEF InUse, Used
  <1>2. ASSUME NEW d \in InUse
        PROVE  d \in Seq(Segment) /\ Range(d) \subseteq recvMgr.busySegs
    <2>1. held \in [Vars -> Seq(Segment)] /\ rmd \in Seq(Segment)
      BY DEF TypeInv
    <2>2. recvMgr.pendingMsg \in Seq(Segment)
      BY DEF TypeInv, RecvState
    <2>3. d \in Seq(Segment)
      BY <1>2, <2>1, <2>2 DEF InUse
    <2> QED  BY <1>2, <2>3 DEF DescInv
  <1>3. ASSUME NEW d \in InUse \ {Null}
        PROVE  /\ IsInjective(d) /\ d[1].num = 0 /\ d[1] \in recvMgr.busySegs
               /\ d[1] \in Present /\ d[1].msg \in Msgs /\ d[1].msg \in 1..Len(published)
               /\ recvMgr.refcnt[d[1].msg] = Count(d) /\ Count(d) \in Nat /\ Count(d) # 0
               /\ d[1] \in Range(d)
    <2>1. d \in Seq(Segment) /\ d # Null /\ d \in InUse
      BY <1>2, <1>3
    <2>2. d[1] \in Segment /\ d[1].msg \in Msgs /\ d[1] \in Range(d)
      BY <2>1, FirstIs
    <2>3. d[1] \in recvMgr.busySegs /\ d[1] \in Present
      BY <1>2, <2>1, <2>2, WaitingIs
    <2>4. Count(d) \in Nat /\ Count(d) # 0
      BY <1>1, <2>1, CountIs DEF Count
    <2>5. d[1].msg \in 1..Len(published)
      BY <2>2, <2>3 DEF KnownInv, Msgs
    <2> QED  BY <1>3, <2>2, <2>3, <2>4, <2>5 DEF DescInv
  <1>4. ASSUME NEW d \in InUse \ {Null}, NEW e \in InUse \ {Null}, d[1].msg = e[1].msg
        PROVE  d = e
    <2>1. d[1] = e[1]
      BY <1>3, <1>4 DEF KnownInv
    <2>2. d[1] \in Range(d) /\ e[1] \in Range(e)
      BY <1>3
    <2> QED  BY <2>1, <2>2 DEF DescInv
  <1>5. ASSUME NEW d \in InUse \ {Null}, NEW g \in Waiting, g.num = 0, g.msg = d[1].msg
        PROVE  FALSE
    <2>1. g \in Present /\ g \notin recvMgr.busySegs
      BY WaitingIs
    <2>2. g = d[1]
      BY <1>3, <1>5, <2>1 DEF KnownInv
    <2> QED  BY <1>3, <2>1, <2>2
  <1> QED  BY <1>1, <1>2, <1>3, <1>4, <1>5

\* Steps that replace one reference by another.
RefStep(out, old, new) ==
  /\ old \in InUse /\ new \in InUse \cup {Null}
  /\ RefOut(recvMgr, out, old, new)
  /\ recvMgr' = [out EXCEPT !.retiredSegs = <<>>]
  /\ toMgr' = toMgr \o RetiredItems(out)
  /\ \A d : CountOf(held', rmd', recvMgr'.pendingMsg, d)
              = Count(d) + (IF d = new THEN 1 ELSE 0) - (IF d = old THEN 1 ELSE 0)
  /\ UNCHANGED <<fromMgr, wantedQueue, consSegs, published, dropped>>

\* They keep the counts right; the segments of a descriptor are returned when no
\* one uses it any more.
LEMMA RefStepKeeps ==
  ASSUME TypeInv, OrderInv, PlaceInv, KnownInv, DescInv, FirstInv,
         NEW out, NEW old, NEW new, RefStep(out, old, new)
  PROVE  /\ ClientStep(out.retiredSegs) /\ DescInv' /\ FirstInv'
         /\ recvMgr' \in RecvState /\ recvMgr'.pendingMsg = recvMgr.pendingMsg
         /\ recvMgr'.pendingSegs = recvMgr.pendingSegs
  <1> DEFINE C(d)  == Count(d)
             C2(d) == CountOf(held', rmd', recvMgr'.pendingMsg, d)
             U     == InUse
             U2    == InUse'
             gone  == old # Null /\ out.refcnt[old[1].msg] = 0
             rc    == recvMgr.refcnt
  <1>1. /\ \A d \in U : d \in Seq(Segment) /\ Range(d) \subseteq recvMgr.busySegs
        /\ \A d \in U \ {Null} :
              /\ IsInjective(d) /\ d[1].num = 0 /\ d[1] \in recvMgr.busySegs
              /\ d[1].msg \in Msgs /\ rc[d[1].msg] = C(d) /\ C(d) \in Nat /\ C(d) # 0
        /\ \A d, e \in U \ {Null} : d[1].msg = e[1].msg => d = e
        /\ \A d \in U \ {Null}, g \in Waiting : g.num = 0 => g.msg # d[1].msg
    BY InUseIs
  <1>2. /\ old \in U /\ new \in U \cup {Null}
        /\ out \in RecvState /\ out.pendingSegs = recvMgr.pendingSegs
        /\ out.pendingMsg = recvMgr.pendingMsg
        /\ \A m \in Msgs : out.refcnt[m] = rc[m] + One(new, m) - One(old, m)
        /\ IF gone THEN /\ out.busySegs = recvMgr.busySegs \ Range(old)
                        /\ out.retiredSegs = recvMgr.retiredSegs \o old
           ELSE out.busySegs = recvMgr.busySegs /\ out.retiredSegs = recvMgr.retiredSegs
    BY DEF RefStep, RefOut
  <1>3. /\ recvMgr' \in RecvState /\ recvMgr'.pendingSegs = recvMgr.pendingSegs
        /\ recvMgr'.pendingMsg = recvMgr.pendingMsg /\ recvMgr'.refcnt = out.refcnt
        /\ recvMgr'.busySegs = out.busySegs /\ recvMgr'.retiredSegs = <<>>
    <2>1. recvMgr' = [out EXCEPT !.retiredSegs = <<>>]
      BY DEF RefStep
    <2>2. out \in RecvState /\ <<>> \in Seq(Segment)
      BY <1>2
    <2>3. recvMgr' \in RecvState
      BY <2>1, <2>2 DEF RecvState
    <2>4. /\ recvMgr'.pendingSegs = out.pendingSegs /\ recvMgr'.pendingMsg = out.pendingMsg
          /\ recvMgr'.refcnt = out.refcnt /\ recvMgr'.busySegs = out.busySegs
          /\ recvMgr'.retiredSegs = <<>>
      BY <2>1, <2>2 DEF RecvState
    <2> QED  BY <1>2, <2>3, <2>4
  <1>4. ASSUME NEW d
        PROVE  /\ C2(d) = C(d) + (IF d = new THEN 1 ELSE 0) - (IF d = old THEN 1 ELSE 0)
               /\ C2(d) \in Nat /\ C(d) \in Nat
               /\ d \in U2 <=> C2(d) # 0
               /\ d \in U <=> C(d) # 0
    <2>1. U2 = Used(held', rmd', recvMgr'.pendingMsg) /\ U = Used(held, rmd, recvMgr.pendingMsg)
      BY DEF InUse, Used
    <2>2. C2(d) \in Nat /\ (d \in U2 <=> C2(d) # 0)
      BY <2>1, CountIs
    <2>3. C(d) \in Nat /\ (d \in U <=> C(d) # 0)
      BY <2>1, CountIs DEF Count
    <2> QED  BY <2>2, <2>3 DEF RefStep
  <1>5. ASSUME NEW d \in U \ {Null}
        PROVE  out.refcnt[d[1].msg] = C2(d)
    <2>1. d[1].msg \in Msgs /\ rc[d[1].msg] = C(d)
      BY <1>1
    <2>2. \A e \in U \cup {Null} : One(e, d[1].msg) = IF d = e THEN 1 ELSE 0
      BY <1>1 DEF One
    <2>3. out.refcnt[d[1].msg] = rc[d[1].msg] + One(new, d[1].msg) - One(old, d[1].msg)
      BY <1>2, <2>1
    <2>4. One(new, d[1].msg) = (IF d = new THEN 1 ELSE 0) /\ One(old, d[1].msg) = (IF d = old THEN 1 ELSE 0)
      BY <1>2, <2>2
    <2> QED  BY <1>4, <2>1, <2>3, <2>4
  <1> HIDE DEF C, C2, U, U2
  <1>6. gone <=> old # Null /\ C2(old) = 0
    BY <1>2, <1>5
  <1> HIDE DEF gone
  <1>7. ASSUME NEW d, d # Null
        PROVE  d \in U2 <=> d \in U /\ ~(gone /\ d = old)
    <2>1. d = new => d \in U
      BY <1>2, <1>7
    <2>2. CASE d = old
      BY <1>2, <1>4, <1>6, <1>7, <2>2
    <2>3. CASE d # old
      BY <1>4, <2>1, <2>3
    <2> QED  BY <2>2, <2>3
  <1>8. \A x : x \notin Range(Null)
    BY DEF Range, Null
  <1>9. out.busySegs = UNION {Range(d) : d \in U2}
    <2>1. /\ recvMgr.busySegs = UNION {Range(d) : d \in U}
          /\ \A d, e \in U : d # e => Range(d) \cap Range(e) = {}
      BY DEF DescInv, U
    <2>2. ASSUME NEW x
          PROVE  /\ x \in UNION {Range(d) : d \in U2} <=> \E d \in U2 : d # Null /\ x \in Range(d)
                 /\ x \in recvMgr.busySegs <=> \E d \in U : d # Null /\ x \in Range(d)
      BY <1>8, <2>1
    <2>3. ASSUME NEW x
          PROVE  x \in out.busySegs <=> x \in recvMgr.busySegs /\ ~(gone /\ x \in Range(old))
      BY <1>2 DEF gone
    <2>4. ASSUME NEW x
          PROVE  x \in out.busySegs <=> \E d \in U2 : d # Null /\ x \in Range(d)
      <3>1. ASSUME NEW d \in U2, d # Null, x \in Range(d)
            PROVE  x \in out.busySegs
        <4>1. d \in U /\ ~(gone /\ d = old)
          BY <1>7, <3>1
        <4>2. gone => x \notin Range(old)
          BY <1>2, <2>1, <3>1, <4>1
        <4> QED  BY <2>2, <2>3, <3>1, <4>1, <4>2
      <3>2. ASSUME x \in out.busySegs
            PROVE  \E d \in U2 : d # Null /\ x \in Range(d)
        <4>1. PICK d \in U : d # Null /\ x \in Range(d)
          BY <2>2, <2>3, <3>2
        <4>2. ~(gone /\ d = old)
          BY <2>3, <3>2, <4>1
        <4> QED  BY <1>7, <4>1, <4>2
      <3> QED  BY <3>1, <3>2
    <2> QED  BY <2>2, <2>4
  <1>10. DescInv'
    <2>1. (recvMgr.busySegs = UNION {Range(d) : d \in InUse})'
      BY <1>3, <1>9 DEF U2, Range
    <2>2. (\A d, e \in InUse : d # e => Range(d) \cap Range(e) = {})'
      <3> SUFFICES ASSUME NEW d \in U2, NEW e \in U2, d # e
                   PROVE  Range(d) \cap Range(e) = {}
        BY DEF U2, Range
      <3>1. CASE d = Null \/ e = Null
        BY <1>8, <3>1
      <3>2. CASE d # Null /\ e # Null
        <4>1. d \in U /\ e \in U
          BY <1>7, <3>2
        <4> QED  BY <4>1 DEF DescInv, U
      <3> QED  BY <3>1, <3>2
    <2>3. ASSUME NEW d \in U2 \ {Null}
          PROVE  /\ IsInjective(d) /\ d[1].num = 0
                 /\ recvMgr'.refcnt[d[1].msg] = C2(d)
                 /\ ~dropped => Whole(d)
      <3>1. d \in U \ {Null}
        BY <1>7, <2>3
      <3> QED  BY <1>1, <1>3, <1>5, <3>1 DEF DescInv, U
    <2>4. dropped' = dropped /\ published' = published
      BY DEF RefStep
    <2>5. (\A d \in InUse \ {Null} :
             /\ IsInjective(d) /\ d[1].num = 0
             /\ recvMgr.refcnt[d[1].msg] = Count(d)
             /\ ~dropped => Whole(d))'
      BY <2>3, <2>4 DEF U2, C2, Count, Whole, Null
    <2> QED  BY <2>1, <2>2, <2>5 DEF DescInv
  <1>11. FirstInv'
    <2> SUFFICES ASSUME NEW g \in Pending, g.num = 0
                 PROVE  out.refcnt[g.msg] = 1
      BY <1>3 DEF FirstInv, Pending
    <2>1. g \in Segment /\ g \in Waiting /\ rc[g.msg] = 1
      BY WaitingIs DEF FirstInv
    <2>2. g.msg \in Msgs
      BY <2>1 DEF Segment
    <2>3. \A e \in U \cup {Null} : One(e, g.msg) = 0
      BY <1>1, <2>1 DEF One
    <2>4. One(new, g.msg) = 0 /\ One(old, g.msg) = 0
      BY <1>2, <2>3
    <2>5. out.refcnt[g.msg] = rc[g.msg] + One(new, g.msg) - One(old, g.msg)
      BY <1>2, <2>2
    <2> QED  BY <2>1, <2>4, <2>5
  <1>12. ClientStep(out.retiredSegs)
    <2> DEFINE r == out.retiredSegs
    <2>1. recvMgr.retiredSegs = <<>>
      BY DEF PlaceInv
    <2>2. old \in Seq(Segment) /\ (old # Null => IsInjective(old)) /\ Range(old) \subseteq recvMgr.busySegs
      BY <1>1, <1>2
    <2>3. gone => old # Null
      BY DEF gone
    <2>4. r = IF gone THEN old ELSE <<>>
      BY <1>2, <2>1, <2>2 DEF gone
    <2>5. r \in Seq(Segment) /\ IsInjective(r)
      <3>1. <<>> \in Seq(Segment) /\ IsInjective(<<>>)
        BY DEF IsInjective
      <3> QED  BY <2>2, <2>3, <2>4, <3>1
    <2>6. out.busySegs = (IF gone THEN recvMgr.busySegs \ Range(old) ELSE recvMgr.busySegs)
      BY <1>2 DEF gone
    <2>7. toMgr' = toMgr \o ItemsOf(r)
      <3>1. RetiredItems(out) = ItemsOf(r)
        <4>1. DOMAIN r = 1..Len(r)
          BY <2>5
        <4> QED  BY <4>1 DEF RetiredItems, ItemsOf
      <3> QED  BY <3>1 DEF RefStep
    <2> HIDE DEF r
    <2>8. Range(recvMgr'.pendingSegs) = Pending
      BY <1>3 DEF Pending
    <2>9. Range(<<>>) = {}
      BY DEF Range
    <2>10. out.busySegs \cap Range(r) = {} /\ out.busySegs \cup Range(r) = recvMgr.busySegs
           /\ Range(r) \subseteq recvMgr.busySegs
      BY <2>2, <2>4, <2>6, <2>9
    <2>11. Pending \cap recvMgr.busySegs = {}
      BY DEF PlaceInv
    <2>12. Sorted(recvMgr'.pendingSegs)
      BY <1>3 DEF OrderInv
    <2>13. AllBefore(Pending \ Pending, Pending)
      BY DEF AllBefore
    <2>14. ClientStep(r)
      BY <1>3, <2>5, <2>7, <2>8, <2>10, <2>11, <2>12, <2>13 DEF ClientStep, RefStep
    <2> QED  BY <2>14 DEF r
  <1> QED  BY <1>3, <1>10, <1>11, <1>12

-----------------------------------------------------------------------------
(***************************************************************************)
(* The actions of the client.                                              *)
(***************************************************************************)
\* What is left to show of a step of the client
LEMMA ClientInv ==
  ASSUME RecvInv, NEW r, ClientStep(r),
         held' \in [Vars -> Seq(Segment)], rmd' \in Seq(Segment),
         pc' \in Phases, delivered' \in SUBSET Msgs,
         DeliveredInv', DescInv', FirstInv', ControlInv'
  PROVE  RecvInv'
  <1>1. /\ OrderInv' /\ PlaceInv' /\ CountInv' /\ KnownInv' /\ GaplessInv' /\ toMgr' \in Seq(Item)
    BY ClientStepKeeps DEF RecvInv
  <1>2. TypeInv'
    <2>1. /\ recvMgr' \in RecvState /\ fromMgr' = fromMgr /\ wantedQueue' = wantedQueue
          /\ consSegs' = consSegs /\ published' = published /\ dropped' = dropped
      BY DEF ClientStep
    <2> QED  BY <1>1, <2>1 DEF RecvInv, TypeInv
  <1> QED  BY <1>1, <1>2 DEF RecvInv

\* The order of delivery, when nothing is delivered
LEMMA DeliveredKept ==
  ASSUME DeliveredInv, Waiting' \subseteq Waiting, delivered' = delivered,
         published' = published, recvMgr'.pendingMsg = recvMgr.pendingMsg
  PROVE  DeliveredInv'
  <1> DEFINE W == Waiting
             W2 == Waiting'
             pm == recvMgr.pendingMsg
  <1>1. /\ \A m \in delivered : m <= Len(published)
        /\ \A m \in delivered, g \in W : m < g.msg \/ (m = g.msg /\ g.num > 0)
        /\ AllBefore(Range(pm), W)
        /\ pm # Null => \A m \in delivered : m < pm[1].msg
    BY DEF DeliveredInv
  <1>2. W2 \subseteq W
    OBVIOUS
  <1>3. Waiting' = W2 /\ recvMgr'.pendingMsg = pm
    OBVIOUS
  <1> HIDE DEF W, W2
  <1>4. AllBefore(Range(pm), W2)
    BY <1>1, <1>2 DEF AllBefore
  <1>5. AllBefore(Range(recvMgr.pendingMsg), Waiting)'
    BY <1>3, <1>4 DEF AllBefore, Range
  <1>6. (\A m \in delivered, g \in Waiting : m < g.msg \/ (m = g.msg /\ g.num > 0))'
    BY <1>1, <1>2, <1>3
  <1>7. (\A m \in delivered : m <= Len(published))'
    BY <1>1
  <1>8. (recvMgr.pendingMsg # Null => \A m \in delivered : m < recvMgr.pendingMsg[1].msg)'
    BY <1>1, <1>3 DEF Null
  <1> QED  BY <1>5, <1>6, <1>7, <1>8 DEF DeliveredInv

\* A step that replaces references keeps the invariant.
LEMMA RefInv ==
  ASSUME RecvInv, NEW out, NEW old, NEW new, RefStep(out, old, new),
         held' \in [Vars -> Seq(Segment)], rmd' \in Seq(Segment),
         pc' \in Phases, delivered' = delivered,
         pc \in {"idle", "handler"}, rmd' # Null => pc' = "handler"
  PROVE  RecvInv'
  <1>1. /\ ClientStep(out.retiredSegs) /\ DescInv' /\ FirstInv' /\ recvMgr' \in RecvState
        /\ recvMgr'.pendingMsg = recvMgr.pendingMsg
    BY RefStepKeeps DEF RecvInv
  <1>2. Waiting' \subseteq Waiting
    BY <1>1, ClientStepKeeps DEF RecvInv
  <1>3. DeliveredInv'
    <2>1. published' = published /\ DeliveredInv
      BY DEF RefStep, RecvInv
    <2> QED  BY <1>1, <1>2, <2>1, DeliveredKept
  <1>4. ControlInv'
    <2>1. recvMgr.pendingMsg = Null
      BY DEF RecvInv, ControlInv
    <2> QED  BY <1>1, <2>1 DEF ControlInv, Null
  <1>5. delivered' \in SUBSET Msgs
    BY DEF RecvInv, TypeInv
  <1> QED  BY <1>1, <1>3, <1>4, <1>5, ClientInv

\* The facts about a descriptor in use that inc and dec need
LEMMA RefsIn ==
  ASSUME RecvInv, NEW d \in InUse
  PROVE  /\ d \in Seq(Segment) /\ recvMgr \in RecvState
         /\ d # Null => recvMgr.refcnt[d[1].msg] # 0
  <1>1. TypeInv /\ PlaceInv /\ KnownInv /\ DescInv
    BY DEF RecvInv
  <1>2. recvMgr \in RecvState
    BY <1>1 DEF TypeInv
  <1>3. d \in Seq(Segment)
    BY <1>1, InUseIs
  <1>4. d # Null => recvMgr.refcnt[d[1].msg] = Count(d) /\ Count(d) # 0
    BY <1>1, InUseIs
  <1> QED  BY <1>2, <1>3, <1>4

\* A variable v is assigned the descriptor new.
LEMMA AssignInv ==
  ASSUME RecvInv, NEW v \in Vars, NEW new \in InUse, pc \in {"idle", "handler"},
         SendRetired(Assign(recvMgr, held[v], new)),
         held' = [held EXCEPT ![v] = new],
         UNCHANGED <<rmd, pc, segsAtEntry, fromMgr, wantedQueue, consSegs, published,
                     delivered, dropped>>
  PROVE  RecvInv'
  <1> DEFINE old == held[v]
             out == Assign(recvMgr, old, new)
  <1>1. old \in InUse
    BY DEF InUse
  <1>2. RefOut(recvMgr, out, old, new)
    <2> HIDE DEF old
    <2>1. /\ recvMgr \in RecvState /\ old \in Seq(Segment) /\ new \in Seq(Segment)
          /\ old # Null => recvMgr.refcnt[old[1].msg] # 0
          /\ new # Null => recvMgr.refcnt[new[1].msg] # 0
      BY <1>1, RefsIn
    <2> QED  BY <2>1, AssignIs
  <1>3. recvMgr' = [out EXCEPT !.retiredSegs = <<>>] /\ toMgr' = toMgr \o RetiredItems(out)
    BY DEF SendRetired
  <1> HIDE DEF out
  <1>4. held \in [Vars -> Seq(Segment)] /\ new \in Seq(Segment) /\ rmd \in Seq(Segment)
    BY RefsIn DEF RecvInv, TypeInv
  <1>5. recvMgr'.pendingMsg = recvMgr.pendingMsg
    <2>1. out \in RecvState /\ out.pendingMsg = recvMgr.pendingMsg
      BY <1>2 DEF RefOut
    <2> QED  BY <1>3, <2>1 DEF RecvState
  <1>6. ASSUME NEW d
        PROVE  CountOf(held', rmd', recvMgr'.pendingMsg, d)
                 = Count(d) + (IF d = new THEN 1 ELSE 0) - (IF d = old THEN 1 ELSE 0)
    <2>1. CountsMove(held, held', old, new)
      BY <1>4, CountHeld
    <2>2. rmd' = rmd
      OBVIOUS
    <2> DEFINE pm == recvMgr.pendingMsg
    <2>3. CountOf(held', rmd, pm, d)
            = CountOf(held, rmd, pm, d) + (IF d = new THEN 1 ELSE 0) - (IF d = old THEN 1 ELSE 0)
      <3> HIDE DEF pm, old
      <3> QED  BY <2>1, Zenon DEF CountsMove
    <2>4. CountOf(held', rmd', recvMgr'.pendingMsg, d) = CountOf(held', rmd, pm, d)
      BY <1>5, <2>2
    <2> QED  BY <2>3, <2>4 DEF Count
  <1>7. RefStep(out, old, new)
    BY <1>1, <1>2, <1>3, <1>6 DEF RefStep
  <1>8. /\ held' \in [Vars -> Seq(Segment)] /\ rmd' \in Seq(Segment) /\ delivered' = delivered
        /\ pc' \in Phases
        /\ rmd' # Null => pc' = "handler"
    BY <1>4 DEF RecvInv, ControlInv, Phases
  <1> QED  BY <1>7, <1>8, RefInv

\* The handler keeps a copy.
LEMMA KeepCopyKeeps ==
  ASSUME RecvInv, NEW v \in Vars, KeepCopy(v)
  PROVE  RecvInv'
  <1>1. rmd \in InUse
    BY DEF InUse
  <1> QED  BY <1>1, AssignInv DEF KeepCopy

\* One variable is assigned to another.
LEMMA AssignVarKeeps ==
  ASSUME RecvInv, NEW v \in Vars, NEW w \in Vars, AssignVar(v, w)
  PROVE  RecvInv'
  <1>1. held[w] \in InUse
    BY DEF InUse
  <1> QED  BY <1>1, AssignInv DEF AssignVar

\* A variable goes out of scope.
LEMMA DestroyKeeps ==
  ASSUME RecvInv, NEW v \in Vars, Destroy(v)
  PROVE  RecvInv'
  <1> DEFINE old == held[v]
             out == Dec(recvMgr, old)
  <1>1. old \in InUse
    BY DEF InUse
  <1>2. RefOut(recvMgr, out, old, Null)
    <2> HIDE DEF old
    <2>1. /\ recvMgr \in RecvState /\ old \in Seq(Segment)
          /\ old # Null => recvMgr.refcnt[old[1].msg] # 0
      BY <1>1, RefsIn
    <2> QED  BY <2>1, DecIs
  <1>3. /\ recvMgr' = [out EXCEPT !.retiredSegs = <<>>] /\ toMgr' = toMgr \o RetiredItems(out)
        /\ held' = [held EXCEPT ![v] = Null]
        /\ UNCHANGED <<rmd, pc, fromMgr, wantedQueue, consSegs, published, delivered, dropped>>
        /\ pc \in {"idle", "handler"}
    BY DEF SendRetired, Destroy
  <1> HIDE DEF out
  <1>4. held \in [Vars -> Seq(Segment)] /\ Null \in Seq(Segment) /\ rmd \in Seq(Segment)
    BY DEF RecvInv, TypeInv, Null
  <1>5. recvMgr'.pendingMsg = recvMgr.pendingMsg
    <2>1. out \in RecvState /\ out.pendingMsg = recvMgr.pendingMsg
      BY <1>2 DEF RefOut
    <2> QED  BY <1>3, <2>1 DEF RecvState
  <1>6. ASSUME NEW d
        PROVE  CountOf(held', rmd', recvMgr'.pendingMsg, d)
                 = Count(d) + (IF d = Null THEN 1 ELSE 0) - (IF d = old THEN 1 ELSE 0)
    <2>1. CountsMove(held, held', old, Null)
      BY <1>3, <1>4, CountHeld
    <2>2. rmd' = rmd
      BY <1>3
    <2> DEFINE pm == recvMgr.pendingMsg
    <2>3. CountOf(held', rmd, pm, d)
            = CountOf(held, rmd, pm, d) + (IF d = Null THEN 1 ELSE 0) - (IF d = old THEN 1 ELSE 0)
      <3> HIDE DEF pm, old
      <3> QED  BY <2>1, Zenon DEF CountsMove
    <2>4. CountOf(held', rmd', recvMgr'.pendingMsg, d) = CountOf(held', rmd, pm, d)
      BY <1>5, <2>2
    <2> QED  BY <2>3, <2>4 DEF Count
  <1>7. RefStep(out, old, Null)
    BY <1>1, <1>2, <1>3, <1>6 DEF RefStep
  <1>8. /\ held' \in [Vars -> Seq(Segment)] /\ rmd' \in Seq(Segment) /\ delivered' = delivered
        /\ pc' \in Phases
        /\ rmd' # Null => pc' = "handler"
    BY <1>3, <1>4 DEF RecvInv, ControlInv, Phases
  <1> QED  BY <1>3, <1>7, <1>8, RefInv

\* The handler returns, and the descriptor that it was called with is destroyed.
LEMMA HandlerReturnsKeeps ==
  ASSUME RecvInv, HandlerReturns
  PROVE  RecvInv'
  <1> DEFINE out == Dec(recvMgr, rmd)
  <1>1. rmd \in InUse
    BY DEF InUse
  <1>2. RefOut(recvMgr, out, rmd, Null)
    <2>1. /\ recvMgr \in RecvState /\ rmd \in Seq(Segment)
          /\ rmd # Null => recvMgr.refcnt[rmd[1].msg] # 0
      BY <1>1, RefsIn
    <2> QED  BY <2>1, DecIs
  <1>3. /\ recvMgr' = [out EXCEPT !.retiredSegs = <<>>] /\ toMgr' = toMgr \o RetiredItems(out)
        /\ rmd' = Null /\ pc = "handler" /\ pc' = "service"
        /\ UNCHANGED <<held, fromMgr, wantedQueue, consSegs, published, delivered, dropped>>
    BY DEF SendRetired, HandlerReturns
  <1> HIDE DEF out
  <1>4. held \in [Vars -> Seq(Segment)] /\ Null \in Seq(Segment) /\ rmd \in Seq(Segment)
    BY DEF RecvInv, TypeInv, Null
  <1>5. recvMgr'.pendingMsg = recvMgr.pendingMsg
    <2>1. out \in RecvState /\ out.pendingMsg = recvMgr.pendingMsg
      BY <1>2 DEF RefOut
    <2> QED  BY <1>3, <2>1 DEF RecvState
  <1>6. ASSUME NEW d
        PROVE  CountOf(held', rmd', recvMgr'.pendingMsg, d)
                 = Count(d) + (IF d = Null THEN 1 ELSE 0) - (IF d = rmd THEN 1 ELSE 0)
    <2> DEFINE c == Cardinality({v \in Vars : held[v] = d})
               p == (IF recvMgr.pendingMsg = d THEN 1 ELSE 0)
    <2>1. c \in Nat
      <3>1. IsFiniteSet({v \in Vars : held[v] = d})
        BY RecvAssumption, FS_Subset
      <3> QED  BY <3>1, FS_CardinalityType
    <2>2. Count(d) = c + (IF rmd = d THEN 1 ELSE 0) + p
      BY DEF Count, CountOf
    <2>3. CountOf(held', rmd', recvMgr'.pendingMsg, d) = c + (IF Null = d THEN 1 ELSE 0) + p
      BY <1>3, <1>5 DEF CountOf
    <2> HIDE DEF c
    <2> QED  BY <2>1, <2>2, <2>3
  <1>7. RefStep(out, rmd, Null)
    BY <1>1, <1>2, <1>3, <1>6 DEF RefStep
  <1>8. /\ held' \in [Vars -> Seq(Segment)] /\ rmd' \in Seq(Segment) /\ delivered' = delivered
        /\ pc' \in Phases
        /\ rmd' # Null => pc' = "handler" /\ pc \in {"idle", "handler"}
    BY <1>3, <1>4 DEF Phases
  <1> QED  BY <1>3, <1>7, <1>8, RefInv

\* The same descriptors are in use, as often.
LEMMA DescSame ==
  ASSUME DescInv, InUse' = InUse,
         \A d \in InUse \ {Null} :
            /\ CountOf(held', rmd', recvMgr'.pendingMsg, d) = Count(d)
            /\ recvMgr'.refcnt[d[1].msg] = recvMgr.refcnt[d[1].msg]
            /\ published'[d[1].msg] = published[d[1].msg],
         recvMgr'.busySegs = recvMgr.busySegs, ~dropped' => ~dropped
  PROVE  DescInv'
  <1> DEFINE U == InUse
             U2 == InUse'
  <1>1. /\ recvMgr.busySegs = UNION {Range(d) : d \in U}
        /\ \A d, e \in U : d # e => Range(d) \cap Range(e) = {}
    BY DEF DescInv
  <1>2. U2 = U
    OBVIOUS
  <1>3. ASSUME NEW d \in U \ {Null}
        PROVE  /\ IsInjective(d) /\ d[1].num = 0
               /\ recvMgr'.refcnt[d[1].msg] = CountOf(held', rmd', recvMgr'.pendingMsg, d)
               /\ ~dropped' => Len(d) = published'[d[1].msg].of
                               /\ \A i \in 1..Len(d) : d[i].msg = d[1].msg /\ d[i].num = i - 1
    BY DEF DescInv, Whole
  <1>4. InUse' = U2
    OBVIOUS
  <1> HIDE DEF U, U2
  <1>5. (\A d \in InUse \ {Null} :
             /\ IsInjective(d) /\ d[1].num = 0
             /\ recvMgr.refcnt[d[1].msg] = Count(d)
             /\ ~dropped => Whole(d))'
    BY <1>2, <1>3, <1>4 DEF Count, Whole, Null
  <1>6. (recvMgr.busySegs = UNION {Range(d) : d \in InUse})'
    BY <1>1, <1>2, <1>4 DEF Range
  <1>7. (\A d, e \in InUse : d # e => Range(d) \cap Range(e) = {})'
    BY <1>1, <1>2, <1>4 DEF Range
  <1> QED  BY <1>5, <1>6, <1>7 DEF DescInv

\* A step that takes a new message off the pending segments
FreshStep(drop, desc, left) ==
  /\ Taken(recvMgr.pendingSegs, drop, desc, left)
  /\ recvMgr' \in RecvState
  /\ recvMgr'.pendingSegs = left /\ recvMgr'.busySegs = recvMgr.busySegs \cup Range(desc)
  /\ recvMgr'.retiredSegs = <<>> /\ recvMgr'.refcnt = recvMgr.refcnt
  /\ \/ toMgr' = toMgr \o ItemsOf(drop)
     \/ toMgr' = (toMgr \o ItemsOf(drop)) \o <<Echo>>
  /\ recvMgr.pendingMsg = Null /\ rmd = Null
  /\ \/ recvMgr'.pendingMsg = desc /\ rmd' = Null
     \/ recvMgr'.pendingMsg = Null /\ rmd' = desc
  /\ UNCHANGED <<held, fromMgr, wantedQueue, consSegs, published, dropped>>

\* What was taken was pending, and comes before all that still waits.
LEMMA TakenIs ==
  ASSUME TypeInv, OrderInv, PlaceInv,
         NEW drop, NEW desc, NEW left, Taken(recvMgr.pendingSegs, drop, desc, left)
  PROVE  /\ Pending = Range(drop) \cup Range(desc) \cup Range(left)
         /\ IsInjective(drop) /\ IsInjective(desc) /\ IsInjective(drop \o desc)
         /\ drop \o desc \in Seq(Segment) /\ Range(drop \o desc) = Range(drop) \cup Range(desc)
         /\ AllBefore(Range(desc), Range(left) \cup SegsIn(fromMgr) \cup Queue)
         /\ AllBefore(Pending \ Range(left), Range(left))
         /\ desc # Null => desc[1] \in Pending /\ desc[1].num = 0 /\ desc[1] \in Waiting
  <1>1. /\ drop \in Seq(Segment) /\ desc \in Seq(Segment) /\ left \in Seq(Segment)
        /\ Sorted(drop) /\ Sorted(desc) /\ Sorted(left)
        /\ Pending = Range(drop) \cup Range(desc) \cup Range(left)
        /\ Range(drop) \cap Range(desc) = {}
        /\ AllBefore(Range(drop), Range(left)) /\ AllBefore(Range(desc), Range(left))
        /\ desc # Null => \A i \in 1..Len(desc) : desc[i].num = i - 1
    BY DEF Taken, Pending
  <1>2. IsInjective(drop) /\ IsInjective(desc)
    BY <1>1, SortedInjective
  <1>3. /\ drop \o desc \in Seq(Segment) /\ Range(drop \o desc) = Range(drop) \cup Range(desc)
        /\ IsInjective(drop \o desc)
    BY <1>1, <1>2, JoinLists
  <1>4. AllBefore(Range(desc), Range(left) \cup SegsIn(fromMgr) \cup Queue)
    BY <1>1 DEF AllBefore, OrderInv
  <1>5. AllBefore(Pending \ Range(left), Range(left))
    BY <1>1 DEF AllBefore
  <1>6. ASSUME desc # Null
        PROVE  desc[1] \in Pending /\ desc[1].num = 0 /\ desc[1] \in Waiting
    <2>1. desc[1] \in Range(desc) /\ 1 \in 1..Len(desc)
      BY <1>1, <1>6, FirstIs
    <2>2. desc[1].num = 1 - 1
      BY <1>1, <1>6, <2>1
    <2> QED  BY <1>1, <2>1, <2>2 DEF Waiting
  <1> QED  BY <1>1, <1>2, <1>3, <1>4, <1>5, <1>6

\* Such a step keeps the segments in place, and counts the new message once.
LEMMA FreshKeeps ==
  ASSUME RecvInv, NEW drop, NEW desc, NEW left, FreshStep(drop, desc, left)
  PROVE  ClientStep(drop) /\ DescInv' /\ FirstInv'
  <1> DEFINE U == InUse
             U2 == InUse'
             D == Range(desc)
             C2(d) == CountOf(held', rmd', recvMgr'.pendingMsg, d)
  <1>1. TypeInv /\ OrderInv /\ PlaceInv /\ KnownInv /\ GaplessInv /\ DescInv /\ FirstInv
    BY DEF RecvInv
  <1>2. /\ Taken(recvMgr.pendingSegs, drop, desc, left)
        /\ recvMgr' \in RecvState
        /\ recvMgr'.pendingSegs = left /\ recvMgr'.busySegs = recvMgr.busySegs \cup D
        /\ recvMgr'.retiredSegs = <<>> /\ recvMgr'.refcnt = recvMgr.refcnt
        /\ recvMgr.pendingMsg = Null /\ rmd = Null
        /\ \/ recvMgr'.pendingMsg = desc /\ rmd' = Null
           \/ recvMgr'.pendingMsg = Null /\ rmd' = desc
        /\ held' = held /\ published' = published /\ dropped' = dropped
    BY DEF FreshStep
  <1>3. /\ Pending = Range(drop) \cup D \cup Range(left)
        /\ IsInjective(drop) /\ IsInjective(desc)
        /\ AllBefore(Pending \ Range(left), Range(left))
        /\ desc # Null => desc[1] \in Pending /\ desc[1].num = 0 /\ desc[1] \in Waiting
    BY <1>1, <1>2, TakenIs
  <1>4. /\ drop \in Seq(Segment) /\ desc \in Seq(Segment) /\ left \in Seq(Segment) /\ Sorted(left)
        /\ Range(drop) \cap D = {} /\ Range(drop) \cap Range(left) = {} /\ D \cap Range(left) = {}
    BY <1>2 DEF Taken
  <1>5. Pending \cap recvMgr.busySegs = {}
    BY <1>1 DEF PlaceInv
  <1>6. ClientStep(drop)
    <2>1. /\ Range(left) \subseteq Pending
          /\ Range(left) \cap (recvMgr.busySegs \cup D) = {}
          /\ Range(left) \cap Range(drop) = {}
          /\ (recvMgr.busySegs \cup D) \cap Range(drop) = {}
          /\ Range(left) \cup (recvMgr.busySegs \cup D) \cup Range(drop)
               = Pending \cup recvMgr.busySegs
      BY <1>3, <1>4, <1>5
    <2> QED  BY <1>2, <1>3, <1>4, <2>1 DEF ClientStep, FreshStep
  <1>7. FirstInv'
    <2>1. Pending' \subseteq Pending
      BY <1>2, <1>3 DEF Pending
    <2> QED  BY <1>1, <1>2, <2>1 DEF FirstInv
  <1>8. /\ U = {held[v] : v \in Vars} \cup {Null}
        /\ U2 = {held[v] : v \in Vars} \cup {Null, desc}
    BY <1>2 DEF InUse
  <1>9. \A d \in U : d \in Seq(Segment) /\ Range(d) \subseteq recvMgr.busySegs
    BY <1>1, InUseIs
  <1>10. /\ recvMgr.busySegs = UNION {Range(d) : d \in U}
         /\ \A d, e \in U : d # e => Range(d) \cap Range(e) = {}
         /\ \A d \in U \ {Null} :
              /\ IsInjective(d) /\ d[1].num = 0 /\ recvMgr.refcnt[d[1].msg] = Count(d)
              /\ ~dropped => Whole(d)
    BY <1>1 DEF DescInv
  <1>11. ASSUME desc # Null
         PROVE  desc \notin U
    <2>1. desc[1] \in D
      BY <1>4, <1>11, FirstIs
    <2> QED  BY <1>3, <1>5, <1>9, <1>11, <2>1
  <1>12. ASSUME NEW d, d # Null
         PROVE  /\ d # desc => C2(d) = Count(d)
                /\ d = desc => C2(d) = 1
    <2> DEFINE S == {v \in Vars : held[v] = d}
               c == Cardinality(S)
    <2>1. Count(d) = c + (IF rmd = d THEN 1 ELSE 0) + (IF recvMgr.pendingMsg = d THEN 1 ELSE 0)
      BY DEF Count, CountOf
    <2>2. C2(d) = c + (IF rmd' = d THEN 1 ELSE 0) + (IF recvMgr'.pendingMsg = d THEN 1 ELSE 0)
      BY <1>2 DEF CountOf
    <2>3. c \in Nat
      <3>1. IsFiniteSet(S)
        BY RecvAssumption, FS_Subset
      <3> QED  BY <3>1, FS_CardinalityType
    <2>4. d = desc => S = {}
      BY <1>8, <1>11, <1>12
    <2>5. S = {} => c = 0
      BY FS_EmptySet
    <2> HIDE DEF S, c
    <2>6. CASE d # desc
      BY <1>2, <1>12, <2>1, <2>2, <2>3, <2>6
    <2>7. CASE d = desc
      <3>1. C2(d) = c + 0 + 1 \/ C2(d) = c + 1 + 0
        BY <1>2, <1>12, <2>2, <2>7
      <3> QED  BY <2>4, <2>5, <2>7, <3>1
    <2> QED  BY <2>6, <2>7
  <1>13. desc # Null => recvMgr.refcnt[desc[1].msg] = 1
    BY <1>1, <1>3 DEF FirstInv
  <1>14. ~dropped /\ desc # Null => Whole(desc)
    BY <1>1, <1>2, WholeDesc
  <1>15. \A x : x \notin Range(Null)
    BY DEF Range, Null
  <1> HIDE DEF C2
  <1>16. ASSUME NEW d \in U2 \ {Null}
         PROVE  /\ IsInjective(d) /\ d[1].num = 0 /\ recvMgr.refcnt[d[1].msg] = C2(d)
                /\ ~dropped => Whole(d)
    <2>1. CASE d = desc
      BY <1>3, <1>12, <1>13, <1>14, <1>16, <2>1
    <2>2. CASE d # desc
      <3>1. d \in U \ {Null}
        BY <1>8, <1>16, <2>2
      <3>2. C2(d) = Count(d)
        BY <1>12, <1>16, <2>2
      <3> QED  BY <1>10, <3>1, <3>2
    <2> QED  BY <2>1, <2>2
  <1>17. recvMgr'.busySegs = UNION {Range(d) : d \in U2}
    <2> HIDE DEF U, U2
    <2>1. \A x : x \in recvMgr.busySegs <=> \E d \in U : x \in Range(d)
      BY <1>10
    <2>2. \A d : d \in U2 <=> d \in U \/ d = desc
      BY <1>8
    <2>3. \A x : x \in recvMgr.busySegs \cup D <=> \E d \in U2 : x \in Range(d)
      BY <2>1, <2>2
    <2> QED  BY <1>2, <2>3
  <1>18. ASSUME NEW d \in U2, NEW e \in U2, d # e
         PROVE  Range(d) \cap Range(e) = {}
    <2>1. (d \in U \/ d = desc) /\ (e \in U \/ e = desc)
      BY <1>8
    <2>2. \A u \in U : Range(u) \cap D = {}
      BY <1>3, <1>5, <1>9
    <2> QED  BY <1>10, <1>18, <2>1, <2>2
  <1>19. DescInv'
    <2>1. InUse' = U2 /\ recvMgr'.refcnt = recvMgr.refcnt /\ published' = published
          /\ dropped' = dropped
      BY <1>2
    <2> HIDE DEF U2
    <2>2. (recvMgr.busySegs = UNION {Range(d) : d \in InUse})'
      BY <1>17, <2>1 DEF Range
    <2>3. (\A d, e \in InUse : d # e => Range(d) \cap Range(e) = {})'
      BY <1>18, <2>1 DEF Range
    <2>4. (\A d \in InUse \ {Null} :
             /\ IsInjective(d) /\ d[1].num = 0
             /\ recvMgr.refcnt[d[1].msg] = Count(d)
             /\ ~dropped => Whole(d))'
      BY <1>16, <2>1 DEF C2, Count, Whole, Null
    <2> QED  BY <2>2, <2>3, <2>4 DEF DescInv
  <1> QED  BY <1>6, <1>7, <1>19

\* What SendRetiredSegments leaves
LEMMA SentIs ==
  ASSUME NEW rm \in RecvState
  PROVE  LET new == [rm EXCEPT !.retiredSegs = <<>>]
         IN  /\ new \in RecvState /\ new.pendingSegs = rm.pendingSegs
             /\ new.busySegs = rm.busySegs /\ new.retiredSegs = <<>> /\ new.refcnt = rm.refcnt
             /\ new.pendingMsg = rm.pendingMsg
             /\ RetiredItems(rm) = ItemsOf(rm.retiredSegs)
  <1>1. rm.retiredSegs \in Seq(Segment) /\ <<>> \in Seq(Segment)
    BY DEF RecvState
  <1>2. RetiredItems(rm) = ItemsOf(rm.retiredSegs)
    <2>1. DOMAIN rm.retiredSegs = 1..Len(rm.retiredSegs)
      BY <1>1
    <2> QED  BY <2>1 DEF RetiredItems, ItemsOf
  <1>3. [rm EXCEPT !.retiredSegs = <<>>] \in RecvState
    BY <1>1 DEF RecvState
  <1> QED  BY <1>2, <1>3 DEF RecvState

\* The order of delivery, when a new message is kept for later or delivered.
LEMMA FreshDelivered ==
  ASSUME RecvInv, NEW drop, NEW desc, NEW left, FreshStep(drop, desc, left),
         \/ recvMgr'.pendingMsg = desc /\ delivered' = delivered
         \/ /\ recvMgr'.pendingMsg = Null
            /\ delivered' = delivered \cup {g.msg : g \in Range(desc)}
  PROVE  /\ DeliveredInv' /\ delivered' \in SUBSET Msgs
         /\ desc # Null => \A m \in delivered : m < desc[1].msg
  <1> DEFINE D == Range(desc)
             W == Waiting
             W2 == Waiting'
             pm2 == recvMgr'.pendingMsg
             n == Len(published)
  <1>1. TypeInv /\ OrderInv /\ PlaceInv /\ KnownInv /\ DeliveredInv
    BY DEF RecvInv
  <1>2. /\ Taken(recvMgr.pendingSegs, drop, desc, left) /\ recvMgr'.pendingSegs = left
        /\ published' = published /\ fromMgr' = fromMgr /\ wantedQueue' = wantedQueue
    BY DEF FreshStep
  <1>3. /\ AllBefore(D, Range(left) \cup SegsIn(fromMgr) \cup Queue)
        /\ Pending = Range(drop) \cup D \cup Range(left)
        /\ desc # Null => desc[1] \in W /\ desc[1].num = 0
    BY <1>1, <1>2, TakenIs
  <1>4. desc \in Seq(Segment) /\ D \subseteq Segment
    BY <1>2, RangeIs DEF Taken
  <1>5. W2 = Range(left) \cup SegsIn(fromMgr) \cup Queue /\ W2 \subseteq W
    BY <1>2, <1>3 DEF Waiting, Pending, Queue, SegsIn
  <1>6. W \subseteq Segment /\ D \subseteq Present
    BY <1>1, <1>3, WaitingIs DEF Waiting
  <1>7. /\ \A m \in delivered : m <= n
        /\ \A m \in delivered, g \in W : m < g.msg \/ (m = g.msg /\ g.num > 0)
        /\ delivered \in SUBSET Msgs
    BY <1>1 DEF DeliveredInv, TypeInv
  <1>8. Waiting' = W2 /\ recvMgr'.pendingMsg = pm2 /\ published' = published
    BY <1>2
  <1>9. AllBefore(D, W2)
    BY <1>3, <1>5
  <1>10. ASSUME desc # Null
         PROVE  \A m \in delivered : m < desc[1].msg
    <2>1. desc[1] \in W /\ desc[1].num = 0 /\ ~(desc[1].num > 0)
      BY <1>3, <1>10
    <2> QED  BY <1>7, <2>1
  <1>11. \A g \in D : g.msg \in Msgs /\ g.msg <= n /\ g.num \in Nat
    BY <1>1, <1>4, <1>6 DEF KnownInv, Segment
  <1> HIDE DEF D, W, W2, pm2
  <1>12. ASSUME NEW g \in D, NEW h \in W2
         PROVE  g.msg < h.msg \/ (g.msg = h.msg /\ h.num > 0)
    <2>1. Before(g, h)
      BY <1>9 DEF AllBefore
    <2>2. g.num \in Nat /\ h.num \in Nat
      BY <1>5, <1>6, <1>11 DEF Segment
    <2> QED  BY <2>1, <2>2 DEF Before
  <1>13. \/ pm2 = desc /\ delivered' = delivered
         \/ pm2 = Null /\ delivered' = delivered \cup {g.msg : g \in D}
    BY DEF pm2, D
  <1>14. \A m \in delivered' : m \in delivered \/ \E g \in D : m = g.msg
    BY <1>13
  <1>15. delivered' \in SUBSET Msgs
    BY <1>7, <1>11, <1>14
  <1>16. (\A m \in delivered : m <= Len(published))'
    BY <1>7, <1>8, <1>11, <1>14
  <1>17. (\A m \in delivered, g \in Waiting : m < g.msg \/ (m = g.msg /\ g.num > 0))'
    <2> SUFFICES ASSUME NEW m \in delivered', NEW h \in W2
                 PROVE  m < h.msg \/ (m = h.msg /\ h.num > 0)
      BY <1>8
    <2> QED  BY <1>5, <1>7, <1>12, <1>14
  <1>18. AllBefore(Range(recvMgr.pendingMsg), Waiting)'
    <2>1. \A x : x \notin Range(Null)
      BY DEF Range, Null
    <2>2. AllBefore(Range(pm2), W2)
      BY <1>9, <1>13, <2>1 DEF AllBefore, D
    <2> QED  BY <1>8, <2>2 DEF AllBefore, Range
  <1>19. (recvMgr.pendingMsg # Null => \A m \in delivered : m < recvMgr.pendingMsg[1].msg)'
    BY <1>8, <1>10, <1>13 DEF Null
  <1> QED  BY <1>10, <1>15, <1>16, <1>17, <1>18, <1>19 DEF DeliveredInv

\* The message that PendingMessage finds, if none was found before
LEMMA PendingIs ==
  ASSUME RecvInv, recvMgr.pendingMsg = Null
  PROVE  \E drop, desc, left \in Seq(Segment) :
           LET rm == PendingMessage(recvMgr)
           IN  /\ Taken(recvMgr.pendingSegs, drop, desc, left)
               /\ rm \in RecvState /\ rm.pendingSegs = left
               /\ rm.busySegs = recvMgr.busySegs \cup Range(desc)
               /\ rm.retiredSegs = drop /\ rm.refcnt = recvMgr.refcnt /\ rm.pendingMsg = desc
  <1> DEFINE got == GetMessageDescriptor(recvMgr)
             rm == [got.rm EXCEPT !.pendingMsg = got.desc]
  <1>1. recvMgr \in RecvState /\ Sorted(recvMgr.pendingSegs) /\ recvMgr.retiredSegs = <<>>
    BY DEF RecvInv, TypeInv, OrderInv, PlaceInv
  <1>2. PICK drop, desc, left \in Seq(Segment) :
           /\ Taken(recvMgr.pendingSegs, drop, desc, left)
           /\ TakenFrom(recvMgr, got.rm, drop, desc, left) /\ got.desc = desc
    BY <1>1, GotIs
  <1>3. PendingMessage(recvMgr) = rm
    BY DEF PendingMessage
  <1> HIDE DEF got
  <1>4. /\ got.rm \in RecvState /\ got.rm.pendingSegs = left /\ got.rm.retiredSegs = drop
        /\ got.rm.busySegs = recvMgr.busySegs \cup Range(desc) /\ got.rm.refcnt = recvMgr.refcnt
    <2>1. <<>> \o drop = drop
      OBVIOUS
    <2> QED  BY <1>1, <1>2, <2>1 DEF TakenFrom
  <1>5. rm \in RecvState
    BY <1>2, <1>4 DEF RecvState
  <1>6. /\ rm.pendingSegs = left /\ rm.retiredSegs = drop /\ rm.pendingMsg = desc
        /\ rm.busySegs = recvMgr.busySegs \cup Range(desc) /\ rm.refcnt = recvMgr.refcnt
    BY <1>2, <1>4 DEF RecvState
  <1> QED  BY <1>2, <1>3, <1>5, <1>6

\* Outside GetRecvMsgDesc no message is kept, and outside a handler no descriptor.
LEMMA NoneKept ==
  ASSUME RecvInv
  PROVE  /\ pc # "get" => recvMgr.pendingMsg = Null
         /\ pc # "handler" => rmd = Null
  BY DEF RecvInv, ControlInv

\* PendingRecvMessage finds a message.
LEMMA PendingRecvMessageKeeps ==
  ASSUME RecvInv, PendingRecvMessage
  PROVE  RecvInv'
  <1> DEFINE rm == PendingMessage(recvMgr)
  <1>1. /\ pc = "service" /\ pc' = "get" /\ SendRetired(rm)
        /\ UNCHANGED <<held, rmd, fromMgr, wantedQueue, consSegs, published, delivered, dropped>>
    BY DEF PendingRecvMessage
  <1>2. recvMgr.pendingMsg = Null /\ rmd = Null
    BY <1>1, NoneKept
  <1>3. PICK drop, desc, left \in Seq(Segment) :
               /\ Taken(recvMgr.pendingSegs, drop, desc, left)
               /\ rm \in RecvState /\ rm.pendingSegs = left
               /\ rm.busySegs = recvMgr.busySegs \cup Range(desc)
               /\ rm.retiredSegs = drop /\ rm.refcnt = recvMgr.refcnt /\ rm.pendingMsg = desc
    BY <1>2, PendingIs
  <1>4. recvMgr' = [rm EXCEPT !.retiredSegs = <<>>] /\ toMgr' = toMgr \o RetiredItems(rm)
    BY <1>1 DEF SendRetired
  <1> HIDE DEF rm
  <1>5. /\ recvMgr' \in RecvState /\ recvMgr'.pendingSegs = left
        /\ recvMgr'.busySegs = recvMgr.busySegs \cup Range(desc)
        /\ recvMgr'.retiredSegs = <<>> /\ recvMgr'.refcnt = recvMgr.refcnt
        /\ recvMgr'.pendingMsg = desc /\ toMgr' = toMgr \o ItemsOf(drop)
    BY <1>3, <1>4, SentIs
  <1>6. FreshStep(drop, desc, left)
    BY <1>1, <1>2, <1>3, <1>5 DEF FreshStep
  <1>7. ClientStep(drop) /\ DescInv' /\ FirstInv'
    BY <1>6, FreshKeeps
  <1>8. DeliveredInv' /\ delivered' \in SUBSET Msgs
    BY <1>1, <1>5, <1>6, FreshDelivered
  <1>9. ControlInv'
    <2>1. ASSUME desc # Null, NEW v \in Vars
          PROVE  held[v] # desc
      <3>1. TypeInv /\ OrderInv /\ PlaceInv /\ KnownInv /\ DescInv
        BY DEF RecvInv
      <3>2. desc[1] \in Pending /\ desc[1] \in Range(desc)
        BY <1>3, <2>1, <3>1, TakenIs, FirstIs
      <3>3. held[v] \in InUse
        BY DEF InUse
      <3>4. Range(held[v]) \subseteq recvMgr.busySegs
        BY <3>1, <3>3, InUseIs
      <3>5. Pending \cap recvMgr.busySegs = {}
        BY <3>1 DEF PlaceInv
      <3> QED  BY <3>2, <3>4, <3>5
    <2> QED  BY <1>1, <1>2, <1>5, <2>1 DEF ControlInv, Null
  <1>10. /\ held' \in [Vars -> Seq(Segment)] /\ rmd' \in Seq(Segment)
         /\ pc' \in Phases
    BY <1>1 DEF RecvInv, TypeInv, Phases
  <1> QED  BY <1>7, <1>8, <1>9, <1>10, ClientInv

\* A step that leaves all segments where they are
LEMMA SameInv ==
  ASSUME RecvInv, recvMgr' \in RecvState, recvMgr'.pendingSegs = recvMgr.pendingSegs,
         recvMgr'.busySegs = recvMgr.busySegs, recvMgr'.retiredSegs = <<>>,
         recvMgr'.refcnt = recvMgr.refcnt,
         InUse' = InUse,
         \A d : CountOf(held', rmd', recvMgr'.pendingMsg, d) = Count(d),
         toMgr' = toMgr \/ toMgr' = toMgr \o <<Echo>>,
         UNCHANGED <<held, fromMgr, wantedQueue, consSegs, published, dropped>>,
         rmd' \in Seq(Segment), delivered' \in SUBSET Msgs,
         pc' \in Phases,
         DeliveredInv', ControlInv'
  PROVE  RecvInv'
  <1>1. TypeInv /\ OrderInv /\ PlaceInv /\ DescInv /\ FirstInv
    BY DEF RecvInv
  <1>2. ClientStep(<<>>)
    <2>1. <<>> \in Seq(Segment) /\ IsInjective(<<>>) /\ Range(<<>>) = {}
      BY DEF IsInjective, Range
    <2>2. Range(recvMgr'.pendingSegs) = Pending
      BY DEF Pending
    <2>3. Pending \cap recvMgr.busySegs = {} /\ Sorted(recvMgr.pendingSegs)
      BY <1>1 DEF PlaceInv, OrderInv
    <2>4. AllBefore(Pending \ Pending, Pending)
      BY DEF AllBefore
    <2>5. toMgr \o ItemsOf(<<>>) = toMgr
      <3>1. toMgr \in Seq(Item)
        BY <1>1 DEF TypeInv
      <3>2. ItemsOf(<<>>) = <<>>
        BY DEF ItemsOf
      <3> QED  BY <3>1, <3>2
    <2> QED  BY <2>1, <2>2, <2>3, <2>4, <2>5 DEF ClientStep
  <1>3. DescInv'
    <2>1. \A d \in InUse \ {Null} :
            /\ CountOf(held', rmd', recvMgr'.pendingMsg, d) = Count(d)
            /\ recvMgr'.refcnt[d[1].msg] = recvMgr.refcnt[d[1].msg]
            /\ published'[d[1].msg] = published[d[1].msg]
      OBVIOUS
    <2>2. dropped' = dropped
      OBVIOUS
    <2> QED  BY <1>1, <2>1, <2>2, DescSame
  <1>4. FirstInv'
    BY <1>1 DEF FirstInv, Pending
  <1>5. held' \in [Vars -> Seq(Segment)]
    BY <1>1 DEF TypeInv
  <1> QED  BY <1>2, <1>3, <1>4, <1>5, ClientInv

\* Client::Poll starts to service what it read.
LEMMA StartServiceKeeps ==
  ASSUME RecvInv, StartService
  PROVE  RecvInv'
  <1>1. /\ pc = "poll" /\ pc' = "service"
        /\ UNCHANGED <<recvMgr, held, rmd, toMgr, fromMgr, wantedQueue, consSegs,
                       published, delivered, dropped>>
    BY DEF StartService
  <1>2. TypeInv /\ PlaceInv /\ DeliveredInv
    BY DEF RecvInv
  <1>3. recvMgr \in RecvState /\ recvMgr.retiredSegs = <<>> /\ rmd \in Seq(Segment)
        /\ delivered \in SUBSET Msgs
    BY <1>2 DEF TypeInv, PlaceInv
  <1>4. InUse' = InUse /\ \A d : CountOf(held', rmd', recvMgr'.pendingMsg, d) = Count(d)
    BY <1>1 DEF InUse, Count
  <1>5. Waiting' = Waiting
    BY <1>1 DEF Waiting, Pending, Queue, SegsIn
  <1>6. DeliveredInv'
    BY <1>1, <1>2, <1>5, DeliveredKept
  <1>7. ControlInv'
    BY <1>1, NoneKept DEF ControlInv, Null
  <1> QED  BY <1>1, <1>3, <1>4, <1>6, <1>7, SameInv DEF Phases

\* Client::Poll ends, with an echo if it leaves something.
LEMMA PollReturnsKeeps ==
  ASSUME RecvInv, PollReturns
  PROVE  RecvInv'
  <1> DEFINE rm == IF EntrySegsDone THEN recvMgr ELSE PendingMessage(recvMgr)
  <1>1. /\ pc = "service" /\ pc' = "idle"
        /\ EntrySegsDone \/ PendingMessage(recvMgr).pendingMsg = Null
        /\ recvMgr' = [rm EXCEPT !.retiredSegs = <<>>]
        /\ toMgr' = toMgr \o RetiredItems(rm) \o (IF LeavesWork(rm) THEN <<Echo>> ELSE <<>>)
        /\ UNCHANGED <<held, rmd, fromMgr, wantedQueue, consSegs, published, delivered, dropped>>
    BY DEF PollReturns
  <1>2. recvMgr.pendingMsg = Null /\ rmd = Null
    BY <1>1, NoneKept
  <1>3. TypeInv /\ PlaceInv /\ DeliveredInv
    BY DEF RecvInv
  <1>4. /\ recvMgr \in RecvState /\ recvMgr.retiredSegs = <<>> /\ toMgr \in Seq(Item)
        /\ delivered \in SUBSET Msgs /\ held \in [Vars -> Seq(Segment)] /\ rmd \in Seq(Segment)
    BY <1>3 DEF TypeInv, PlaceInv
  <1>5. ASSUME NEW r \in Seq(Segment), RetiredItems(rm) = ItemsOf(r)
        PROVE  \/ toMgr' = toMgr \o ItemsOf(r)
               \/ toMgr' = (toMgr \o ItemsOf(r)) \o <<Echo>>
    <2> DEFINE t == toMgr \o ItemsOf(r)
    <2>1. t \in Seq(Item)
      BY <1>4, <1>5, AddItems
    <2>2. toMgr' = t \o <<Echo>> \/ toMgr' = t \o <<>>
      BY <1>1, <1>5
    <2> HIDE DEF t
    <2>3. toMgr' = t \o <<Echo>> \/ toMgr' = t
      BY <2>1, <2>2
    <2> QED  BY <2>3 DEF t
  <1>6. CASE EntrySegsDone
    <2>1. recvMgr' = [recvMgr EXCEPT !.retiredSegs = <<>>]
      BY <1>1, <1>6
    <2>2. /\ recvMgr' \in RecvState /\ recvMgr'.pendingSegs = recvMgr.pendingSegs
          /\ recvMgr'.busySegs = recvMgr.busySegs /\ recvMgr'.retiredSegs = <<>>
          /\ recvMgr'.refcnt = recvMgr.refcnt /\ recvMgr'.pendingMsg = recvMgr.pendingMsg
          /\ RetiredItems(recvMgr) = ItemsOf(<<>>)
      BY <1>4, <2>1, SentIs
    <2>3. toMgr' = toMgr \/ toMgr' = toMgr \o <<Echo>>
      <3>1. <<>> \in Seq(Segment) /\ RetiredItems(rm) = ItemsOf(<<>>)
        BY <1>6, <2>2
      <3>2. ItemsOf(<<>>) = <<>>
        BY DEF ItemsOf
      <3>3. toMgr \o <<>> = toMgr
        BY <1>4
      <3> QED  BY <1>5, <3>1, <3>2, <3>3
    <2>4. InUse' = InUse /\ \A d : CountOf(held', rmd', recvMgr'.pendingMsg, d) = Count(d)
      BY <1>1, <2>2 DEF InUse, Count
    <2>5. Waiting' = Waiting
      BY <1>1, <2>2 DEF Waiting, Pending, Queue, SegsIn
    <2>6. DeliveredInv'
      BY <1>1, <1>3, <2>2, <2>5, DeliveredKept
    <2>7. ControlInv'
      BY <1>1, <1>2, <2>2 DEF ControlInv, Null
    <2> QED  BY <1>1, <1>4, <2>2, <2>3, <2>4, <2>6, <2>7, SameInv DEF Phases
  <1>7. CASE ~EntrySegsDone
    <2>1. PICK drop, desc, left \in Seq(Segment) :
               /\ Taken(recvMgr.pendingSegs, drop, desc, left)
               /\ rm \in RecvState /\ rm.pendingSegs = left
               /\ rm.busySegs = recvMgr.busySegs \cup Range(desc)
               /\ rm.retiredSegs = drop /\ rm.refcnt = recvMgr.refcnt /\ rm.pendingMsg = desc
      BY <1>2, <1>7, PendingIs
    <2>2. desc = Null
      BY <1>1, <1>7, <2>1
    <2> HIDE DEF rm
    <2>3. /\ recvMgr' \in RecvState /\ recvMgr'.pendingSegs = left
          /\ recvMgr'.busySegs = recvMgr.busySegs \cup Range(desc)
          /\ recvMgr'.retiredSegs = <<>> /\ recvMgr'.refcnt = recvMgr.refcnt
          /\ recvMgr'.pendingMsg = desc /\ RetiredItems(rm) = ItemsOf(drop)
      BY <1>1, <2>1, SentIs
    <2>4. \/ toMgr' = toMgr \o ItemsOf(drop)
          \/ toMgr' = (toMgr \o ItemsOf(drop)) \o <<Echo>>
      BY <1>5, <2>1, <2>3
    <2>5. FreshStep(drop, desc, left)
      BY <1>1, <1>2, <2>1, <2>3, <2>4 DEF FreshStep
    <2>6. ClientStep(drop) /\ DescInv' /\ FirstInv'
      BY <2>5, FreshKeeps
    <2>7. DeliveredInv' /\ delivered' \in SUBSET Msgs
      BY <1>1, <2>3, <2>5, FreshDelivered
    <2>8. ControlInv'
      BY <1>1, <1>2, <2>2, <2>3 DEF ControlInv, Null
    <2>9. /\ held' \in [Vars -> Seq(Segment)] /\ rmd' \in Seq(Segment)
          /\ pc' \in Phases
      BY <1>1, <1>4 DEF Phases
    <2> QED  BY <2>6, <2>7, <2>8, <2>9, ClientInv
  <1> QED  BY <1>6, <1>7

\* GetMessageDescriptor, when PendingMessage has kept a message.
LEMMA KeptIs ==
  ASSUME NEW rm \in RecvState, rm.pendingMsg # Null
  PROVE  LET got == GetMessageDescriptor(rm)
         IN  /\ got.rm \in RecvState /\ got.desc = rm.pendingMsg
             /\ got.rm.pendingSegs = rm.pendingSegs /\ got.rm.busySegs = rm.busySegs
             /\ got.rm.retiredSegs = rm.retiredSegs /\ got.rm.refcnt = rm.refcnt
             /\ got.rm.pendingMsg = Null
  <1> DEFINE new == [rm EXCEPT !.pendingMsg = Null]
             got == GetMessageDescriptor(rm)
  <1>1. got.rm = new /\ got.desc = rm.pendingMsg
    BY DEF GetMessageDescriptor
  <1>2. Null \in Seq(Segment)
    BY DEF Null
  <1>3. new \in RecvState
    BY <1>2 DEF RecvState
  <1>4. /\ new.pendingSegs = rm.pendingSegs /\ new.busySegs = rm.busySegs
        /\ new.retiredSegs = rm.retiredSegs /\ new.refcnt = rm.refcnt /\ new.pendingMsg = Null
    BY DEF RecvState
  <1> QED  BY <1>1, <1>3, <1>4

\* The handlers are called, in the order of publication.
LEMMA CallHandlerKeeps ==
  ASSUME RecvInv, CallHandler
  PROVE  /\ RecvInv' /\ (pc' = "handler" => rmd' # Null)
         /\ rmd' # Null => \A m \in delivered : m < rmd'[1].msg
  <1> DEFINE got == GetMessageDescriptor(recvMgr)
             rm == got.rm
  <1>1. /\ pc = "get" /\ rmd' = got.desc
        /\ pc' \in {"handler", "crashed"} /\ (rmd' # Null <=> pc' = "handler")
        /\ recvMgr' = [rm EXCEPT !.retiredSegs = <<>>] /\ toMgr' = toMgr \o RetiredItems(rm)
        /\ delivered' = delivered \cup {g.msg : g \in Range(got.desc)}
        /\ UNCHANGED <<held, fromMgr, wantedQueue, consSegs, published, dropped>>
    BY DEF CallHandler, SendRetired
  <1>2. rmd = Null
    BY <1>1, NoneKept
  <1>3. TypeInv /\ OrderInv /\ PlaceInv /\ DeliveredInv /\ DescInv /\ KnownInv
    BY DEF RecvInv
  <1>4. /\ recvMgr \in RecvState /\ recvMgr.retiredSegs = <<>> /\ toMgr \in Seq(Item)
        /\ delivered \in SUBSET Msgs /\ held \in [Vars -> Seq(Segment)]
        /\ Sorted(recvMgr.pendingSegs)
    BY <1>3 DEF TypeInv, PlaceInv, OrderInv
  <1>5. CASE recvMgr.pendingMsg = Null
    <2>1. PICK drop, desc, left \in Seq(Segment) :
             /\ Taken(recvMgr.pendingSegs, drop, desc, left)
             /\ TakenFrom(recvMgr, rm, drop, desc, left) /\ got.desc = desc
      BY <1>4, <1>5, GotIs
    <2> HIDE DEF got, rm
    <2>2. /\ rm \in RecvState /\ rm.pendingSegs = left /\ rm.retiredSegs = drop
          /\ rm.busySegs = recvMgr.busySegs \cup Range(desc) /\ rm.refcnt = recvMgr.refcnt
          /\ rm.pendingMsg = Null
      <3>1. <<>> \o drop = drop
        BY <2>1
      <3> QED  BY <1>4, <2>1, <3>1 DEF TakenFrom
    <2>3. /\ recvMgr' \in RecvState /\ recvMgr'.pendingSegs = left
          /\ recvMgr'.busySegs = recvMgr.busySegs \cup Range(desc)
          /\ recvMgr'.retiredSegs = <<>> /\ recvMgr'.refcnt = recvMgr.refcnt
          /\ recvMgr'.pendingMsg = Null /\ toMgr' = toMgr \o ItemsOf(drop)
      BY <1>1, <2>2, SentIs
    <2>4. rmd' = desc
      BY <1>1, <2>1
    <2>5. FreshStep(drop, desc, left)
      BY <1>1, <1>2, <1>5, <2>1, <2>3, <2>4 DEF FreshStep
    <2>6. ClientStep(drop) /\ DescInv' /\ FirstInv'
      BY <2>5, FreshKeeps
    <2>7. delivered' = delivered \cup {g.msg : g \in Range(desc)}
      BY <1>1, <2>1
    <2>8. /\ DeliveredInv' /\ delivered' \in SUBSET Msgs
          /\ desc # Null => \A m \in delivered : m < desc[1].msg
      BY <2>3, <2>5, <2>7, FreshDelivered
    <2>9. ControlInv'
      BY <1>1, <2>3 DEF ControlInv, Null
    <2>10. /\ held' \in [Vars -> Seq(Segment)] /\ rmd' \in Seq(Segment)
           /\ pc' \in Phases
      BY <1>1, <1>4, <2>1, <2>4 DEF Phases
    <2>11. RecvInv'
      BY <2>6, <2>8, <2>9, <2>10, ClientInv
    <2> QED  BY <1>1, <2>4, <2>8, <2>11
  <1>6. CASE recvMgr.pendingMsg # Null
    <2> DEFINE pm == recvMgr.pendingMsg
    <2>1. /\ rm \in RecvState /\ got.desc = pm
          /\ rm.pendingSegs = recvMgr.pendingSegs /\ rm.busySegs = recvMgr.busySegs
          /\ rm.retiredSegs = <<>> /\ rm.refcnt = recvMgr.refcnt /\ rm.pendingMsg = Null
      BY <1>4, <1>6, KeptIs
    <2> HIDE DEF got, rm
    <2>2. /\ recvMgr' \in RecvState /\ recvMgr'.pendingSegs = recvMgr.pendingSegs
          /\ recvMgr'.busySegs = recvMgr.busySegs /\ recvMgr'.retiredSegs = <<>>
          /\ recvMgr'.refcnt = recvMgr.refcnt /\ recvMgr'.pendingMsg = Null
          /\ toMgr' = toMgr \o ItemsOf(<<>>)
      BY <1>1, <2>1, SentIs
    <2>3. toMgr' = toMgr
      <3>1. ItemsOf(<<>>) = <<>>
        BY DEF ItemsOf
      <3> QED  BY <1>4, <2>2, <3>1
    <2>4. rmd' = pm /\ held' = held
      BY <1>1, <2>1
    <2>5. InUse' = InUse
      BY <1>2, <2>2, <2>4 DEF InUse
    <2>6. ASSUME NEW d
          PROVE  CountOf(held', rmd', recvMgr'.pendingMsg, d) = Count(d)
      <3> DEFINE c == Cardinality({v \in Vars : held[v] = d})
      <3>1. c \in Nat
        <4>1. IsFiniteSet({v \in Vars : held[v] = d})
          BY RecvAssumption, FS_Subset
        <4> QED  BY <4>1, FS_CardinalityType
      <3>2. Count(d) = c + (IF Null = d THEN 1 ELSE 0) + (IF pm = d THEN 1 ELSE 0)
        BY <1>2 DEF Count, CountOf
      <3>3. CountOf(held', rmd', recvMgr'.pendingMsg, d)
              = c + (IF pm = d THEN 1 ELSE 0) + (IF Null = d THEN 1 ELSE 0)
        BY <2>2, <2>4 DEF CountOf
      <3> HIDE DEF c, pm
      <3> QED  BY <3>1, <3>2, <3>3
    <2>7. /\ pm \in Seq(Segment) /\ Range(pm) \subseteq Segment /\ Range(pm) \subseteq Present
      <3>1. pm \in InUse
        BY DEF InUse
      <3>2. pm \in Seq(Segment) /\ Range(pm) \subseteq recvMgr.busySegs
        BY <1>3, <3>1, InUseIs
      <3> QED  BY <1>3, <3>2, WaitingIs
    <2>8. Waiting' = Waiting /\ Waiting \subseteq Segment
      <3>1. Waiting' = Waiting
        BY <1>1, <2>2 DEF Waiting, Pending, Queue, SegsIn
      <3>2. Waiting \subseteq Segment
        BY <1>3, WaitingIs DEF Waiting
      <3> QED  BY <3>1, <3>2
    <2>9. /\ \A m \in delivered : m < pm[1].msg /\ m <= Len(published)
          /\ \A m \in delivered, g \in Waiting : m < g.msg \/ (m = g.msg /\ g.num > 0)
          /\ AllBefore(Range(pm), Waiting)
      BY <1>3, <1>6 DEF DeliveredInv
    <2>10. delivered' = delivered \cup {g.msg : g \in Range(pm)}
      BY <1>1, <2>1
    <2>11. \A g \in Range(pm) : g.msg \in Msgs /\ g.msg <= Len(published) /\ g.num \in Nat
      BY <1>3, <2>7 DEF KnownInv, Segment
    <2>12. delivered' \in SUBSET Msgs
      BY <1>4, <2>10, <2>11
    <2>13. DeliveredInv'
      <3> DEFINE W == Waiting
                 W2 == Waiting'
      <3>1. W2 = W /\ W \subseteq Segment
        BY <2>8
      <3>2. ASSUME NEW g \in Range(pm), NEW h \in W
            PROVE  g.msg < h.msg \/ (g.msg = h.msg /\ h.num > 0)
        <4>1. Before(g, h) /\ g.num \in Nat /\ h.num \in Nat
          BY <2>9, <2>11, <3>1 DEF AllBefore, Segment
        <4> QED  BY <4>1 DEF Before
      <3>3. \A m \in delivered' : m \in delivered \/ \E g \in Range(pm) : m = g.msg
        BY <2>10
      <3>4. \A m \in delivered, g \in W : m < g.msg \/ (m = g.msg /\ g.num > 0)
        BY <2>9
      <3>5. Waiting' = W2 /\ published' = published
        BY <1>1
      <3> HIDE DEF W, W2, pm
      <3>6. (\A m \in delivered : m <= Len(published))'
        BY <2>9, <2>11, <3>3, <3>5
      <3>7. (\A m \in delivered, g \in Waiting : m < g.msg \/ (m = g.msg /\ g.num > 0))'
        BY <3>1, <3>2, <3>3, <3>4, <3>5
      <3>8. AllBefore(Range(recvMgr.pendingMsg), Waiting)'
        <4>1. Range(Null) = {}
          BY DEF Range, Null
        <4> QED  BY <2>2, <4>1 DEF AllBefore, Range, Null
      <3>9. (recvMgr.pendingMsg # Null => \A m \in delivered : m < recvMgr.pendingMsg[1].msg)'
        BY <2>2 DEF Null
      <3> QED  BY <3>6, <3>7, <3>8, <3>9 DEF DeliveredInv
    <2>14. ControlInv'
      BY <1>1, <2>2 DEF ControlInv, Null
    <2>15. RecvInv'
      BY <1>1, <2>2, <2>3, <2>4, <2>5, <2>6, <2>7, <2>12, <2>13, <2>14, SameInv DEF Phases
    <2> QED  BY <1>1, <2>4, <2>9, <2>15
  <1> QED  BY <1>5, <1>6

\* ReleaseMessageDescriptor retires the segments.
LEMMA ReleaseIs ==
  ASSUME NEW rm \in RecvState, NEW d \in Seq(Segment)
  PROVE  LET new == ReleaseMessageDescriptor(rm, d)
         IN  /\ new \in RecvState /\ new.pendingSegs = rm.pendingSegs
             /\ new.busySegs = rm.busySegs \ Range(d) /\ new.retiredSegs = rm.retiredSegs \o d
             /\ new.refcnt = rm.refcnt /\ new.pendingMsg = rm.pendingMsg
  <1> DEFINE new == [rm EXCEPT !.busySegs = rm.busySegs \ Range(d),
                               !.retiredSegs = rm.retiredSegs \o d]
  <1>1. rm.busySegs \ Range(d) \in SUBSET Segment /\ rm.retiredSegs \o d \in Seq(Segment)
    <2>1. rm.busySegs \in SUBSET Segment /\ rm.retiredSegs \in Seq(Segment)
      BY DEF RecvState
    <2> QED  BY <2>1, ConcatList
  <1>2. ReleaseMessageDescriptor(rm, d) = new
    BY DEF ReleaseMessageDescriptor, RecvState
  <1>3. new \in RecvState
    BY <1>1 DEF RecvState
  <1>4. /\ new.pendingSegs = rm.pendingSegs
        /\ new.busySegs = rm.busySegs \ Range(d) /\ new.retiredSegs = rm.retiredSegs \o d
        /\ new.refcnt = rm.refcnt /\ new.pendingMsg = rm.pendingMsg
    BY DEF RecvState
  <1> QED  BY <1>2, <1>3, <1>4

\* The message that PendingMessage kept is released: nothing else used it.
LEMMA DropKept ==
  ASSUME RecvInv, recvMgr.pendingMsg # Null, recvMgr' \in RecvState,
         recvMgr'.pendingSegs = recvMgr.pendingSegs,
         recvMgr'.busySegs = recvMgr.busySegs \ Range(recvMgr.pendingMsg),
         recvMgr'.retiredSegs = <<>>, recvMgr'.refcnt = recvMgr.refcnt,
         recvMgr'.pendingMsg = Null, toMgr' = toMgr \o ItemsOf(recvMgr.pendingMsg),
         UNCHANGED <<held, rmd, pc, fromMgr, wantedQueue, consSegs, published, delivered, dropped>>
  PROVE  RecvInv'
  <1> DEFINE pm == recvMgr.pendingMsg
             U == InUse
             U2 == InUse'
             C2(d) == CountOf(held', rmd', recvMgr'.pendingMsg, d)
  <1>1. TypeInv /\ OrderInv /\ PlaceInv /\ KnownInv /\ DeliveredInv /\ DescInv /\ FirstInv /\ ControlInv
    BY DEF RecvInv
  <1>2. rmd = Null /\ pc = "get" /\ \A v \in Vars : held[v] # pm
    BY <1>1 DEF ControlInv
  <1>3. pm \in U /\ pm \in Seq(Segment) /\ IsInjective(pm) /\ Range(pm) \subseteq recvMgr.busySegs
    <2>1. pm \in InUse
      BY DEF InUse
    <2> QED  BY <1>1, <2>1, InUseIs
  <1>4. /\ U = {held[v] : v \in Vars} \cup {Null, pm}
        /\ U2 = {held[v] : v \in Vars} \cup {Null}
    BY <1>2 DEF InUse
  <1>5. ClientStep(pm)
    <2>1. Range(recvMgr'.pendingSegs) = Pending
      BY DEF Pending
    <2>2. Pending \cap recvMgr.busySegs = {} /\ Sorted(recvMgr.pendingSegs)
      BY <1>1 DEF PlaceInv, OrderInv
    <2>3. AllBefore(Pending \ Pending, Pending)
      BY DEF AllBefore
    <2>4. /\ Pending \cap (recvMgr.busySegs \ Range(pm)) = {}
          /\ Pending \cap Range(pm) = {} /\ (recvMgr.busySegs \ Range(pm)) \cap Range(pm) = {}
          /\ Pending \cup (recvMgr.busySegs \ Range(pm)) \cup Range(pm)
               = Pending \cup recvMgr.busySegs
      BY <1>3, <2>2
    <2> QED  BY <1>3, <2>1, <2>2, <2>3, <2>4 DEF ClientStep
  <1>6. FirstInv'
    BY <1>1 DEF FirstInv, Pending
  <1>7. Waiting' \subseteq Waiting
    BY <1>5, ClientStepKeeps DEF RecvInv
  <1>8. DeliveredInv'
    <2> DEFINE W == Waiting
               W2 == Waiting'
    <2>1. /\ \A m \in delivered : m <= Len(published)
          /\ \A m \in delivered, g \in W : m < g.msg \/ (m = g.msg /\ g.num > 0)
      BY <1>1 DEF DeliveredInv
    <2>2. W2 \subseteq W /\ Waiting' = W2
      BY <1>7
    <2> HIDE DEF W, W2
    <2>3. Range(Null) = {}
      BY DEF Range, Null
    <2>4. (\A m \in delivered, g \in Waiting : m < g.msg \/ (m = g.msg /\ g.num > 0))'
      BY <2>1, <2>2
    <2>5. AllBefore(Range(recvMgr.pendingMsg), Waiting)'
      BY <2>3 DEF AllBefore, Range, Null
    <2>6. (\A m \in delivered : m <= Len(published))'
      BY <2>1
    <2>7. (recvMgr.pendingMsg # Null => \A m \in delivered : m < recvMgr.pendingMsg[1].msg)'
      BY DEF Null
    <2> QED  BY <2>4, <2>5, <2>6, <2>7 DEF DeliveredInv
  <1>9. ControlInv'
    BY <1>2 DEF ControlInv, Null
  <1>10. /\ recvMgr.busySegs = UNION {Range(d) : d \in U}
         /\ \A d, e \in U : d # e => Range(d) \cap Range(e) = {}
         /\ \A d \in U \ {Null} :
              /\ IsInjective(d) /\ d[1].num = 0 /\ recvMgr.refcnt[d[1].msg] = Count(d)
              /\ ~dropped => Whole(d)
    BY <1>1 DEF DescInv
  <1>11. ASSUME NEW d \in U2 \ {Null}
         PROVE  C2(d) = Count(d) /\ d \in U \ {Null}
    <2>1. d # pm /\ d # Null /\ d \in U
      BY <1>2, <1>4, <1>11
    <2>2. Count(d) = CountOf(held, rmd, pm, d) /\ C2(d) = CountOf(held, rmd, Null, d)
      BY DEF Count
    <2> QED  BY <2>1, <2>2 DEF CountOf
  <1>12. DescInv'
    <2>1. InUse' = U2 /\ \A d : C2(d) = CountOf(held', rmd', recvMgr'.pendingMsg, d)
      OBVIOUS
    <2>2. \A d : d \in U <=> d \in U2 \/ d = pm
      BY <1>4
    <2>3. pm \notin U2
      BY <1>2, <1>4
    <2> HIDE DEF U, U2, C2, pm
    <2>4. recvMgr.busySegs \ Range(pm) = UNION {Range(d) : d \in U2}
      <3>1. \A x : x \in recvMgr.busySegs <=> \E d \in U : x \in Range(d)
        BY <1>10
      <3>2. ASSUME NEW x
            PROVE  x \in recvMgr.busySegs \ Range(pm) <=> \E d \in U2 : x \in Range(d)
        <4>1. ASSUME NEW d \in U2, x \in Range(d)
              PROVE  x \in recvMgr.busySegs /\ x \notin Range(pm)
          BY <1>3, <1>10, <2>2, <2>3, <3>1, <4>1
        <4>2. ASSUME x \in recvMgr.busySegs, x \notin Range(pm)
              PROVE  \E d \in U2 : x \in Range(d)
          BY <2>2, <3>1, <4>2
        <4> QED  BY <4>1, <4>2
      <3> QED  BY <3>2
    <2>5. recvMgr'.busySegs = recvMgr.busySegs \ Range(pm)
      BY DEF pm
    <2>6. (recvMgr.busySegs = UNION {Range(d) : d \in InUse})'
      BY <2>1, <2>4, <2>5 DEF Range
    <2>7. \A d, e \in U2 : d # e => Range(d) \cap Range(e) = {}
      BY <1>10, <2>2
    <2>8. (\A d, e \in InUse : d # e => Range(d) \cap Range(e) = {})'
      BY <2>1, <2>7 DEF Range
    <2>9. \A d \in U2 \ {Null} :
             /\ IsInjective(d) /\ d[1].num = 0 /\ recvMgr.refcnt[d[1].msg] = C2(d)
             /\ ~dropped => Whole(d)
      BY <1>10, <1>11
    <2>10. (\A d \in InUse \ {Null} :
             /\ IsInjective(d) /\ d[1].num = 0
             /\ recvMgr.refcnt[d[1].msg] = Count(d)
             /\ ~dropped => Whole(d))'
      BY <2>1, <2>9 DEF Count, Whole, Null
    <2> QED  BY <2>6, <2>8, <2>10 DEF DescInv
  <1>13. /\ held' \in [Vars -> Seq(Segment)] /\ rmd' \in Seq(Segment) /\ delivered' \in SUBSET Msgs
         /\ pc' \in Phases
    BY <1>1 DEF TypeInv
  <1> QED  BY <1>5, <1>6, <1>8, <1>9, <1>12, <1>13, ClientInv

\* GetRecvMsgDesc releases a message with a wrong checksum.
LEMMA DiscardMessageKeeps ==
  ASSUME RecvInv, DiscardMessage
  PROVE  RecvInv'
  <1> DEFINE got == GetMessageDescriptor(recvMgr)
             rm == ReleaseMessageDescriptor(got.rm, got.desc)
  <1>1. /\ pc = "get" /\ got.desc # Null
        /\ recvMgr' = [rm EXCEPT !.retiredSegs = <<>>] /\ toMgr' = toMgr \o RetiredItems(rm)
        /\ UNCHANGED <<held, rmd, pc, fromMgr, wantedQueue, consSegs, published, delivered, dropped>>
    BY DEF DiscardMessage, SendRetired, Discards
  <1>2. TypeInv /\ OrderInv /\ PlaceInv /\ DeliveredInv /\ DescInv /\ KnownInv /\ FirstInv
    BY DEF RecvInv
  <1>3. /\ recvMgr \in RecvState /\ recvMgr.retiredSegs = <<>> /\ toMgr \in Seq(Item)
        /\ delivered \in SUBSET Msgs /\ held \in [Vars -> Seq(Segment)] /\ rmd \in Seq(Segment)
        /\ Sorted(recvMgr.pendingSegs) /\ Pending \cap recvMgr.busySegs = {}
    BY <1>2 DEF TypeInv, PlaceInv, OrderInv
  <1>4. CASE recvMgr.pendingMsg # Null
    <2> DEFINE pm == recvMgr.pendingMsg
    <2>1. /\ got.rm \in RecvState /\ got.desc = pm /\ pm \in Seq(Segment)
          /\ got.rm.pendingSegs = recvMgr.pendingSegs /\ got.rm.busySegs = recvMgr.busySegs
          /\ got.rm.retiredSegs = <<>> /\ got.rm.refcnt = recvMgr.refcnt
          /\ got.rm.pendingMsg = Null
      <3>1. pm \in Seq(Segment)
        BY <1>3 DEF RecvState
      <3> QED  BY <1>3, <1>4, <3>1, KeptIs
    <2> HIDE DEF got
    <2>2. /\ rm \in RecvState /\ rm.pendingSegs = recvMgr.pendingSegs
          /\ rm.busySegs = recvMgr.busySegs \ Range(pm) /\ rm.retiredSegs = pm
          /\ rm.refcnt = recvMgr.refcnt /\ rm.pendingMsg = Null
      <3>1. <<>> \o pm = pm
        BY <2>1
      <3> QED  BY <2>1, <3>1, ReleaseIs
    <2> HIDE DEF rm
    <2>3. /\ recvMgr' \in RecvState /\ recvMgr'.pendingSegs = recvMgr.pendingSegs
          /\ recvMgr'.busySegs = recvMgr.busySegs \ Range(pm) /\ recvMgr'.retiredSegs = <<>>
          /\ recvMgr'.refcnt = recvMgr.refcnt /\ recvMgr'.pendingMsg = Null
          /\ toMgr' = toMgr \o ItemsOf(pm)
      BY <1>1, <2>2, SentIs
    <2> QED  BY <1>1, <1>4, <2>3, DropKept
  <1>5. CASE recvMgr.pendingMsg = Null
    <2>1. PICK drop, desc, left \in Seq(Segment) :
             /\ Taken(recvMgr.pendingSegs, drop, desc, left)
             /\ TakenFrom(recvMgr, got.rm, drop, desc, left) /\ got.desc = desc
      BY <1>3, <1>5, GotIs
    <2> HIDE DEF got
    <2> DEFINE r == drop \o desc
    <2>2. /\ got.rm \in RecvState /\ got.rm.pendingSegs = left /\ got.rm.retiredSegs = drop
          /\ got.rm.busySegs = recvMgr.busySegs \cup Range(desc)
          /\ got.rm.refcnt = recvMgr.refcnt /\ got.rm.pendingMsg = Null
      <3>1. <<>> \o drop = drop
        BY <2>1
      <3> QED  BY <1>3, <2>1, <3>1 DEF TakenFrom
    <2>3. /\ Pending = Range(drop) \cup Range(desc) \cup Range(left)
          /\ IsInjective(r) /\ r \in Seq(Segment) /\ Range(r) = Range(drop) \cup Range(desc)
          /\ AllBefore(Pending \ Range(left), Range(left))
      BY <1>2, <2>1, TakenIs
    <2>4. /\ Sorted(left) /\ Range(drop) \cap Range(left) = {} /\ Range(desc) \cap Range(left) = {}
      BY <2>1 DEF Taken
    <2>5. (recvMgr.busySegs \cup Range(desc)) \ Range(desc) = recvMgr.busySegs
      BY <1>3, <2>3
    <2>6. /\ rm \in RecvState /\ rm.pendingSegs = left
          /\ rm.busySegs = recvMgr.busySegs /\ rm.retiredSegs = r
          /\ rm.refcnt = recvMgr.refcnt /\ rm.pendingMsg = Null
      <3>1. rm = ReleaseMessageDescriptor(got.rm, desc)
        BY <2>1
      <3>2. /\ rm \in RecvState /\ rm.pendingSegs = got.rm.pendingSegs
            /\ rm.busySegs = got.rm.busySegs \ Range(desc)
            /\ rm.retiredSegs = got.rm.retiredSegs \o desc
            /\ rm.refcnt = got.rm.refcnt /\ rm.pendingMsg = got.rm.pendingMsg
        BY <2>1, <2>2, <3>1, ReleaseIs
      <3> HIDE DEF rm
      <3> QED  BY <2>2, <2>5, <3>2
    <2> HIDE DEF rm, r
    <2>7. /\ recvMgr' \in RecvState /\ recvMgr'.pendingSegs = left
          /\ recvMgr'.busySegs = recvMgr.busySegs /\ recvMgr'.retiredSegs = <<>>
          /\ recvMgr'.refcnt = recvMgr.refcnt /\ recvMgr'.pendingMsg = Null
          /\ toMgr' = toMgr \o ItemsOf(r)
      BY <1>1, <2>6, SentIs
    <2>8. ClientStep(r)
      <3>1. /\ Range(left) \subseteq Pending
            /\ Range(left) \cap recvMgr.busySegs = {} /\ Range(left) \cap Range(r) = {}
            /\ recvMgr.busySegs \cap Range(r) = {}
            /\ Range(left) \cup recvMgr.busySegs \cup Range(r) = Pending \cup recvMgr.busySegs
        BY <1>3, <2>3, <2>4
      <3> QED  BY <1>1, <2>3, <2>4, <2>7, <3>1 DEF ClientStep
    <2>9. InUse' = InUse /\ \A d : CountOf(held', rmd', recvMgr'.pendingMsg, d) = Count(d)
      BY <1>1, <1>5, <2>7 DEF InUse, Count
    <2>10. DescInv'
      <3>1. \A d \in InUse \ {Null} :
            /\ CountOf(held', rmd', recvMgr'.pendingMsg, d) = Count(d)
            /\ recvMgr'.refcnt[d[1].msg] = recvMgr.refcnt[d[1].msg]
            /\ published'[d[1].msg] = published[d[1].msg]
        BY <1>1, <2>7, <2>9
      <3>2. dropped' = dropped
        BY <1>1
      <3> QED  BY <1>2, <2>7, <2>9, <3>1, <3>2, DescSame
    <2>11. FirstInv'
      <3>1. Pending' \subseteq Pending
        BY <2>3, <2>7 DEF Pending
      <3> QED  BY <1>2, <2>7, <3>1 DEF FirstInv
    <2>12. DeliveredInv'
      <3>1. Waiting' \subseteq Waiting
        BY <2>8, ClientStepKeeps DEF RecvInv
      <3> QED  BY <1>1, <1>2, <1>5, <2>7, <3>1, DeliveredKept
    <2>13. ControlInv'
      BY <1>1, <2>7 DEF ControlInv, Null, RecvInv
    <2>14. /\ held' \in [Vars -> Seq(Segment)] /\ rmd' \in Seq(Segment)
           /\ delivered' \in SUBSET Msgs
           /\ pc' \in Phases
      BY <1>1, <1>3 DEF Phases
    <2> QED  BY <2>8, <2>10, <2>11, <2>12, <2>13, <2>14, ClientInv
  <1> QED  BY <1>4, <1>5

\* Parse hands over an echo or a segment.
LEMMA HandleItemKeeps ==
  ASSUME RecvInv, HandleItem,
         (pc' = "poll" /\ pc \in {"idle", "poll"}) \/ (pc' = pc /\ pc = "handler")
  PROVE  RecvInv'
  <1> DEFINE it == Head(fromMgr)
             seg == it.seg
             new == IF it = Echo THEN recvMgr ELSE AddSegment(recvMgr, seg)
             F == SegsIn(fromMgr)
             F2 == SegsIn(Tail(fromMgr))
  <1>1. /\ fromMgr # <<>> /\ fromMgr' = Tail(fromMgr) /\ recvMgr' = new
        /\ UNCHANGED <<held, rmd, toMgr, wantedQueue, consSegs, published, delivered, dropped>>
    BY DEF HandleItem
  <1>2. TypeInv /\ OrderInv /\ PlaceInv /\ CountInv /\ KnownInv /\ GaplessInv /\ DeliveredInv
        /\ DescInv /\ FirstInv /\ ControlInv
    BY DEF RecvInv
  <1>3. /\ fromMgr \in Seq(Item) /\ recvMgr \in RecvState /\ SortedItems(fromMgr)
        /\ recvMgr.pendingSegs \in Seq(Segment) /\ recvMgr.refcnt \in [Msgs -> Nat]
        /\ Sorted(recvMgr.pendingSegs) /\ recvMgr.numSegmentsRcvd \in Nat
    BY <1>2 DEF TypeInv, OrderInv, RecvState
  <1>4. Once(fromMgr)
    BY <1>3, SortedOnce
  <1>5. /\ Tail(fromMgr) \in Seq(Item) /\ it \in Item /\ SortedItems(Tail(fromMgr))
        /\ it = Echo => F2 = F
        /\ it # Echo => F2 = F \ {seg} /\ seg \in F /\ AllBefore({seg}, F2)
    BY <1>1, <1>3, <1>4, TailItems
  <1>6. it # Echo => seg \in Segment
    BY <1>5, ItemIs
  <1> DEFINE P2 == Range(new.pendingSegs)
             f == IF it # Echo /\ seg.num = 0 THEN [recvMgr.refcnt EXCEPT ![seg.msg] = 1]
                  ELSE recvMgr.refcnt
  <1> HIDE DEF it, seg, F, F2
  <1>7. /\ new \in RecvState /\ new.busySegs = recvMgr.busySegs
        /\ new.retiredSegs = recvMgr.retiredSegs /\ new.pendingMsg = recvMgr.pendingMsg
        /\ new.refcnt = f
        /\ new.pendingSegs = IF it = Echo THEN recvMgr.pendingSegs ELSE Append(recvMgr.pendingSegs, seg)
    <2>1. CASE it = Echo
      BY <1>3, <2>1
    <2>2. CASE it # Echo
      <3>1. seg \in Segment /\ seg.msg \in Msgs
        BY <1>6, <2>2 DEF Segment
      <3>2. Append(recvMgr.pendingSegs, seg) \in Seq(Segment)
        BY <1>3, <3>1
      <3>3. f \in [Msgs -> Nat]
        BY <1>3, <3>1
      <3>4. new = [recvMgr EXCEPT !.pendingSegs = Append(recvMgr.pendingSegs, seg), !.refcnt = f,
                                  !.numSegmentsRcvd = recvMgr.numSegmentsRcvd + 1]
        BY <1>3, <2>2 DEF AddSegment, RecvState
      <3> HIDE DEF f, new
      <3>5. recvMgr.numSegmentsRcvd + 1 \in Nat
        BY <1>3
      <3>6. new \in RecvState
        BY <1>3, <3>2, <3>3, <3>4, <3>5 DEF RecvState
      <3> QED  BY <1>3, <2>2, <3>4, <3>6 DEF RecvState
    <2> QED  BY <2>1, <2>2
  <1> HIDE DEF new, f
  <1>8. /\ P2 = (IF it = Echo THEN Pending ELSE Pending \cup {seg})
        /\ Sorted(new.pendingSegs)
    <2>1. CASE it = Echo
      BY <1>3, <1>7, <2>1 DEF Pending
    <2>2. CASE it # Echo
      <3> DEFINE q == recvMgr.pendingSegs
      <3>1. q \in Seq(Segment) /\ <<seg>> \in Seq(Segment) /\ q \o <<seg>> = Append(q, seg)
        BY <1>3, <1>6, <2>2
      <3>2. Range(<<seg>>) = {seg} /\ Sorted(<<seg>>)
        BY DEF Range, Sorted
      <3>3. AllBefore(Range(q), {seg})
        BY <1>2, <1>5, <2>2 DEF OrderInv, AllBefore, Pending, F
      <3>4. Sorted(q)
        BY <1>3
      <3> HIDE DEF q
      <3>5. Sorted(q \o <<seg>>)
        BY <3>1, <3>2, <3>3, <3>4, SortedJoin
      <3>6. Range(q \o <<seg>>) = Range(q) \cup Range(<<seg>>)
        BY <3>1, JoinLists
      <3> QED  BY <1>7, <2>2, <3>1, <3>2, <3>5, <3>6 DEF Pending, q
    <2> QED  BY <2>1, <2>2
  <1>9. /\ Pending' = P2 /\ Queue' = Queue /\ SegsIn(fromMgr)' = F2 /\ SegsIn(toMgr)' = SegsIn(toMgr)
    BY <1>1 DEF Pending, Queue, SegsIn, F2
  <1> HIDE DEF P2
  <1>10. P2 \cup F2 = Pending \cup F /\ Pending \subseteq P2
    BY <1>5, <1>8
  <1>11. Waiting' = Waiting /\ Present' = Present
    BY <1>1, <1>9, <1>10 DEF Waiting, Present, F
  <1>12. P2 \cap F2 = {}
    BY <1>2, <1>5, <1>8 DEF PlaceInv, F
  <1>13. OrderInv'
    <2>1. Sorted(recvMgr.pendingSegs)' /\ SortedItems(fromMgr)' /\ Sorted(wantedQueue)'
      BY <1>1, <1>2, <1>5, <1>8 DEF OrderInv, Sorted, SortedItems
    <2>2. AllBefore(P2, F2)
      BY <1>2, <1>5, <1>8 DEF OrderInv, AllBefore, F
    <2>3. AllBefore(P2 \cup F2, Queue)
      BY <1>2, <1>10 DEF OrderInv, F
    <2>4. AllBefore(Pending, SegsIn(fromMgr))' /\ AllBefore(Pending \cup SegsIn(fromMgr), Queue)'
      BY <1>9, <2>2, <2>3 DEF AllBefore
    <2> QED  BY <2>1, <2>4 DEF OrderInv
  <1>14. PlaceInv'
    <2>1. /\ Once(toMgr) /\ recvMgr.retiredSegs = <<>>
          /\ Pending \cap recvMgr.busySegs = {} /\ Pending \cap SegsIn(toMgr) = {}
          /\ F \cap recvMgr.busySegs = {} /\ F \cap SegsIn(toMgr) = {}
          /\ recvMgr.busySegs \cap SegsIn(toMgr) = {}
          /\ consSegs = Pending \cup F \cup recvMgr.busySegs \cup SegsIn(toMgr)
          /\ Queue \cap consSegs = {}
      BY <1>2 DEF PlaceInv, F
    <2>2. /\ P2 \cap recvMgr.busySegs = {} /\ P2 \cap SegsIn(toMgr) = {}
          /\ F2 \cap recvMgr.busySegs = {} /\ F2 \cap SegsIn(toMgr) = {}
          /\ consSegs = P2 \cup F2 \cup recvMgr.busySegs \cup SegsIn(toMgr)
      BY <1>10, <2>1
    <2>3. Once(toMgr)'
      BY <1>1, <2>1 DEF Once
    <2> QED  BY <1>1, <1>7, <1>9, <1>12, <2>1, <2>2, <2>3 DEF PlaceInv
  <1>15. CountInv' /\ KnownInv' /\ GaplessInv'
    BY <1>1, <1>2, <1>11 DEF CountInv, KnownInv, GaplessInv
  <1>16. DeliveredInv'
    BY <1>1, <1>2, <1>7, <1>11, DeliveredKept
  <1>17. ControlInv'
    <2>1. recvMgr'.pendingMsg = Null
      BY <1>1, <1>7, NoneKept
    <2>2. pc # "handler" => rmd = Null
      BY NoneKept
    <2> QED  BY <1>1, <2>1, <2>2 DEF ControlInv, Null
  <1>18. it # Echo => seg \in Waiting
    BY <1>5 DEF Waiting, F
  <1>19. DescInv'
    <2>1. InUse' = InUse /\ \A d : CountOf(held', rmd', recvMgr'.pendingMsg, d) = Count(d)
      BY <1>1, <1>7 DEF InUse, Count
    <2>2. ASSUME NEW d \in InUse \ {Null}
          PROVE  f[d[1].msg] = recvMgr.refcnt[d[1].msg]
      <3>1. d[1].msg \in Msgs /\ \A g \in Waiting : g.num = 0 => g.msg # d[1].msg
        BY <1>2, InUseIs
      <3> QED  BY <1>3, <1>18, <3>1 DEF f
    <2>3. \A d \in InUse \ {Null} :
            /\ CountOf(held', rmd', recvMgr'.pendingMsg, d) = Count(d)
            /\ recvMgr'.refcnt[d[1].msg] = recvMgr.refcnt[d[1].msg]
            /\ published'[d[1].msg] = published[d[1].msg]
      BY <1>1, <1>7, <2>1, <2>2
    <2>4. recvMgr'.busySegs = recvMgr.busySegs /\ dropped' = dropped
      BY <1>1, <1>7
    <2> QED  BY <1>2, <2>1, <2>3, <2>4, DescSame
  <1>20. FirstInv'
    <2> SUFFICES ASSUME NEW g \in P2, g.num = 0
                 PROVE  f[g.msg] = 1
      BY <1>1, <1>7, <1>9 DEF FirstInv
    <2>1. g \in Pending => recvMgr.refcnt[g.msg] = 1 /\ g \in Segment
      BY <1>2, WaitingIs DEF FirstInv
    <2>2. g \in Pending \/ (it # Echo /\ g = seg)
      BY <1>8
    <2>3. g.msg \in Msgs
      BY <1>6, <2>1, <2>2 DEF Segment
    <2> QED  BY <1>3, <2>1, <2>2, <2>3 DEF f
  <1>21. TypeInv'
    <2>1. /\ recvMgr' \in RecvState /\ fromMgr' \in Seq(Item)
          /\ pc' \in Phases
      BY <1>1, <1>5, <1>7 DEF Phases
    <2> QED  BY <1>1, <1>2, <2>1 DEF TypeInv
  <1> QED  BY <1>13, <1>14, <1>15, <1>16, <1>17, <1>19, <1>20, <1>21 DEF RecvInv

\* Client::Poll reads the socket.
LEMMA PollKeeps ==
  ASSUME RecvInv, Poll
  PROVE  RecvInv'
  <1>1. HandleItem /\ pc' = "poll" /\ pc \in {"idle", "poll"}
    BY DEF Poll
  <1> QED  BY <1>1, HandleItemKeeps

\* A handler waits in Poll.
LEMMA NestedPollKeeps ==
  ASSUME RecvInv, NestedPoll
  PROVE  RecvInv'
  <1>1. HandleItem /\ pc' = pc /\ pc = "handler"
    BY DEF NestedPoll
  <1> QED  BY <1>1, HandleItemKeeps

-----------------------------------------------------------------------------
(***************************************************************************)
(* The actions of the proxy.                                               *)
(***************************************************************************)
\* What PopWantedQueue does: the first are sent, the last stay in the queue, and
\* what is between them is dropped.
PopOut(queue, taken, sent, left) ==
  /\ sent \in Seq(Segment) /\ Sorted(sent) /\ left \in Seq(Segment) /\ Sorted(left)
  /\ Range(sent) \subseteq Range(queue) /\ Range(left) \subseteq Range(queue)
  /\ Range(sent) \cap Range(left) = {} /\ AllBefore(Range(sent), Range(left))
  /\ fromMgr' = fromMgr \o ItemsOf(sent)
  /\ consSegs' = taken \cup Range(sent) /\ wantedQueue' = left
  /\ dropped' \in BOOLEAN
  /\ ~dropped' => ~dropped /\ Range(queue) = Range(sent) \cup Range(left)
  /\ IsFiniteSet(consSegs') /\ Cardinality(consSegs') <= NumConsSlabs

\* It never counts more than the reservation.
LEMMA PopIs ==
  ASSUME NEW queue \in Seq(Segment), Sorted(queue), dropped \in BOOLEAN,
         NEW taken, IsFiniteSet(taken), Cardinality(taken) <= NumConsSlabs,
         PopWantedQueue(queue, taken)
  PROVE  \E sent, left \in Seq(Segment) : PopOut(queue, taken, sent, left)
  <1> DEFINE c    == Cardinality(taken)
             room == NumConsSlabs - c
             n    == IF Len(queue) < room THEN Len(queue) ELSE room
             rest == From(queue, n)
             over == IF Len(rest) > MaxWantedQueueSize THEN Len(rest) - MaxWantedQueueSize ELSE 0
             sent == SubSeq(queue, 1, n)
             gone == SubSeq(rest, 1, over)
             left == From(rest, over)
  <1>1. /\ fromMgr' = fromMgr \o [k \in 1 .. n |-> SegItem(queue[k])]
        /\ consSegs' = taken \cup {queue[k] : k \in 1 .. n}
        /\ wantedQueue' = left /\ dropped' = (dropped \/ over > 0)
    BY DEF PopWantedQueue
  <1>2. c \in Nat /\ NumConsSlabs \in Nat /\ MaxWantedQueueSize \in Nat /\ Len(queue) \in Nat
    BY FS_CardinalityType, RecvAssumption
  <1>3. c <= NumConsSlabs
    OBVIOUS
  <1> HIDE DEF c
  <1>4. n \in 0..Len(queue) /\ c + n <= NumConsSlabs
    BY <1>2, <1>3
  <1> HIDE DEF n
  <1>5. /\ sent \in Seq(Segment) /\ Sorted(sent) /\ rest \in Seq(Segment) /\ Sorted(rest)
        /\ Range(sent) \cup Range(rest) = Range(queue) /\ Range(sent) \cap Range(rest) = {}
        /\ AllBefore(Range(sent), Range(rest)) /\ Len(sent) = n
    BY <1>4, SortedParts DEF From
  <1>6. \A k \in 1..n : sent[k] = queue[k]
    BY <1>4
  <1> HIDE DEF sent, rest
  <1>7. over \in 0..Len(rest)
    <2>1. Len(rest) \in Nat
      BY <1>5
    <2> QED  BY <1>2, <2>1
  <1> HIDE DEF over
  <1>8. /\ gone \in Seq(Segment) /\ left \in Seq(Segment) /\ Sorted(left)
        /\ Range(gone) \cup Range(left) = Range(rest) /\ Len(gone) = over
    BY <1>5, <1>7, SortedParts DEF From
  <1>9. over = 0 => Range(gone) = {}
    BY <1>8 DEF Range
  <1> HIDE DEF gone, left
  <1>10. Range(left) \subseteq Range(rest)
    BY <1>8
  <1>11. Range(sent) \cap Range(left) = {} /\ AllBefore(Range(sent), Range(left))
         /\ Range(left) \subseteq Range(queue) /\ Range(sent) \subseteq Range(queue)
    BY <1>5, <1>10 DEF AllBefore
  <1>12. [k \in 1 .. n |-> SegItem(queue[k])] = ItemsOf(sent)
    BY <1>5, <1>6 DEF ItemsOf
  <1>13. {queue[k] : k \in 1 .. n} = Range(sent)
    <2>1. DOMAIN sent = 1..n
      BY <1>5
    <2> QED  BY <1>6, <2>1 DEF Range
  <1>14. ~dropped' => ~dropped /\ Range(queue) = Range(sent) \cup Range(left)
    <2> SUFFICES ASSUME ~dropped'
                 PROVE  ~dropped /\ Range(queue) = Range(sent) \cup Range(left)
      OBVIOUS
    <2>1. ~dropped /\ ~(over > 0)
      BY <1>1
    <2>2. over = 0
      BY <1>5, <1>7, <2>1
    <2> QED  BY <1>5, <1>8, <1>9, <2>1, <2>2
  <1>15. dropped' \in BOOLEAN
    BY <1>1
  <1>16. IsFiniteSet(consSegs') /\ Cardinality(consSegs') <= NumConsSlabs
    <2> DEFINE R == Range(sent)
               x == Cardinality(taken \cap R)
               y == Cardinality(taken \cup R)
    <2>1. IsFiniteSet(R) /\ Cardinality(R) = n
      BY <1>5, ListCount, SortedInjective
    <2>2. /\ IsFiniteSet(taken \cup R)
          /\ Cardinality(taken \cup R) = Cardinality(taken) + Cardinality(R) - Cardinality(taken \cap R)
      BY <2>1, FS_Union
    <2>3. IsFiniteSet(taken \cap R)
      BY <2>1, FS_Subset
    <2>4. x \in Nat /\ y \in Nat
      BY <2>2, <2>3, FS_CardinalityType
    <2>5. y = c + n - x
      BY <2>1, <2>2 DEF c
    <2>6. n \in Nat
      BY <1>2, <1>4
    <2> HIDE DEF x, y
    <2>7. y <= NumConsSlabs
      BY <1>2, <1>4, <2>4, <2>5, <2>6
    <2>8. consSegs' = taken \cup R
      BY <1>1, <1>13
    <2> QED  BY <2>2, <2>7, <2>8 DEF y
  <1>17. PopOut(queue, taken, sent, left)
    BY <1>1, <1>5, <1>8, <1>11, <1>12, <1>13, <1>14, <1>15, <1>16 DEF PopOut
  <1> QED  BY <1>5, <1>8, <1>17

\* The client's side is left alone; what is new in the queue is of a new message.
LEMMA ProxyInv ==
  ASSUME RecvInv, UNCHANGED clientVars,
         TypeInv', OrderInv', PlaceInv', CountInv', KnownInv', GaplessInv',
         ~dropped' => ~dropped, Len(published) <= Len(published'),
         \A m \in 1..Len(published) : published'[m] = published[m],
         \A g \in Waiting' : g \in Waiting \/ g.msg = Len(published) + 1
  PROVE  RecvInv'
  <1>1. TypeInv /\ PlaceInv /\ KnownInv /\ DeliveredInv /\ DescInv /\ FirstInv /\ ControlInv
    BY DEF RecvInv
  <1>2. recvMgr' = recvMgr /\ held' = held /\ rmd' = rmd /\ pc' = pc /\ delivered' = delivered
    BY DEF clientVars
  <1>3. DescInv'
    <2>1. InUse' = InUse /\ \A d : CountOf(held', rmd', recvMgr'.pendingMsg, d) = Count(d)
      BY <1>2 DEF InUse, Count
    <2>2. \A d \in InUse \ {Null} : d[1].msg \in 1..Len(published)
      BY <1>1, InUseIs
    <2>3. \A d \in InUse \ {Null} :
            /\ CountOf(held', rmd', recvMgr'.pendingMsg, d) = Count(d)
            /\ recvMgr'.refcnt[d[1].msg] = recvMgr.refcnt[d[1].msg]
            /\ published'[d[1].msg] = published[d[1].msg]
      BY <1>2, <2>1, <2>2
    <2>4. recvMgr'.busySegs = recvMgr.busySegs
      BY <1>2
    <2> QED  BY <1>1, <2>1, <2>3, <2>4, DescSame
  <1>4. FirstInv' /\ ControlInv'
    BY <1>1, <1>2 DEF FirstInv, ControlInv, Pending, Null
  <1>5. DeliveredInv'
    <2> DEFINE pm == recvMgr.pendingMsg
               n == Len(published)
               W == Waiting
               W2 == Waiting'
    <2>1. /\ \A m \in delivered : m <= n
          /\ \A m \in delivered, g \in W : m < g.msg \/ (m = g.msg /\ g.num > 0)
          /\ AllBefore(Range(pm), W)
          /\ pm # Null => \A m \in delivered : m < pm[1].msg
      BY <1>1 DEF DeliveredInv
    <2>2. \A g \in W2 : g \in W \/ g.msg = n + 1
      OBVIOUS
    <2>3. \A g \in Range(pm) : g.msg \in Nat /\ g.msg <= n
      <3>1. pm \in InUse
        BY DEF InUse
      <3>2. Range(pm) \subseteq recvMgr.busySegs
        BY <1>1, <3>1, InUseIs
      <3>3. Range(pm) \subseteq Present /\ Range(pm) \subseteq Segment
        BY <1>1, <3>2, WaitingIs
      <3> QED  BY <1>1, <3>3 DEF KnownInv, Segment, Msgs
    <2>4. delivered \subseteq Nat /\ n \in Nat /\ Len(published') \in Nat
      <3>1. delivered \in SUBSET Msgs /\ published \in Seq([of : Sizes, crc : BOOLEAN])
            /\ published' \in Seq([of : Sizes, crc : BOOLEAN])
        BY <1>1 DEF TypeInv
      <3> QED  BY <3>1 DEF Msgs
    <2>5. Waiting' = W2
      OBVIOUS
    <2> HIDE DEF W, W2, n
    <2>6. ASSUME NEW m \in delivered, NEW g \in W2
          PROVE  m < g.msg \/ (m = g.msg /\ g.num > 0)
      <3>1. CASE g \in W
        BY <2>1, <3>1
      <3>2. CASE g.msg = n + 1
        BY <2>1, <2>4, <3>2
      <3> QED  BY <2>2, <3>1, <3>2
    <2>7. AllBefore(Range(pm), W2)
      <3> SUFFICES ASSUME NEW h \in Range(pm), NEW g \in W2
                   PROVE  Before(h, g)
        BY DEF AllBefore
      <3>1. CASE g \in W
        BY <2>1, <3>1 DEF AllBefore
      <3>2. CASE g.msg = n + 1
        BY <2>3, <2>4, <3>2 DEF Before
      <3> QED  BY <2>2, <3>1, <3>2
    <2>8. (\A m \in delivered : m <= Len(published))'
      <3>1. n <= Len(published')
        BY DEF n
      <3> QED  BY <1>2, <2>1, <2>4, <3>1
    <2>9. (\A m \in delivered, g \in Waiting : m < g.msg \/ (m = g.msg /\ g.num > 0))'
      BY <1>2, <2>5, <2>6
    <2>10. AllBefore(Range(recvMgr.pendingMsg), Waiting)'
      BY <1>2, <2>5, <2>7 DEF AllBefore, Range
    <2>11. (recvMgr.pendingMsg # Null => \A m \in delivered : m < recvMgr.pendingMsg[1].msg)'
      BY <1>2, <2>1 DEF Null
    <2> QED  BY <2>8, <2>9, <2>10, <2>11 DEF DeliveredInv
  <1> QED  BY <1>3, <1>4, <1>5 DEF RecvInv

\* The proxy sends from a queue that comes after all that it has sent.
ProxyStep(queue, taken, sent, left) ==
  /\ queue \in Seq(Segment) /\ PopOut(queue, taken, sent, left)
  /\ AllBefore(Pending \cup SegsIn(fromMgr), Range(queue))
  /\ Range(queue) \cap consSegs = {}
  /\ toMgr' \in Seq(Item) /\ Once(toMgr')
  /\ SegsIn(toMgr') \subseteq SegsIn(toMgr)
  /\ taken = Pending \cup SegsIn(fromMgr) \cup recvMgr.busySegs \cup SegsIn(toMgr')
  /\ recvMgr' = recvMgr

\* Each segment stays in one place, and the waiting ones in order.
LEMMA ProxyStepKeeps ==
  ASSUME RecvInv, NEW queue, NEW taken, NEW sent, NEW left, ProxyStep(queue, taken, sent, left)
  PROVE  /\ OrderInv' /\ PlaceInv' /\ CountInv'
         /\ fromMgr' \in Seq(Item) /\ wantedQueue' \in Seq(Segment) /\ consSegs' \in SUBSET Segment
         /\ Waiting' \subseteq Pending \cup SegsIn(fromMgr) \cup Range(queue)
         /\ ~dropped' => Waiting' = Pending \cup SegsIn(fromMgr) \cup Range(queue)
         /\ Present' \subseteq consSegs \cup Range(queue)
  <1> DEFINE Q == Range(queue)
             X == Range(sent)
             L == Range(left)
             F == SegsIn(fromMgr)
             T2 == SegsIn(toMgr')
             F2 == SegsIn(fromMgr')
             B == recvMgr.busySegs
  <1>1. TypeInv /\ OrderInv /\ PlaceInv
    BY DEF RecvInv
  <1>2. /\ queue \in Seq(Segment) /\ sent \in Seq(Segment) /\ left \in Seq(Segment)
        /\ Sorted(sent) /\ Sorted(left) /\ X \subseteq Q /\ L \subseteq Q
        /\ X \cap L = {} /\ AllBefore(X, L)
        /\ fromMgr' = fromMgr \o ItemsOf(sent)
        /\ consSegs' = taken \cup X /\ wantedQueue' = left
        /\ ~dropped' => Q = X \cup L
        /\ IsFiniteSet(consSegs') /\ Cardinality(consSegs') <= NumConsSlabs
    BY DEF ProxyStep, PopOut
  <1>3. /\ AllBefore(Pending \cup F, Q) /\ Q \cap consSegs = {}
        /\ Once(toMgr') /\ T2 \subseteq SegsIn(toMgr)
        /\ taken = Pending \cup F \cup B \cup T2 /\ recvMgr' = recvMgr
    BY DEF ProxyStep
  <1>4. fromMgr \in Seq(Item) /\ SortedItems(fromMgr)
    BY <1>1 DEF TypeInv, OrderInv
  <1>5. fromMgr' \in Seq(Item) /\ F2 = F \cup X /\ SortedItems(fromMgr')
    <2>1. AllBefore(F, X)
      BY <1>2, <1>3 DEF AllBefore
    <2> QED  BY <1>2, <1>4, <2>1, AddItems
  <1>6. Pending' = Pending /\ Queue' = L /\ SegsIn(fromMgr)' = F2 /\ SegsIn(toMgr)' = T2
    BY <1>2, <1>3 DEF Pending, Queue, SegsIn
  <1>7. /\ Pending \subseteq Segment /\ F \subseteq Segment /\ B \subseteq Segment
        /\ SegsIn(toMgr) \subseteq Segment /\ Q \subseteq Segment
    BY <1>1, <1>2, WaitingIs, RangeIs
  <1>8. /\ Pending \cap F = {} /\ Pending \cap B = {} /\ Pending \cap SegsIn(toMgr) = {}
        /\ F \cap B = {} /\ F \cap SegsIn(toMgr) = {} /\ B \cap SegsIn(toMgr) = {}
        /\ consSegs = Pending \cup F \cup B \cup SegsIn(toMgr) /\ recvMgr.retiredSegs = <<>>
    BY <1>1 DEF PlaceInv
  <1>r. (recvMgr.busySegs)' = B
    BY <1>3
  <1> HIDE DEF Q, X, L, F, T2, F2, B
  <1>9. OrderInv'
    <2>1. Sorted(recvMgr.pendingSegs)' /\ SortedItems(fromMgr)' /\ Sorted(wantedQueue)'
      BY <1>1, <1>2, <1>3, <1>5 DEF OrderInv, Sorted, SortedItems
    <2>2. AllBefore(Pending, F)
      BY <1>1 DEF OrderInv, F
    <2>3. AllBefore(Pending, F2) /\ AllBefore(Pending \cup F2, L)
      BY <1>2, <1>3, <1>5, <2>2 DEF AllBefore
    <2>4. AllBefore(Pending, SegsIn(fromMgr))' /\ AllBefore(Pending \cup SegsIn(fromMgr), Queue)'
      BY <1>6, <2>3 DEF AllBefore
    <2> QED  BY <2>1, <2>4 DEF OrderInv
  <1>10. PlaceInv'
    <2>1. /\ Pending \cap F2 = {} /\ Pending \cap B = {} /\ Pending \cap T2 = {}
          /\ F2 \cap B = {} /\ F2 \cap T2 = {} /\ B \cap T2 = {}
          /\ consSegs' = Pending \cup F2 \cup B \cup T2
          /\ L \cap consSegs' = {}
      BY <1>2, <1>3, <1>5, <1>8
    <2>2. Once(toMgr)' /\ (recvMgr.retiredSegs = <<>>)'
      BY <1>3, <1>8 DEF Once
    <2> QED  BY <1>r, <1>6, <2>1, <2>2 DEF PlaceInv
  <1>11. CountInv'
    BY <1>2 DEF CountInv
  <1>12. Waiting' = Pending \cup F2 \cup L
    BY <1>6 DEF Waiting
  <1>13. Waiting' \subseteq Pending \cup F \cup Q /\ (~dropped' => Waiting' = Pending \cup F \cup Q)
    BY <1>2, <1>5, <1>12
  <1>14. Present' \subseteq consSegs \cup Q
    <2>1. Present' = consSegs' \cup L
      BY <1>6 DEF Present
    <2> QED  BY <1>2, <1>3, <1>8, <2>1
  <1>15. consSegs' \in SUBSET Segment
    BY <1>2, <1>3, <1>7
  <1> QED  BY <1>2, <1>5, <1>9, <1>10, <1>11, <1>13, <1>14, <1>15 DEF Q, F

\* The proxy handles a returned segment, or echoes.
LEMMA ProxyHandlesKeeps ==
  ASSUME RecvInv, ProxyHandles
  PROVE  RecvInv'
  <1> DEFINE it == Head(toMgr)
             T == SegsIn(toMgr)
             T2 == SegsIn(Tail(toMgr))
  <1>1. /\ toMgr # <<>> /\ toMgr' = Tail(toMgr)
        /\ IF it = Echo
           THEN fromMgr' = Append(fromMgr, Echo) /\ UNCHANGED <<wantedQueue, consSegs, dropped>>
           ELSE PopWantedQueue(wantedQueue, consSegs \ {it.seg})
        /\ UNCHANGED clientVars /\ published' = published
    BY DEF ProxyHandles
  <1>2. TypeInv /\ OrderInv /\ PlaceInv /\ CountInv /\ KnownInv /\ GaplessInv
    BY DEF RecvInv
  <1>3. /\ toMgr \in Seq(Item) /\ fromMgr \in Seq(Item) /\ Once(toMgr) /\ dropped \in BOOLEAN
        /\ wantedQueue \in Seq(Segment) /\ Sorted(wantedQueue) /\ SortedItems(fromMgr)
    BY <1>2 DEF TypeInv, PlaceInv, OrderInv
  <1>4. recvMgr' = recvMgr /\ held' = held /\ rmd' = rmd /\ pc' = pc /\ delivered' = delivered
    BY <1>1 DEF clientVars
  <1>5. /\ Tail(toMgr) \in Seq(Item) /\ Once(Tail(toMgr))
        /\ it = Echo => T2 = T
        /\ it # Echo => T2 = T \ {it.seg} /\ it.seg \in T
    BY <1>1, <1>3, TailItems
  <1>6. Len(published) <= Len(published') /\ \A m \in 1..Len(published) : published'[m] = published[m]
    <2>1. published \in Seq([of : Sizes, crc : BOOLEAN])
      BY <1>2 DEF TypeInv
    <2>2. Len(published) \in Nat
      BY <2>1
    <2> QED  BY <1>1, <2>2
  <1>7. CASE it = Echo
    <2>1. fromMgr' = Append(fromMgr, Echo) /\ UNCHANGED <<wantedQueue, consSegs, dropped>>
      BY <1>1, <1>7
    <2>2. /\ fromMgr' \in Seq(Item) /\ SegsIn(fromMgr') = SegsIn(fromMgr) /\ SortedItems(fromMgr')
      BY <1>3, <2>1, AddEcho
    <2>3. /\ Pending' = Pending /\ Queue' = Queue /\ SegsIn(fromMgr)' = SegsIn(fromMgr)
          /\ SegsIn(toMgr)' = T
      BY <1>1, <1>4, <1>5, <1>7, <2>1, <2>2 DEF Pending, Queue, SegsIn
    <2>4. Waiting' = Waiting /\ Present' = Present
      BY <2>1, <2>3 DEF Waiting, Present
    <2>5. OrderInv'
      <3>1. Sorted(recvMgr.pendingSegs)' /\ SortedItems(fromMgr)' /\ Sorted(wantedQueue)'
        BY <1>2, <1>4, <2>1, <2>2 DEF OrderInv, Sorted, SortedItems
      <3>2. AllBefore(Pending, SegsIn(fromMgr))' /\ AllBefore(Pending \cup SegsIn(fromMgr), Queue)'
        BY <1>2, <2>3 DEF OrderInv, AllBefore
      <3> QED  BY <3>1, <3>2 DEF OrderInv
    <2>6. PlaceInv'
      <3>1. Once(toMgr)' /\ (recvMgr.retiredSegs = <<>>)'
        BY <1>1, <1>2, <1>4, <1>5 DEF Once, PlaceInv
      <3> QED  BY <1>2, <1>4, <2>1, <2>3, <3>1 DEF PlaceInv
    <2>7. CountInv' /\ KnownInv' /\ GaplessInv'
      BY <1>1, <1>2, <2>1, <2>4 DEF CountInv, KnownInv, GaplessInv
    <2>8. TypeInv'
      BY <1>1, <1>2, <1>4, <1>5, <2>1, <2>2 DEF TypeInv
    <2>9. \A g \in Waiting' : g \in Waiting \/ g.msg = Len(published) + 1
      BY <2>4
    <2> QED  BY <1>1, <1>6, <2>1, <2>5, <2>6, <2>7, <2>8, <2>9, ProxyInv
  <1>8. CASE it # Echo
    <2> DEFINE taken == consSegs \ {it.seg}
    <2>1. IsFiniteSet(taken) /\ Cardinality(taken) <= NumConsSlabs
      <3>1. IsFiniteSet(consSegs) /\ Cardinality(consSegs) <= NumConsSlabs
        BY <1>2 DEF CountInv
      <3>2. IsFiniteSet(taken) /\ Cardinality(taken) <= Cardinality(consSegs)
        BY <3>1, FS_Subset
      <3>3. Cardinality(taken) \in Nat /\ Cardinality(consSegs) \in Nat /\ NumConsSlabs \in Nat
        BY <3>1, <3>2, FS_CardinalityType, RecvAssumption
      <3> QED  BY <3>1, <3>2, <3>3
    <2>2. PICK sent, left \in Seq(Segment) : PopOut(wantedQueue, taken, sent, left)
      <3>1. PopWantedQueue(wantedQueue, taken)
        BY <1>1, <1>8
      <3> QED  BY <1>3, <2>1, <3>1, PopIs
    <2>3. taken = Pending \cup SegsIn(fromMgr) \cup recvMgr.busySegs \cup T2
      <3> HIDE DEF T, T2
      <3>1. /\ consSegs = Pending \cup SegsIn(fromMgr) \cup recvMgr.busySegs \cup T
            /\ Pending \cap T = {} /\ SegsIn(fromMgr) \cap T = {} /\ recvMgr.busySegs \cap T = {}
        BY <1>2 DEF PlaceInv, T
      <3> QED  BY <1>5, <1>8, <3>1
    <2>4. ProxyStep(wantedQueue, taken, sent, left)
      <3>1. AllBefore(Pending \cup SegsIn(fromMgr), Range(wantedQueue))
            /\ Range(wantedQueue) \cap consSegs = {}
        BY <1>2 DEF OrderInv, PlaceInv, Queue
      <3>2. T2 \subseteq T
        BY <1>5, <1>8
      <3> HIDE DEF taken
      <3> QED  BY <1>1, <1>3, <1>4, <1>5, <2>2, <2>3, <3>1, <3>2 DEF ProxyStep
    <2>5. /\ OrderInv' /\ PlaceInv' /\ CountInv'
          /\ fromMgr' \in Seq(Item) /\ wantedQueue' \in Seq(Segment) /\ consSegs' \in SUBSET Segment
          /\ Waiting' \subseteq Pending \cup SegsIn(fromMgr) \cup Range(wantedQueue)
          /\ ~dropped' => Waiting' = Pending \cup SegsIn(fromMgr) \cup Range(wantedQueue)
          /\ Present' \subseteq consSegs \cup Range(wantedQueue)
      BY <2>4, ProxyStepKeeps
    <2>6. dropped' \in BOOLEAN /\ (~dropped' => ~dropped)
      BY <2>2 DEF PopOut
    <2>7. /\ Waiting' \subseteq Waiting /\ Present' \subseteq Present
          /\ ~dropped' => Waiting' = Waiting
      BY <2>5 DEF Waiting, Present, Queue
    <2>8. KnownInv'
      BY <1>1, <1>2, <2>7 DEF KnownInv
    <2>9. GaplessInv'
      BY <1>2, <2>6, <2>7 DEF GaplessInv
    <2>10. TypeInv'
      <3>1. toMgr' \in Seq(Item)
        BY <1>1, <1>5
      <3> QED  BY <1>1, <1>2, <1>4, <2>5, <2>6, <3>1 DEF TypeInv
    <2>11. \A g \in Waiting' : g \in Waiting \/ g.msg = Len(published) + 1
      BY <2>7
    <2> QED  BY <1>1, <1>6, <2>5, <2>6, <2>8, <2>9, <2>10, <2>11, ProxyInv
  <1> QED  BY <1>7, <1>8

\* A message is published.
LEMMA PublishKeeps ==
  ASSUME RecvInv, NEW id \in MsgIDs, NEW of \in Sizes, NEW crc \in CrcOutcomes,
         Publish(id, of, crc)
  PROVE  RecvInv'
  <1> DEFINE n == Len(published)
             m == n + 1
             seg(k) == [msg |-> m, id |-> id, num |-> k - 1, of |-> of, crc |-> crc]
             fresh == [k \in 1 .. of |-> seg(k)]
             queue == wantedQueue \o fresh
             N == Range(fresh)
             entry == [of |-> of, crc |-> crc]
  <1>1. /\ n < MaxMsgs /\ PopWantedQueue(queue, consSegs)
        /\ published' = Append(published, entry)
        /\ UNCHANGED clientVars /\ toMgr' = toMgr
    BY DEF Publish
  <1>2. TypeInv /\ OrderInv /\ PlaceInv /\ CountInv /\ KnownInv /\ GaplessInv
    BY DEF RecvInv
  <1>3. /\ published \in Seq([of : Sizes, crc : BOOLEAN]) /\ toMgr \in Seq(Item)
        /\ wantedQueue \in Seq(Segment) /\ Sorted(wantedQueue) /\ dropped \in BOOLEAN
        /\ Once(toMgr)
    BY <1>2 DEF TypeInv, OrderInv, PlaceInv
  <1>4. n \in Nat /\ m \in Msgs /\ of \in Nat /\ crc \in BOOLEAN
    <2>1. n \in Nat
      BY <1>3
    <2>2. m \in Msgs
      BY <1>1, <2>1, RecvAssumption DEF Msgs
    <2> QED  BY <2>1, <2>2, RecvAssumption
  <1>5. recvMgr' = recvMgr /\ held' = held /\ rmd' = rmd /\ pc' = pc /\ delivered' = delivered
    BY <1>1 DEF clientVars
  <1>6. /\ entry \in [of : Sizes, crc : BOOLEAN]
        /\ published' \in Seq([of : Sizes, crc : BOOLEAN]) /\ Len(published') = n + 1
        /\ Len(published') <= MaxMsgs
        /\ published'[n + 1] = entry /\ \A i \in 1..n : published'[i] = published[i]
    <2>1. entry \in [of : Sizes, crc : BOOLEAN]
      BY <1>4
    <2> HIDE DEF entry
    <2>2. /\ published' \in Seq([of : Sizes, crc : BOOLEAN]) /\ Len(published') = n + 1
          /\ published'[n + 1] = entry /\ \A i \in 1..n : published'[i] = published[i]
      BY <1>1, <1>3, <2>1
    <2>3. n + 1 <= MaxMsgs
      BY <1>1, <1>4, RecvAssumption
    <2> QED  BY <2>1, <2>2, <2>3
  <1> HIDE DEF n
  <1>7. \A k \in 1..of : /\ seg(k) \in Segment /\ seg(k).msg = m /\ seg(k).num = k - 1
                          /\ seg(k).of = of
    BY <1>4 DEF Segment
  <1> HIDE DEF seg
  <1>8. /\ fresh \in Seq(Segment) /\ Len(fresh) = of /\ DOMAIN fresh = 1..of
        /\ \A k \in 1..of : fresh[k] = seg(k)
    <2>1. fresh \in [1..of -> Segment]
      BY <1>7
    <2> QED  BY <1>4, <2>1, FunctionList
  <1> HIDE DEF fresh
  <1>9. Sorted(fresh)
    BY <1>4, <1>7, <1>8 DEF Sorted, Before
  <1>10. /\ \A g \in N : g \in Segment /\ g.msg = m /\ g.of = of /\ g.num \in Nat
         /\ \A g, h \in N : g.num = h.num => g = h
         /\ \A g \in N : g.num > 0 => \E p \in N : p.num = g.num - 1
    <2>1. \A g : g \in N <=> \E k \in 1..of : g = seg(k)
      BY <1>8 DEF Range
    <2>2. \A g \in N : g \in Segment /\ g.msg = m /\ g.of = of /\ g.num \in Nat
      BY <1>4, <1>7, <2>1
    <2>3. ASSUME NEW g \in N, NEW h \in N, g.num = h.num
          PROVE  g = h
      <3>1. PICK k \in 1..of : g = seg(k)
        BY <2>1
      <3>2. PICK l \in 1..of : h = seg(l)
        BY <2>1
      <3>3. k - 1 = l - 1
        BY <1>7, <2>3, <3>1, <3>2
      <3>4. k = l
        BY <1>4, <3>3
      <3> QED  BY <3>1, <3>2, <3>4
    <2>4. ASSUME NEW g \in N, g.num > 0
          PROVE  \E p \in N : p.num = g.num - 1
      <3>1. PICK k \in 1..of : g = seg(k)
        BY <2>1
      <3>2. g.num = k - 1
        BY <1>7, <3>1
      <3>3. k - 1 \in 1..of
        BY <1>4, <2>4, <3>2
      <3>4. seg(k - 1) \in N /\ seg(k - 1).num = (k - 1) - 1
        BY <1>7, <2>1, <3>3
      <3> QED  BY <3>2, <3>4
    <2> QED  BY <2>2, <2>3, <2>4
  <1>11. /\ Waiting \subseteq Present /\ Waiting \subseteq Segment /\ Present \subseteq Segment
         /\ \A g \in Present : g.msg \in Nat /\ g.msg <= n
    <2>1. Waiting \subseteq Present /\ Queue \subseteq Segment
      BY <1>2, WaitingIs
    <2>2. Present \subseteq Segment
      BY <1>2, <2>1 DEF Present, TypeInv
    <2>3. \A g \in Present : g.msg \in Nat /\ g.msg <= n
      BY <1>2, <2>2 DEF KnownInv, Segment, Msgs, n
    <2> QED  BY <2>1, <2>2, <2>3
  <1> HIDE DEF N
  <1>12. AllBefore(Present, N)
    BY <1>4, <1>10, <1>11 DEF AllBefore, Before
  <1>13. N \cap Present = {}
    BY <1>4, <1>10, <1>11
  <1>14. Range(wantedQueue) = Queue /\ Queue \subseteq Present
    BY DEF Queue, Present
  <1>15. queue \in Seq(Segment) /\ Range(queue) = Queue \cup N /\ Sorted(queue)
    <2>1. queue \in Seq(Segment) /\ Range(queue) = Queue \cup N
      BY <1>3, <1>8, <1>14, JoinLists DEF N
    <2>2. AllBefore(Range(wantedQueue), Range(fresh))
      BY <1>12, <1>14 DEF AllBefore, N
    <2>3. Sorted(queue)
      BY <1>3, <1>8, <1>9, <2>2, SortedJoin
    <2> QED  BY <2>1, <2>3
  <1> HIDE DEF queue
  <1>16. PICK sent, left \in Seq(Segment) : PopOut(queue, consSegs, sent, left)
    <2>1. IsFiniteSet(consSegs) /\ Cardinality(consSegs) <= NumConsSlabs
      BY <1>2 DEF CountInv
    <2> QED  BY <1>1, <1>3, <1>15, <2>1, PopIs
  <1>17. ProxyStep(queue, consSegs, sent, left)
    <2>1. AllBefore(Pending \cup SegsIn(fromMgr), Queue)
      BY <1>2 DEF OrderInv
    <2>2. Pending \cup SegsIn(fromMgr) \subseteq Present
      BY <1>11 DEF Waiting
    <2>3. AllBefore(Pending \cup SegsIn(fromMgr), Range(queue))
      BY <1>12, <1>15, <2>1, <2>2 DEF AllBefore
    <2>4. Queue \cap consSegs = {} /\ consSegs \subseteq Present
      BY <1>2 DEF PlaceInv, Present
    <2>5. Range(queue) \cap consSegs = {}
      BY <1>13, <1>15, <2>4
    <2>6. consSegs = Pending \cup SegsIn(fromMgr) \cup recvMgr.busySegs \cup SegsIn(toMgr)
      BY <1>2 DEF PlaceInv
    <2> QED  BY <1>1, <1>3, <1>5, <1>15, <1>16, <2>3, <2>5, <2>6 DEF ProxyStep
  <1>18. /\ OrderInv' /\ PlaceInv' /\ CountInv'
         /\ fromMgr' \in Seq(Item) /\ wantedQueue' \in Seq(Segment) /\ consSegs' \in SUBSET Segment
         /\ Waiting' \subseteq Pending \cup SegsIn(fromMgr) \cup Range(queue)
         /\ ~dropped' => Waiting' = Pending \cup SegsIn(fromMgr) \cup Range(queue)
         /\ Present' \subseteq consSegs \cup Range(queue)
    BY <1>17, ProxyStepKeeps
  <1>19. dropped' \in BOOLEAN /\ (~dropped' => ~dropped)
    BY <1>16 DEF PopOut
  <1> DEFINE W == Waiting
             W2 == Waiting'
             A == Present
             A2 == Present'
  <1>20. W2 \subseteq W \cup N /\ (~dropped' => W2 = W \cup N) /\ A2 \subseteq A \cup N
    BY <1>15, <1>18 DEF Waiting, Present
  <1>21. KnownInv'
    <2>1. /\ \A g \in A : g.msg <= n /\ g.of = published[g.msg].of
          /\ \A g, h \in A : g.msg = h.msg /\ g.num = h.num => g = h
      BY <1>2 DEF KnownInv, n
    <2>2. A \subseteq Segment /\ \A g \in A : g.msg \in Nat /\ g.msg <= n
      BY <1>11
    <2>3. Present' = A2
      OBVIOUS
    <2> HIDE DEF A, A2, W, W2
    <2>4. ASSUME NEW g \in A2
          PROVE  g.msg <= n + 1 /\ g.of = published'[g.msg].of
      <3>1. CASE g \in A
        <4>1. g.msg \in 1..n
          BY <2>1, <2>2, <3>1 DEF Segment, Msgs
        <4> QED  BY <1>4, <1>6, <2>1, <3>1, <4>1
      <3>2. CASE g \in N
        BY <1>4, <1>6, <1>10, <3>2
      <3> QED  BY <1>20, <2>4, <3>1, <3>2
    <2>5. ASSUME NEW g \in A2, NEW h \in A2, g.msg = h.msg, g.num = h.num
          PROVE  g = h
      <3>1. g \in A /\ h \in A => g = h
        BY <2>1, <2>5
      <3>2. g \in N /\ h \in N => g = h
        BY <1>10, <2>5
      <3>3. ~(g \in A /\ h \in N) /\ ~(g \in N /\ h \in A)
        BY <1>4, <1>10, <2>2, <2>5
      <3> QED  BY <1>20, <3>1, <3>2, <3>3
    <2>6. (\A g \in Present : g.msg <= Len(published) /\ g.of = published[g.msg].of)'
      BY <1>6, <2>3, <2>4
    <2>7. (\A g, h \in Present : g.msg = h.msg /\ g.num = h.num => g = h)'
      BY <2>3, <2>5
    <2> QED  BY <2>6, <2>7 DEF KnownInv
  <1>22. GaplessInv'
    <2>1. Waiting' = W2 /\ W \subseteq A /\ W \subseteq Segment
      BY <1>11
    <2>2. ~dropped => \A g, h \in W : Before(h, g) /\ g.num > 0 =>
                        \E p \in W : p.msg = g.msg /\ p.num = g.num - 1
      BY <1>2 DEF GaplessInv
    <2>3. \A g \in A : g.msg \in Nat /\ g.msg <= n
      BY <1>11
    <2> HIDE DEF A, A2, W, W2
    <2>4. ASSUME ~dropped', NEW g \in W2, NEW h \in W2, Before(h, g), g.num > 0
          PROVE  \E p \in W2 : p.msg = g.msg /\ p.num = g.num - 1
      <3>1. ~dropped /\ W2 = W \cup N
        BY <1>19, <1>20, <2>4
      <3>2. CASE g \in N
        BY <1>10, <2>4, <3>1, <3>2
      <3>3. CASE g \in W
        <4>1. h \notin N
          <5>1. h \in N => h.msg = n + 1
            BY <1>10
          <5>2. g.msg \in Nat /\ g.msg <= n
            BY <2>1, <2>3, <3>3
          <5> QED  BY <1>4, <2>4, <5>1, <5>2 DEF Before
        <4>2. h \in W
          BY <2>4, <3>1, <4>1
        <4> QED  BY <2>2, <2>4, <3>1, <3>3, <4>2
      <3> QED  BY <2>4, <3>1, <3>2, <3>3
    <2> QED  BY <2>1, <2>4 DEF GaplessInv, Before
  <1>23. TypeInv'
    BY <1>1, <1>2, <1>5, <1>6, <1>18, <1>19 DEF TypeInv
  <1>24. \A g \in Waiting' : g \in Waiting \/ g.msg = Len(published) + 1
    BY <1>10, <1>20 DEF n
  <1>25. Len(published) <= Len(published') /\ \A i \in 1..Len(published) : published'[i] = published[i]
    <2>1. n <= n + 1
      BY <1>4
    <2> QED  BY <1>6, <2>1 DEF n
  <1> QED  BY <1>1, <1>18, <1>19, <1>21, <1>22, <1>23, <1>24, <1>25, ProxyInv

-----------------------------------------------------------------------------
(***************************************************************************)
(* The invariant, and what follows.                                        *)
(***************************************************************************)
\* It holds at first,
LEMMA InitInv ==
  ASSUME Init
  PROVE  RecvInv
  <1>1. /\ recvMgr = InitRecvManager /\ held = [v \in Vars |-> Null] /\ rmd = Null /\ pc = "idle"
        /\ toMgr = <<>> /\ fromMgr = <<>> /\ wantedQueue = <<>> /\ consSegs = {}
        /\ published = <<>> /\ delivered = {} /\ dropped = FALSE
    BY DEF Init
  <1>2. \A S : <<>> \in Seq(S)
    OBVIOUS
  <1>3. recvMgr \in RecvState
    BY <1>1, <1>2 DEF InitRecvManager, RecvState, Null
  <1>4. /\ recvMgr.pendingSegs = <<>> /\ recvMgr.busySegs = {} /\ recvMgr.retiredSegs = <<>>
        /\ recvMgr.pendingMsg = Null
    BY <1>1 DEF InitRecvManager
  <1>5. Range(<<>>) = {} /\ SegsIn(<<>>) = {}
    BY DEF Range, SegsIn
  <1>6. Pending = {} /\ Queue = {} /\ SegsIn(fromMgr) = {} /\ SegsIn(toMgr) = {}
    BY <1>1, <1>4, <1>5 DEF Pending, Queue
  <1>7. Waiting = {} /\ Present = {}
    BY <1>1, <1>6 DEF Waiting, Present
  <1>8. TypeInv
    <2>1. Len(<<>>) <= MaxMsgs
      BY RecvAssumption
    <2> QED  BY <1>1, <1>2, <1>3, <2>1 DEF TypeInv, Null, Phases
  <1>9. OrderInv
    BY <1>1, <1>4, <1>6 DEF OrderInv, Sorted, SortedItems, AllBefore
  <1>10. PlaceInv
    BY <1>1, <1>4, <1>6 DEF PlaceInv, Once
  <1>11. CountInv
    <2>1. IsFiniteSet({}) /\ Cardinality({}) = 0
      BY FS_EmptySet
    <2>2. 0 <= NumConsSlabs
      BY RecvAssumption
    <2> QED  BY <1>1, <2>1, <2>2 DEF CountInv
  <1>12. KnownInv /\ GaplessInv
    BY <1>7 DEF KnownInv, GaplessInv
  <1>13. DeliveredInv
    BY <1>1, <1>4, <1>7 DEF DeliveredInv, AllBefore
  <1>14. DescInv
    <2>1. InUse = {Null}
      BY <1>1, <1>4 DEF InUse
    <2>2. Range(Null) = {}
      BY <1>5 DEF Null
    <2> QED  BY <1>4, <2>1, <2>2 DEF DescInv
  <1>15. FirstInv /\ ControlInv
    BY <1>1, <1>4, <1>6 DEF FirstInv, ControlInv
  <1> QED  BY <1>8, <1>9, <1>10, <1>11, <1>12, <1>13, <1>14, <1>15 DEF RecvInv

\* and every step keeps it.
LEMMA NextInv ==
  ASSUME RecvInv, [Next]_vars
  PROVE  RecvInv'
  <1>1. CASE UNCHANGED vars
    <2>1. /\ UNCHANGED <<recvMgr, held, rmd, pc, toMgr, fromMgr, wantedQueue, consSegs,
                         published, delivered, dropped>>
      BY <1>1 DEF vars
    <2>2. /\ Pending' = Pending /\ Queue' = Queue /\ SegsIn(fromMgr)' = SegsIn(fromMgr)
          /\ SegsIn(toMgr)' = SegsIn(toMgr) /\ InUse' = InUse
      BY <2>1 DEF Pending, Queue, SegsIn, InUse
    <2>3. Waiting' = Waiting /\ Present' = Present
      BY <2>1, <2>2 DEF Waiting, Present
    <2>4. TypeInv' /\ PlaceInv' /\ CountInv' /\ KnownInv' /\ GaplessInv' /\ FirstInv' /\ ControlInv'
      BY <2>1, <2>2, <2>3
         DEF RecvInv, TypeInv, PlaceInv, Once, CountInv, KnownInv, GaplessInv, FirstInv, ControlInv, Null
    <2>5. OrderInv'
      BY <2>1, <2>2 DEF RecvInv, OrderInv, Sorted, SortedItems, AllBefore
    <2>6. DeliveredInv'
      BY <2>1, <2>3, DeliveredKept DEF RecvInv
    <2>7. DescInv'
      <3>1. \A d \in InUse \ {Null} :
            /\ CountOf(held', rmd', recvMgr'.pendingMsg, d) = Count(d)
            /\ recvMgr'.refcnt[d[1].msg] = recvMgr.refcnt[d[1].msg]
            /\ published'[d[1].msg] = published[d[1].msg]
        BY <2>1 DEF Count
      <3>2. recvMgr'.busySegs = recvMgr.busySegs /\ dropped' = dropped /\ DescInv
        BY <2>1 DEF RecvInv
      <3> QED  BY <2>2, <3>1, <3>2, DescSame
    <2> QED  BY <2>4, <2>5, <2>6, <2>7 DEF RecvInv
  <1>2. CASE Poll
    BY <1>2, PollKeeps
  <1>3. CASE StartService
    BY <1>3, StartServiceKeeps
  <1>4. CASE PendingRecvMessage
    BY <1>4, PendingRecvMessageKeeps
  <1>5. CASE DiscardMessage
    BY <1>5, DiscardMessageKeeps
  <1>6. CASE CallHandler
    BY <1>6, CallHandlerKeeps
  <1>7. CASE PollReturns
    BY <1>7, PollReturnsKeeps
  <1>8. CASE NestedPoll
    BY <1>8, NestedPollKeeps
  <1>9. CASE HandlerReturns
    BY <1>9, HandlerReturnsKeeps
  <1>10. ASSUME NEW v \in Vars, KeepCopy(v) \/ Destroy(v)
         PROVE  RecvInv'
    BY <1>10, KeepCopyKeeps, DestroyKeeps
  <1>11. ASSUME NEW v \in Vars, NEW w \in Vars, AssignVar(v, w)
         PROVE  RecvInv'
    BY <1>11, AssignVarKeeps
  <1>12. ASSUME NEW id \in MsgIDs, NEW of \in Sizes, NEW crc \in CrcOutcomes, Publish(id, of, crc)
         PROVE  RecvInv'
    BY <1>12, PublishKeeps
  <1>13. CASE ProxyHandles
    BY <1>13, ProxyHandlesKeeps
  <1> QED  BY <1>1, <1>2, <1>3, <1>4, <1>5, <1>6, <1>7, <1>8, <1>9, <1>10, <1>11, <1>12, <1>13
           DEF Next

\* So it always holds.
THEOREM Invariance == Spec => []RecvInv
  <1>1. Init => RecvInv
    BY InitInv
  <1>2. RecvInv /\ [Next]_vars => RecvInv'
    BY NextInv
  <1> QED  BY <1>1, <1>2, PTL DEF Spec

\* Each segment that the proxy counts is in one place, and returned once, whatever
\* the program's handlers keep, assign and destroy, and whenever they poll.
THEOREM EachReturnedOnce == Spec => []SegmentsConserved
  <1>1. RecvInv => SegmentsConserved
    <2> SUFFICES ASSUME RecvInv
                 PROVE  SegmentsConserved
      OBVIOUS
    <2> DEFINE P == Pending
               F == SegsIn(fromMgr)
               B == recvMgr.busySegs
               R == Range(recvMgr.retiredSegs)
               T == SegsIn(toMgr)
               places == <<F, P, B, R, T>>
    <2>1. TypeInv /\ OrderInv /\ PlaceInv
      BY DEF RecvInv
    <2>2. /\ fromMgr \in Seq(Item) /\ toMgr \in Seq(Item) /\ SortedItems(fromMgr)
          /\ recvMgr.pendingSegs \in Seq(Segment) /\ Sorted(recvMgr.pendingSegs)
          /\ Once(toMgr) /\ recvMgr.retiredSegs = <<>>
      BY <2>1 DEF TypeInv, OrderInv, PlaceInv, RecvState
    <2>3. Once(fromMgr) /\ IsInjective(recvMgr.pendingSegs) /\ IsInjective(recvMgr.retiredSegs)
      <3>1. IsInjective(<<>>)
        BY DEF IsInjective
      <3> QED  BY <2>2, <3>1, SortedOnce, SortedInjective
    <2>4. DOMAIN fromMgr = 1..Len(fromMgr) /\ DOMAIN toMgr = 1..Len(toMgr)
      BY <2>2
    <2>5. /\ \A i, j \in DOMAIN fromMgr : fromMgr[i] = fromMgr[j] /\ fromMgr[i] # Echo => i = j
          /\ \A i, j \in DOMAIN toMgr : toMgr[i] = toMgr[j] /\ toMgr[i] # Echo => i = j
      BY <2>2, <2>3, <2>4 DEF Once
    <2>6. /\ P \cap F = {} /\ P \cap B = {} /\ P \cap T = {} /\ F \cap B = {} /\ F \cap T = {}
          /\ B \cap T = {} /\ consSegs = P \cup F \cup B \cup T
      BY <2>1 DEF PlaceInv
    <2>7. R = {}
      BY <2>2 DEF Range
    <2> HIDE DEF P, F, B, R, T
    <2>8. DOMAIN places = 1..5 /\ places[1] = F /\ places[2] = P /\ places[3] = B
          /\ places[4] = R /\ places[5] = T
      OBVIOUS
    <2> HIDE DEF places
    <2>9. \A p \in 1..5 : p = 1 \/ p = 2 \/ p = 3 \/ p = 4 \/ p = 5
      OBVIOUS
    <2>10. \A p, q \in DOMAIN places : p # q => places[p] \cap places[q] = {}
      <3> SUFFICES ASSUME NEW p \in 1..5, NEW q \in 1..5, p # q
                   PROVE  places[p] \cap places[q] = {}
        BY <2>8
      <3> QED  BY <2>6, <2>7, <2>8, <2>9
    <2>11. UNION Range(places) = consSegs
      <3>1. Range(places) = {F, P, B, R, T}
        BY <2>8, <2>9 DEF Range
      <3> QED  BY <2>6, <2>7, <3>1
    <2> QED  BY <2>3, <2>5, <2>10, <2>11 DEF SegmentsConserved, places, F, P, B, R, T, Pending
  <1> QED  BY <1>1, Invariance, PTL

\* The segments of a message stay with the client as long as a variable or the
\* handler has its descriptor, and the counter says how many do.
THEOREM CountsAreReferences == Spec => []KeptWhileUsed
  <1>1. RecvInv => KeptWhileUsed
    BY DEF RecvInv, DescInv, KeptWhileUsed, Count, CountOf
  <1> QED  BY <1>1, Invariance, PTL

\* Handlers get whole messages as long as the proxy drops nothing.
THEOREM WholeMessages == Spec => []WholeUnlessDropped
  <1>1. RecvInv => WholeUnlessDropped
    <2> SUFFICES ASSUME RecvInv, ~dropped, NEW d \in InUse \ {Null}
                 PROVE  /\ Len(d) = published[d[1].msg].of
                        /\ \A i \in DOMAIN d : d[i].msg = d[1].msg /\ d[i].num = i - 1
      BY DEF WholeUnlessDropped, DeliveredWhole
    <2>1. d \in Seq(Segment)
      BY InUseIs DEF RecvInv
    <2>2. Whole(d)
      BY DEF RecvInv, DescInv
    <2> QED  BY <2>1, <2>2 DEF Whole
  <1> QED  BY <1>1, Invariance, PTL

\* Handlers are called in the order of publication, also after segments were
\* dropped, and with no message twice.
THEOREM DeliveryOrdered == Spec => DeliveredInOrder
  <1>1. RecvInv /\ [Next]_vars =>
          [pc # "handler" /\ pc' = "handler"
             => \A m \in delivered : m < rmd'[1].msg]_vars
    <2> SUFFICES ASSUME RecvInv, [Next]_vars, pc # "handler", pc' = "handler"
                 PROVE  \A m \in delivered : m < rmd'[1].msg
      OBVIOUS
    <2>1. CallHandler
      BY DEF Next, vars, Poll, StartService, PendingRecvMessage, DiscardMessage, PollReturns,
             NestedPoll, HandlerReturns, KeepCopy, Destroy, AssignVar, Publish, ProxyHandles,
             clientVars
    <2> QED  BY <2>1, CallHandlerKeeps
  <1> QED  BY <1>1, Invariance, PTL DEF Spec, DeliveredInOrder
=============================================================================
