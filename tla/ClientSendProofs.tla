-------------------------- MODULE ClientSendProofs --------------------------
(***************************************************************************)
(* Proofs about ClientSend.                                                *)
(***************************************************************************)
EXTENDS ClientSend, CommonFacts

(***************************************************************************)
(* The send manager's part of the invariant: a slab is on one of the four  *)
(* lists only, SlabsHeld counts them, a free slab is untouched and a full  *)
(* one is referred to.                                                     *)
(***************************************************************************)
InUse(sm) == Range(sm.workingSlabs) \cup sm.fullSlabs
Mine(sm) == Range(sm.freeSlabs) \cup InUse(sm) \cup sm.retiredSlabs

ListsApart(sm) ==
  /\ Range(sm.freeSlabs) \cap InUse(sm) = {}
  /\ Range(sm.workingSlabs) \cap sm.fullSlabs = {}
  /\ (Range(sm.freeSlabs) \cup InUse(sm)) \cap sm.retiredSlabs = {}

FilesOK(sm) ==
  /\ sm \in SendState
  /\ IsInjective(sm.freeSlabs) /\ IsInjective(sm.workingSlabs)
  /\ ListsApart(sm)
  /\ sm.working = Range(sm.workingSlabs)

CountsOK(sm) ==
  /\ \A s \in Range(sm.freeSlabs) : sm.blocksUsed[s] = 0 /\ sm.refcount[s] = 0
  /\ \A s \in sm.fullSlabs : sm.refcount[s] > 0
  /\ sm.slabsHeld = Cardinality(Mine(sm))

MgrOK(sm) == FilesOK(sm) /\ CountsOK(sm)

(***************************************************************************)
(* Slabs are filed anew: the same slabs, and none that is referred to is   *)
(* given up.                                                               *)
(***************************************************************************)
Files(sm, t) ==
  /\ MgrOK(t) /\ Mine(t) = Mine(sm)
  /\ t.freeSlabs = sm.freeSlabs /\ t.slabsHeld = sm.slabsHeld
  /\ t.blocksUsed = sm.blocksUsed /\ t.refcount = sm.refcount
  /\ InUse(t) \subseteq InUse(sm)
  /\ \A s \in InUse(sm) : sm.refcount[s] > 0 => s \in InUse(t)

-----------------------------------------------------------------------------
\* What the constants are.
LEMMA Constants ==
  /\ IsFiniteSet(Slabs) /\ Slabs \subseteq Nat
  /\ BlocksPerSlab \in Nat \ {0} /\ BlockSize \in Nat \ {0} /\ UIntRange \in Nat
  /\ MaxWorking \in Nat /\ Lens \subseteq Nat
  /\ NumProdSlabs \in Nat \ {0}
  /\ \A len \in Lens : len + BlockSize <= UIntRange
  <1>1. Cardinality(Slabs) \in Nat
    BY SendAssumption, FS_CardinalityType
  <1>. QED BY <1>1, SendAssumption

\* The fields of a send manager, and where its slabs come from.
LEMMA StateFields ==
  ASSUME NEW sm \in SendState
  PROVE  /\ sm.freeSlabs \in Seq(Slabs) /\ sm.workingSlabs \in Seq(Slabs)
         /\ sm.fullSlabs \subseteq Slabs /\ sm.retiredSlabs \subseteq Slabs
         /\ sm.blocksUsed \in [Slabs -> 0 .. BlocksPerSlab] /\ sm.refcount \in [Slabs -> Nat]
         /\ sm.working \subseteq Slabs /\ sm.slabsHeld \in Nat
         /\ Range(sm.freeSlabs) \subseteq Slabs /\ Range(sm.workingSlabs) \subseteq Slabs
         /\ Mine(sm) \subseteq Slabs /\ IsFiniteSet(Mine(sm)) /\ InUse(sm) \subseteq Mine(sm)
  <1>1. /\ sm.freeSlabs \in Seq(Slabs) /\ sm.workingSlabs \in Seq(Slabs)
        /\ sm.fullSlabs \subseteq Slabs /\ sm.retiredSlabs \subseteq Slabs
        /\ sm.blocksUsed \in [Slabs -> 0 .. BlocksPerSlab] /\ sm.refcount \in [Slabs -> Nat]
        /\ sm.working \subseteq Slabs /\ sm.slabsHeld \in Nat
    BY DEF SendState
  <1>2. Range(sm.freeSlabs) \subseteq Slabs /\ Range(sm.workingSlabs) \subseteq Slabs
    BY <1>1, RangeIs
  <1>3. Mine(sm) \subseteq Slabs /\ InUse(sm) \subseteq Mine(sm)
    BY <1>1, <1>2 DEF Mine, InUse
  <1>4. IsFiniteSet(Mine(sm))
    BY <1>3, Constants, FS_Subset
  <1>. QED BY <1>1, <1>2, <1>3, <1>4

\* A record with SendState's fields and their types
SendFields == {"freeSlabs", "workingSlabs", "fullSlabs", "retiredSlabs",
               "blocksUsed", "refcount", "working", "slabsHeld"}
IsRec(r) == r = [f \in SendFields |-> r[f]]

\* A send manager is a record with these fields,
LEMMA StateIsRec ==
  ASSUME NEW sm \in SendState
  PROVE  IsRec(sm)
  BY DEF SendState, IsRec, SendFields

\* and such a record, with fields of the right types, is a send manager.
LEMMA RecIsState ==
  ASSUME NEW t, IsRec(t),
         t.freeSlabs \in Seq(Slabs), t.workingSlabs \in Seq(Slabs),
         t.fullSlabs \subseteq Slabs, t.retiredSlabs \subseteq Slabs,
         t.blocksUsed \in [Slabs -> 0 .. BlocksPerSlab], t.refcount \in [Slabs -> Nat],
         t.working \subseteq Slabs, t.slabsHeld \in Nat
  PROVE  t \in SendState
  <1>1. t = [freeSlabs |-> t.freeSlabs, workingSlabs |-> t.workingSlabs,
             fullSlabs |-> t.fullSlabs, retiredSlabs |-> t.retiredSlabs,
             blocksUsed |-> t.blocksUsed, refcount |-> t.refcount,
             working |-> t.working, slabsHeld |-> t.slabsHeld]
    BY DEF IsRec, SendFields
  <1>. QED BY <1>1 DEF SendState

\* MaxWorkingSlabs
LEMMA MaxWorkingFiles ==
  ASSUME NEW sm, MgrOK(sm), NEW max \in Nat, NEW t, t = MaxWorkingSlabs(sm, max)
  PROVE  /\ Files(sm, t)
         /\ sm.retiredSlabs \subseteq t.retiredSlabs
         /\ max = 0 => t.workingSlabs = <<>>
         /\ \A s \in Range(sm.workingSlabs) : 
              s \in Range(t.workingSlabs) \/ sm.refcount[s] > 0 \/ s \in t.retiredSlabs
  <1> DEFINE q      == sm.workingSlabs
             excess == IF Len(q) > max THEN Len(q) - max ELSE 0
             out    == Range(SubSeq(q, 1, excess))
             rest   == SubSeq(q, excess + 1, Len(q))
             busy   == {s \in out : sm.refcount[s] > 0}
             idle   == {s \in out : sm.refcount[s] = 0}
  <1>0. sm \in SendState /\ FilesOK(sm) /\ CountsOK(sm)
    BY DEF MgrOK, FilesOK
  <1>1. q \in Seq(Slabs) /\ IsInjective(q) /\ excess \in 0..Len(q)
    <2>1. q \in Seq(Slabs) /\ IsInjective(q)
      BY <1>0, StateFields DEF FilesOK
    <2>2. Len(q) \in Nat
      BY <2>1
    <2>. QED BY <2>1, <2>2
  <1>2. /\ rest \in Seq(Slabs) /\ IsInjective(rest) /\ Len(rest) = Len(q) - excess
        /\ out \cup Range(rest) = Range(q) /\ out \cap Range(rest) = {}
    <2> HIDE DEF q, excess
    <2>. QED BY <1>1, PartOfList
  <1>3. t = [sm EXCEPT !.workingSlabs = rest, !.working = @ \ out,
                       !.fullSlabs = @ \cup busy, !.retiredSlabs = @ \cup idle]
    BY DEF MaxWorkingSlabs
  <1>4. /\ t.freeSlabs = sm.freeSlabs /\ t.workingSlabs = rest
        /\ t.fullSlabs = sm.fullSlabs \cup busy /\ t.retiredSlabs = sm.retiredSlabs \cup idle
        /\ t.blocksUsed = sm.blocksUsed /\ t.refcount = sm.refcount
        /\ t.working = sm.working \ out /\ t.slabsHeld = sm.slabsHeld
    <2> HIDE DEF rest, out, busy, idle
    <2>. QED BY <1>0, <1>3 DEF SendState
  <1>5. out = busy \cup idle /\ busy \cap idle = {} /\ out \subseteq Slabs
    <2>1. out \subseteq Slabs /\ sm.refcount \in [Slabs -> Nat]
      BY <1>0, <1>2, StateFields
    <2> HIDE DEF out
    <2>2. \A s \in out : sm.refcount[s] \in Nat
      BY <2>1
    <2>. QED BY <2>1, <2>2
  <1>6. t \in SendState
    <2> HIDE DEF rest, out
    <2>. QED BY <1>0, <1>2, <1>3, <1>5 DEF SendState
  <1>7. /\ busy \subseteq out /\ \A s \in busy : sm.refcount[s] > 0
        /\ \A s \in idle : ~(sm.refcount[s] > 0)
    OBVIOUS
  <1>8. \A s \in out : ~(sm.refcount[s] > 0) => s \in idle
    BY <1>5
  <1> HIDE DEF rest, out, busy, idle
  <1>9. InUse(t) \cup idle = InUse(sm) /\ InUse(t) \cap idle = {}
    BY <1>0, <1>2, <1>4, <1>5 DEF InUse, FilesOK, ListsApart
  <1>10. Mine(t) = Mine(sm)
    BY <1>4, <1>9 DEF Mine
  <1>11. ListsApart(t)
    BY <1>0, <1>2, <1>4, <1>5, <1>9 DEF InUse, FilesOK, ListsApart
  <1>12. FilesOK(t)
    BY <1>0, <1>2, <1>4, <1>6, <1>11 DEF FilesOK
  <1>13. CountsOK(t)
    BY <1>0, <1>4, <1>7, <1>10 DEF CountsOK
  <1>14. \A s \in InUse(sm) : sm.refcount[s] > 0 => s \in InUse(t)
    BY <1>7, <1>9
  <1>15. Files(sm, t)
    BY <1>4, <1>9, <1>10, <1>12, <1>13, <1>14 DEF Files, MgrOK
  <1>16. ASSUME max = 0
         PROVE  rest = <<>>
    <2>1. Len(q) \in Nat
      BY <1>1
    <2>2. Len(rest) = 0
      BY <1>2, <1>16, <2>1
    <2>. QED BY <1>2, <2>2
  <1>. QED BY <1>2, <1>4, <1>5, <1>8, <1>15, <1>16

\* FileIfFull, after an allocation
LEMMA FileIfFullFiles ==
  ASSUME NEW sm, MgrOK(sm), NEW s \in Range(sm.workingSlabs), sm.refcount[s] > 0,
         NEW t, t = FileIfFull(sm, s)
  PROVE  Files(sm, t)
  <1> DEFINE q    == sm.workingSlabs
             rest == RemoveFirst(q, s)
  <1>0. sm \in SendState /\ FilesOK(sm) /\ CountsOK(sm)
    BY DEF MgrOK, FilesOK
  <1>1. CASE sm.blocksUsed[s] # BlocksPerSlab
    <2>1. t = sm
      BY <1>1 DEF FileIfFull
    <2>. QED BY <2>1 DEF Files
  <1>2. CASE sm.blocksUsed[s] = BlocksPerSlab
    <2>1. q \in Seq(Slabs) /\ IsInjective(q) /\ s \in Slabs
      BY <1>0, StateFields DEF FilesOK
    <2>2. /\ rest \in Seq(Slabs) /\ IsInjective(rest)
          /\ \A x : Contains(rest, x) <=> Contains(q, x) /\ x # s
      <3> HIDE DEF q
      <3>. QED BY <2>1, RemoveList
    <2>3. Range(rest) = Range(q) \ {s}
      <3>1. \A x : x \in Range(rest) <=> Contains(rest, x)
        BY <2>2, RangeIs
      <3>2. \A x : x \in Range(q) <=> Contains(q, x)
        BY <2>1, RangeIs
      <3> HIDE DEF rest, q
      <3>. QED BY <2>2, <3>1, <3>2
    <2>4. t = [sm EXCEPT !.workingSlabs = rest, !.working = @ \ {s}, !.fullSlabs = @ \cup {s}]
      BY <1>2 DEF FileIfFull
    <2> HIDE DEF rest
    <2>5. /\ t.freeSlabs = sm.freeSlabs /\ t.workingSlabs = rest
          /\ t.fullSlabs = sm.fullSlabs \cup {s} /\ t.retiredSlabs = sm.retiredSlabs
          /\ t.blocksUsed = sm.blocksUsed /\ t.refcount = sm.refcount
          /\ t.working = sm.working \ {s} /\ t.slabsHeld = sm.slabsHeld
      BY <1>0, <2>4 DEF SendState
    <2>6. t \in SendState
      <3>1. IsRec(t)
        BY <1>0, <2>4, StateIsRec DEF IsRec, SendFields
      <3>. QED BY <1>0, <2>1, <2>2, <2>5, <3>1, StateFields, RecIsState
    <2>7. InUse(t) = InUse(sm)
      BY <2>3, <2>5 DEF InUse
    <2>8. Mine(t) = Mine(sm)
      BY <2>5, <2>7 DEF Mine
    <2>9. ListsApart(t)
      BY <1>0, <2>3, <2>5, <2>7 DEF FilesOK, ListsApart, InUse
    <2>10. FilesOK(t)
      BY <1>0, <2>2, <2>3, <2>5, <2>6, <2>9 DEF FilesOK
    <2>11. CountsOK(t)
      BY <1>0, <2>5, <2>8 DEF CountsOK
    <2>. QED BY <2>5, <2>7, <2>8, <2>10, <2>11 DEF Files, MgrOK
  <1>. QED BY <1>1, <1>2

\* What cutting segments out of working and free slabs does: the descriptor has
\* one segment in each of some slabs, where the used blocks ended, and each of these
\* slabs has one more reference.
SegCut(sm, t, g) ==
  /\ g \in Segment
  /\ g.first = sm.blocksUsed[g.slab] /\ t.blocksUsed[g.slab] = g.first + g.n
  /\ t.refcount[g.slab] = sm.refcount[g.slab] + 1
  /\ g.slab \in Range(sm.freeSlabs) \cup Range(sm.workingSlabs)
  /\ g.slab \in InUse(t)

Cuts(sm, t, desc) ==
  /\ MgrOK(t) /\ Mine(t) = Mine(sm) /\ t.slabsHeld = sm.slabsHeld
  /\ desc \in Seq(Segment)
  /\ \A i \in DOMAIN desc : SegCut(sm, t, desc[i])
  /\ \A i, j \in DOMAIN desc : i # j => desc[i].slab # desc[j].slab
  /\ \A s \in Slabs \ SlabsOf(desc) :
       t.blocksUsed[s] = sm.blocksUsed[s] /\ t.refcount[s] = sm.refcount[s]
  /\ Range(t.freeSlabs) \subseteq Range(sm.freeSlabs) \ SlabsOf(desc)
  /\ InUse(t) \subseteq InUse(sm) \cup SlabsOf(desc)
  /\ \A s \in InUse(sm) : sm.refcount[s] > 0 => s \in InUse(t)

\* No segment: the send manager stays as it is.
LEMMA CutsNothing ==
  ASSUME NEW sm, MgrOK(sm)
  PROVE  Cuts(sm, sm, <<>>)
  <1>1. SlabsOf(<<>>) = {}
    BY DEF SlabsOf
  <1>. QED BY <1>1 DEF Cuts

\* A segment of one working slab
LEMMA CutSegmentCuts ==
  ASSUME NEW sm, MgrOK(sm), NEW s \in Range(sm.workingSlabs), NEW n \in 1 .. BlocksPerSlab,
         sm.blocksUsed[s] + n <= BlocksPerSlab,
         NEW r, r = CutSegment(sm, s, n)
  PROVE  /\ Cuts(sm, r.sm, r.desc) /\ r.desc # <<>> /\ SlabsOf(r.desc) = {s}
         /\ r.sm.freeSlabs = sm.freeSlabs
  <1> DEFINE a == Alloc(sm, s, n)
             f == FileIfFull(a, s)
             t == MaxWorkingSlabs(f, MaxWorking)
             g == [slab |-> s, first |-> sm.blocksUsed[s], n |-> n]
  <1>0. sm \in SendState /\ FilesOK(sm) /\ CountsOK(sm) /\ s \in Slabs
    BY StateFields DEF MgrOK, FilesOK
  <1>1. r.sm = t /\ r.desc = <<g>>
    <2> HIDE DEF t, g
    <2>. QED BY DEF CutSegment, t, g, f, a
  <1>2. sm.blocksUsed[s] \in 0 .. BlocksPerSlab /\ sm.refcount[s] \in Nat
    BY <1>0, StateFields
  <1>3. /\ a.freeSlabs = sm.freeSlabs /\ a.workingSlabs = sm.workingSlabs
        /\ a.fullSlabs = sm.fullSlabs /\ a.retiredSlabs = sm.retiredSlabs
        /\ a.working = sm.working /\ a.slabsHeld = sm.slabsHeld
        /\ a.blocksUsed = [sm.blocksUsed EXCEPT ![s] = @ + n]
        /\ a.refcount = [sm.refcount EXCEPT ![s] = @ + 1]
    BY <1>0 DEF Alloc, SendState
  <1>4. /\ a.blocksUsed \in [Slabs -> 0 .. BlocksPerSlab] /\ a.refcount \in [Slabs -> Nat]
        /\ a.blocksUsed[s] = sm.blocksUsed[s] + n /\ a.refcount[s] = sm.refcount[s] + 1
        /\ \A x \in Slabs \ {s} : a.blocksUsed[x] = sm.blocksUsed[x] /\ a.refcount[x] = sm.refcount[x]
    <2>1. sm.blocksUsed \in [Slabs -> 0 .. BlocksPerSlab] /\ sm.refcount \in [Slabs -> Nat]
      BY <1>0, StateFields
    <2>2. sm.blocksUsed[s] + n \in 0 .. BlocksPerSlab /\ sm.refcount[s] + 1 \in Nat
      BY <1>2, Constants
    <2> HIDE DEF a
    <2>. QED BY <1>0, <1>3, <2>1, <2>2
  <1>5. a \in SendState
    <2> HIDE DEF a
    <2>1. IsRec(a)
      BY <1>0, StateIsRec DEF a, Alloc, IsRec, SendFields
    <2>. QED BY <1>0, <1>3, <1>4, <2>1, StateFields, RecIsState
  <1> HIDE DEF a
  <1>6. MgrOK(a) /\ Mine(a) = Mine(sm) /\ InUse(a) = InUse(sm)
    <2>1. Mine(a) = Mine(sm) /\ InUse(a) = InUse(sm)
      BY <1>3 DEF Mine, InUse
    <2>2. FilesOK(a)
      BY <1>0, <1>3, <1>5, <2>1 DEF FilesOK, ListsApart
    <2>3. s \notin Range(sm.freeSlabs) /\ s \notin sm.fullSlabs
      BY <1>0 DEF FilesOK, ListsApart, InUse
    <2>4. Range(sm.freeSlabs) \subseteq Slabs \ {s} /\ sm.fullSlabs \subseteq Slabs \ {s}
      BY <1>0, <2>3, StateFields
    <2>5. CountsOK(a)
      BY <1>0, <1>3, <1>4, <2>1, <2>4 DEF CountsOK
    <2>. QED BY <2>1, <2>2, <2>5 DEF MgrOK
  <1>7. a.refcount[s] > 0 /\ s \in Range(a.workingSlabs)
    BY <1>2, <1>3, <1>4
  <1>8. Files(a, f)
    <2> HIDE DEF f
    <2>. QED BY <1>6, <1>7, FileIfFullFiles DEF f
  <1> HIDE DEF f
  <1>9. Files(f, t)
    <2>1. MgrOK(f)
      BY <1>8 DEF Files
    <2> HIDE DEF t
    <2>. QED BY <2>1, Constants, MaxWorkingFiles DEF t
  <1> HIDE DEF t
  <1>10. /\ MgrOK(t) /\ Mine(t) = Mine(sm) /\ t.freeSlabs = sm.freeSlabs
         /\ t.slabsHeld = sm.slabsHeld /\ t.blocksUsed = a.blocksUsed /\ t.refcount = a.refcount
         /\ InUse(t) \subseteq InUse(sm)
         /\ \A x \in InUse(sm) : a.refcount[x] > 0 => x \in InUse(t)
    BY <1>3, <1>6, <1>8, <1>9 DEF Files
  <1>11. g \in Segment /\ g.slab = s /\ g.first = sm.blocksUsed[s] /\ g.n = n
    <2>1. sm.blocksUsed[s] \in 0 .. BlocksPerSlab - 1
      BY <1>2, Constants
    <2>. QED BY <1>0, <2>1 DEF Segment
  <1>12. s \in InUse(sm)
    BY DEF InUse
  <1>13. SegCut(sm, t, g)
    <2>1. s \in InUse(t)
      BY <1>7, <1>10, <1>12
    <2> HIDE DEF g
    <2>. QED BY <1>4, <1>10, <1>11, <2>1 DEF SegCut
  <1> DEFINE d == <<g>>
  <1>14. /\ d \in Seq(Segment) /\ DOMAIN d = {1} /\ d[1] = g /\ d # <<>>
    <2> HIDE DEF g
    <2>. QED BY <1>11
  <1> HIDE DEF g
  <1>15. SlabsOf(d) = {s}
    <2> HIDE DEF d
    <2>. QED BY <1>11, <1>14 DEF SlabsOf
  <1> HIDE DEF d
  <1>16. Range(t.freeSlabs) \subseteq Range(sm.freeSlabs) \ {s}
    BY <1>0, <1>10, <1>12 DEF FilesOK, ListsApart
  <1>17. \A x \in InUse(sm) : sm.refcount[x] > 0 => x \in InUse(t)
    <2> SUFFICES ASSUME NEW x \in InUse(sm), sm.refcount[x] > 0
                 PROVE  a.refcount[x] > 0
      BY <1>10
    <2>1. x \in Slabs
      BY <1>0, StateFields
    <2>. QED BY <1>2, <1>4, <2>1
  <1>18. \A x \in Slabs \ {s} : t.blocksUsed[x] = sm.blocksUsed[x] /\ t.refcount[x] = sm.refcount[x]
    BY <1>4, <1>10
  <1>19. Cuts(sm, t, d)
    BY <1>10, <1>13, <1>14, <1>15, <1>16, <1>17, <1>18 DEF Cuts
  <1>. QED BY <1>1, <1>10, <1>14, <1>15, <1>19 DEF d

\* A free slab becomes working
LEMMA OpenOK ==
  ASSUME NEW sm, MgrOK(sm), sm.freeSlabs # <<>>, NEW t, t = OpenFreeSlab(sm),
         NEW s, s = Head(sm.freeSlabs)
  PROVE  /\ MgrOK(t) /\ Mine(t) = Mine(sm) /\ InUse(t) = InUse(sm) \cup {s}
         /\ s \in Range(t.workingSlabs) /\ s \in Range(sm.freeSlabs) /\ s \in Slabs
         /\ Range(t.workingSlabs) = Range(sm.workingSlabs) \cup {s}
         /\ t.freeSlabs = Tail(sm.freeSlabs) /\ Range(t.freeSlabs) = Range(sm.freeSlabs) \ {s}
         /\ t.blocksUsed = sm.blocksUsed /\ t.refcount = sm.refcount
         /\ t.slabsHeld = sm.slabsHeld /\ sm.blocksUsed[s] = 0
  <1> DEFINE q == sm.freeSlabs
             w == Append(sm.workingSlabs, s)
  <1>0. /\ sm \in SendState /\ FilesOK(sm) /\ CountsOK(sm)
        /\ q \in Seq(Slabs) /\ IsInjective(q)
        /\ sm.workingSlabs \in Seq(Slabs) /\ IsInjective(sm.workingSlabs)
    BY StateFields DEF MgrOK, FilesOK
  <1>1. /\ s \in Slabs /\ Contains(q, s) /\ Tail(q) \in Seq(Slabs) /\ IsInjective(Tail(q))
        /\ \A x : Contains(Tail(q), x) <=> Contains(q, x) /\ x # s
    <2> HIDE DEF q
    <2>. QED BY <1>0, TailList DEF q
  <1>2. s \in Range(q) /\ Range(Tail(q)) = Range(q) \ {s}
    <2>1. \A x : x \in Range(q) <=> Contains(q, x)
      BY <1>0, RangeIs
    <2>2. \A x : x \in Range(Tail(q)) <=> Contains(Tail(q), x)
      BY <1>1, RangeIs
    <2>. QED BY <1>1, <2>1, <2>2
  <1>3. s \notin Range(sm.workingSlabs) /\ s \notin InUse(sm) /\ s \notin sm.retiredSlabs
    BY <1>0, <1>2 DEF FilesOK, ListsApart, InUse
  <1>4. /\ w \in Seq(Slabs) /\ IsInjective(w) /\ Range(w) = Range(sm.workingSlabs) \cup {s}
    <2>1. \A x : x \in Range(sm.workingSlabs) <=> Contains(sm.workingSlabs, x)
      BY <1>0, RangeIs
    <2>2. /\ w \in Seq(Slabs) /\ IsInjective(w)
          /\ \A x : Contains(w, x) <=> Contains(sm.workingSlabs, x) \/ x = s
      BY <1>0, <1>1, <1>3, <2>1, AppendList
    <2>3. \A x : x \in Range(w) <=> Contains(w, x)
      BY <2>2, RangeIs
    <2> HIDE DEF w
    <2>. QED BY <2>1, <2>2, <2>3
  <1>5. t = [sm EXCEPT !.freeSlabs = Tail(q), !.workingSlabs = w, !.working = @ \cup {s}]
    BY DEF OpenFreeSlab
  <1> HIDE DEF q, w
  <1>6. /\ t.freeSlabs = Tail(q) /\ t.workingSlabs = w
        /\ t.fullSlabs = sm.fullSlabs /\ t.retiredSlabs = sm.retiredSlabs
        /\ t.blocksUsed = sm.blocksUsed /\ t.refcount = sm.refcount
        /\ t.working = sm.working \cup {s} /\ t.slabsHeld = sm.slabsHeld
    BY <1>0, <1>5 DEF SendState
  <1>7. t \in SendState
    <2>1. IsRec(t)
      BY <1>0, <1>5, StateIsRec DEF IsRec, SendFields
    <2>. QED BY <1>0, <1>1, <1>4, <1>6, <2>1, StateFields, RecIsState
  <1>8. InUse(t) = InUse(sm) \cup {s}
    BY <1>4, <1>6 DEF InUse
  <1>9. Mine(t) = Mine(sm)
    BY <1>2, <1>6, <1>8 DEF Mine, q
  <1>10. ListsApart(t)
    BY <1>0, <1>2, <1>3, <1>4, <1>6, <1>8 DEF ListsApart, FilesOK, InUse, q
  <1>11. FilesOK(t)
    BY <1>0, <1>1, <1>4, <1>6, <1>7, <1>10 DEF FilesOK
  <1>12. CountsOK(t) /\ sm.blocksUsed[s] = 0
    BY <1>0, <1>2, <1>6, <1>9 DEF CountsOK, q
  <1>. QED BY <1>1, <1>2, <1>4, <1>6, <1>8, <1>9, <1>11, <1>12 DEF MgrOK, q

\* GetSegment finds no slab, and changes nothing, or cuts a segment.
LEMMA GetSegmentCuts ==
  ASSUME NEW sm, MgrOK(sm), NEW n \in 1 .. BlocksPerSlab, NEW noFreeSlabs,
         NEW r, r = GetSegment(sm, n, noFreeSlabs)
  PROVE  \/ /\ r.sm = sm /\ r.desc = <<>> /\ WithRoom(sm, n) = {}
            /\ sm.freeSlabs = <<>> \/ noFreeSlabs
         \/ /\ Cuts(sm, r.sm, r.desc) /\ r.desc # <<>>
            /\ r.sm.freeSlabs = sm.freeSlabs \/ (~noFreeSlabs /\ r.sm.freeSlabs = Tail(sm.freeSlabs))
  <1>0. sm \in SendState /\ FilesOK(sm) /\ CountsOK(sm) /\ BlocksPerSlab \in Nat
    BY Constants DEF MgrOK, FilesOK
  <1>00. sm.workingSlabs \in Seq(Slabs)
    BY <1>0, StateFields
  <1>1. CASE WithRoom(sm, n) # {}
    <2> DEFINE i == Min(WithRoom(sm, n))
               s == sm.workingSlabs[i]
    <2>1. WithRoom(sm, n) \subseteq Nat
      BY <1>00 DEF WithRoom
    <2>2. i \in WithRoom(sm, n)
      BY <1>1, <2>1, LeastNat
    <2>3. /\ i \in 1..Len(sm.workingSlabs)
          /\ BlocksPerSlab - sm.blocksUsed[s] >= n
      BY <1>00, <2>2 DEF WithRoom
    <2>4. s \in Range(sm.workingSlabs)
      BY <1>00, <2>3, RangeIs
    <2>5. sm.blocksUsed[s] \in 0 .. BlocksPerSlab
      BY <1>0, <2>4, StateFields
    <2> HIDE DEF i
    <2>6. r = CutSegment(sm, s, n)
      BY <1>1 DEF GetSegment, i
    <2> HIDE DEF s
    <2>7. sm.blocksUsed[s] + n <= BlocksPerSlab
      BY <1>0, <2>3, <2>5
    <2>. QED BY <2>4, <2>6, <2>7, CutSegmentCuts
  <1>2. CASE WithRoom(sm, n) = {} /\ (sm.freeSlabs = <<>> \/ noFreeSlabs)
    <2>1. r = [sm |-> sm, desc |-> <<>>]
      BY <1>2 DEF GetSegment
    <2>. QED BY <1>2, <2>1
  <1>3. CASE WithRoom(sm, n) = {} /\ ~(sm.freeSlabs = <<>> \/ noFreeSlabs)
    <2> DEFINE o == OpenFreeSlab(sm)
               s == Head(sm.freeSlabs)
               t == r.sm
               d == r.desc
    <2>1. r = CutSegment(o, s, n)
      BY <1>3 DEF GetSegment
    <2> HIDE DEF o, s
    <2>2. /\ MgrOK(o) /\ Mine(o) = Mine(sm) /\ InUse(o) = InUse(sm) \cup {s}
          /\ s \in Range(o.workingSlabs) /\ s \in Range(sm.freeSlabs) /\ s \in Slabs
          /\ Range(o.workingSlabs) = Range(sm.workingSlabs) \cup {s}
          /\ o.freeSlabs = Tail(sm.freeSlabs) /\ Range(o.freeSlabs) = Range(sm.freeSlabs) \ {s}
          /\ o.blocksUsed = sm.blocksUsed /\ o.refcount = sm.refcount
          /\ o.slabsHeld = sm.slabsHeld /\ sm.blocksUsed[s] = 0
      BY <1>3, OpenOK DEF o, s
    <2>3. o.blocksUsed[s] + n <= BlocksPerSlab
      BY <1>0, <2>2
    <2>4. Cuts(o, t, d) /\ d # <<>> /\ SlabsOf(d) = {s} /\ t.freeSlabs = o.freeSlabs
      BY <2>1, <2>2, <2>3, CutSegmentCuts
    <2> HIDE DEF t, d
    <2>5. \A j \in DOMAIN d : SegCut(sm, t, d[j])
      <3> SUFFICES ASSUME NEW j \in DOMAIN d
                   PROVE  SegCut(sm, t, d[j])
        OBVIOUS
      <3>1. SegCut(o, t, d[j])
        BY <2>4 DEF Cuts
      <3>2. d[j].slab \in Range(sm.freeSlabs) \cup Range(sm.workingSlabs)
        BY <2>2, <3>1 DEF SegCut
      <3>. QED BY <2>2, <3>1, <3>2 DEF SegCut
    <2>6. InUse(t) \subseteq InUse(sm) \cup SlabsOf(d)
      BY <2>2, <2>4 DEF Cuts
    <2>7. Range(t.freeSlabs) \subseteq Range(sm.freeSlabs) \ SlabsOf(d)
      BY <2>2, <2>4
    <2>8. \A x \in InUse(sm) : sm.refcount[x] > 0 => x \in InUse(t)
      BY <2>2, <2>4 DEF Cuts
    <2>9. \A x \in Slabs \ SlabsOf(d) :
            t.blocksUsed[x] = sm.blocksUsed[x] /\ t.refcount[x] = sm.refcount[x]
      BY <2>2, <2>4 DEF Cuts
    <2>10. /\ MgrOK(t) /\ Mine(t) = Mine(sm) /\ t.slabsHeld = sm.slabsHeld /\ d \in Seq(Segment)
           /\ \A i, j \in DOMAIN d : i # j => d[i].slab # d[j].slab
      BY <2>2, <2>4 DEF Cuts
    <2>11. Cuts(sm, t, d)
      BY <2>5, <2>6, <2>7, <2>8, <2>9, <2>10 DEF Cuts
    <2>. QED BY <1>3, <2>2, <2>4, <2>11 DEF t, d
  <1>. QED BY <1>1, <1>2, <1>3

\* d is a list of S, the list a and then b.
Joins(S, a, b, d) ==
  /\ d \in Seq(S) /\ Len(d) = Len(a) + Len(b) /\ DOMAIN d = 1..(Len(a) + Len(b))
  /\ \A i \in 1..Len(a) : d[i] = a[i]
  /\ \A i \in 1..Len(b) : d[Len(a) + i] = b[i]

\* A concatenation is such a list.
LEMMA JoinsIs ==
  ASSUME NEW S, NEW a \in Seq(S), NEW b \in Seq(S), NEW d, d = a \o b
  PROVE  Joins(S, a, b, d)
  BY ConcatList DEF Joins

\* The whole slabs of a message
LEMMA AddWholeCuts ==
  ASSUME NEW sm, MgrOK(sm), NEW got, Cuts(sm, got.sm, got.desc),
         NEW whole \in 0 .. Len(got.sm.freeSlabs),
         NEW r, r = AddWholeSlabs(got, whole)
  PROVE  Cuts(sm, r.sm, r.desc) /\ Len(r.desc) = Len(got.desc) + whole
  <1> DEFINE u    == got.sm
             q    == u.freeSlabs
             ids  == SubSeq(q, 1, whole)
             rest == SubSeq(q, whole + 1, Len(q))
             new  == Range(ids)
             t    == r.sm
             d    == r.desc
             e    == got.desc
             w    == [i \in 1 .. whole |->
                       [slab |-> ids[i], first |-> u.blocksUsed[ids[i]], n |-> BlocksPerSlab]]
             used == [s \in Slabs |-> IF s \in new THEN u.blocksUsed[s] + BlocksPerSlab
                                                   ELSE u.blocksUsed[s]]
             refs == [s \in Slabs |-> IF s \in new THEN u.refcount[s] + 1 ELSE u.refcount[s]]
  <1>0. /\ u \in SendState /\ FilesOK(u) /\ CountsOK(u) /\ BlocksPerSlab \in Nat \ {0}
        /\ sm \in SendState /\ FilesOK(sm)
    BY Constants DEF MgrOK, FilesOK, Cuts
  <1>1. q \in Seq(Slabs) /\ IsInjective(q) /\ Len(q) \in Nat /\ whole \in 0..Len(q)
    <2>1. q \in Seq(Slabs)
      BY <1>0, StateFields
    <2>. QED BY <1>0, <2>1 DEF FilesOK
  <1>2. /\ ids \in Seq(Slabs) /\ IsInjective(ids) /\ Len(ids) = whole
        /\ rest \in Seq(Slabs) /\ IsInjective(rest)
        /\ new \cup Range(rest) = Range(q) /\ new \cap Range(rest) = {}
    <2> HIDE DEF q
    <2>. QED BY <1>1, PartOfList
  <1>3. t = [u EXCEPT !.freeSlabs = rest, !.fullSlabs = @ \cup new,
                      !.blocksUsed = used, !.refcount = refs]
    <2> HIDE DEF u, w
    <2>. QED BY DEF AddWholeSlabs, u, w
  <1>4. d = e \o w
    BY DEF AddWholeSlabs
  <1> HIDE DEF rest, used, refs, d, e, w, t
  <1>5. /\ t.freeSlabs = rest /\ t.workingSlabs = u.workingSlabs
        /\ t.fullSlabs = u.fullSlabs \cup new /\ t.retiredSlabs = u.retiredSlabs
        /\ t.blocksUsed = used /\ t.refcount = refs
        /\ t.working = u.working /\ t.slabsHeld = u.slabsHeld
    <2> HIDE DEF u, new
    <2>. QED BY <1>0, <1>3 DEF SendState
  <1>6. IsRec(t)
    <2> HIDE DEF u, new
    <2>. QED BY <1>0, <1>3, StateIsRec DEF IsRec, SendFields
  <1> HIDE DEF u, q, ids, new
  <1>7. /\ new \subseteq Range(q) /\ Range(q) \subseteq Slabs
        /\ \A s \in new : u.blocksUsed[s] = 0 /\ u.refcount[s] = 0
        /\ \A i \in 1..whole : ids[i] \in new
    <2>1. new \subseteq Range(q) /\ Range(q) \subseteq Slabs
      BY <1>1, <1>2, RangeIs
    <2>2. \A s \in Range(q) : u.blocksUsed[s] = 0 /\ u.refcount[s] = 0
      BY <1>0 DEF CountsOK, q
    <2>3. \A i \in 1..Len(ids) : ids[i] \in new
      BY <1>2, RangeIs DEF new
    <2>. QED BY <1>2, <2>1, <2>2, <2>3
  <1>8. /\ \A s \in new : used[s] = BlocksPerSlab /\ refs[s] = 1
        /\ \A s \in Slabs \ new : used[s] = u.blocksUsed[s] /\ refs[s] = u.refcount[s]
        /\ used \in [Slabs -> 0 .. BlocksPerSlab] /\ refs \in [Slabs -> Nat]
    <2>1. u.blocksUsed \in [Slabs -> 0 .. BlocksPerSlab] /\ u.refcount \in [Slabs -> Nat]
      BY <1>0, StateFields
    <2>. QED BY <1>0, <1>7, <2>1 DEF used, refs
  <1>9. t \in SendState
    BY <1>0, <1>2, <1>5, <1>6, <1>7, <1>8, StateFields, RecIsState
  <1>10. InUse(t) = InUse(u) \cup new
    BY <1>5 DEF InUse
  <1>11. Mine(t) = Mine(u)
    BY <1>2, <1>5, <1>10 DEF Mine, q
  <1>12. /\ new \cap InUse(u) = {} /\ new \cap u.retiredSlabs = {}
         /\ new \cap Range(u.workingSlabs) = {}
    BY <1>0, <1>7 DEF FilesOK, ListsApart, q, InUse
  <1>13. ListsApart(t)
    BY <1>0, <1>2, <1>5, <1>10, <1>12 DEF ListsApart, FilesOK, q
  <1>14. FilesOK(t)
    BY <1>0, <1>2, <1>5, <1>9, <1>13 DEF FilesOK
  <1>15. CountsOK(t)
    <2>1. Range(rest) \subseteq Slabs \ new /\ Range(rest) \subseteq Range(q)
      BY <1>2, <1>7
    <2>2. \A s \in Range(rest) : used[s] = 0 /\ refs[s] = 0
      BY <1>0, <1>8, <2>1 DEF CountsOK, q
    <2>3. u.fullSlabs \subseteq Slabs \ new
      BY <1>0, <1>12, StateFields DEF InUse
    <2>4. \A s \in u.fullSlabs \cup new : refs[s] > 0
      BY <1>0, <1>8, <2>3 DEF CountsOK
    <2>. QED BY <1>0, <1>5, <1>11, <2>2, <2>4 DEF CountsOK
  <1>16. /\ e \in Seq(Segment) /\ Mine(u) = Mine(sm) /\ u.slabsHeld = sm.slabsHeld
         /\ \A i \in DOMAIN e : SegCut(sm, u, e[i])
         /\ \A i, j \in DOMAIN e : i # j => e[i].slab # e[j].slab
         /\ \A s \in Slabs \ SlabsOf(e) :
              u.blocksUsed[s] = sm.blocksUsed[s] /\ u.refcount[s] = sm.refcount[s]
         /\ Range(q) \subseteq Range(sm.freeSlabs) \ SlabsOf(e)
         /\ InUse(u) \subseteq InUse(sm) \cup SlabsOf(e)
         /\ \A s \in InUse(sm) : sm.refcount[s] > 0 => s \in InUse(u)
    BY DEF Cuts, u, e, q
  <1>17. ASSUME NEW i \in DOMAIN e
         PROVE  SegCut(sm, t, e[i]) /\ e[i].slab \notin new
    <2>1. SegCut(sm, u, e[i]) /\ e[i].slab \in SlabsOf(e)
      BY <1>16 DEF SlabsOf
    <2>2. e[i].slab \in InUse(u) /\ e[i].slab \in Slabs
      BY <2>1 DEF SegCut, Segment
    <2>3. e[i].slab \in Slabs \ new
      BY <1>12, <2>2
    <2>4. e[i].slab \in InUse(t)
      BY <1>10, <2>2
    <2>. QED BY <1>5, <1>8, <2>1, <2>3, <2>4 DEF SegCut
  <1>18. ASSUME NEW i \in 1..whole
         PROVE  SegCut(sm, t, w[i]) /\ w[i].slab = ids[i] /\ w[i].slab \in new
    <2>1. /\ w[i] = [slab |-> ids[i], first |-> u.blocksUsed[ids[i]], n |-> BlocksPerSlab]
          /\ ids[i] \in new /\ ids[i] \in Slabs
      BY <1>7 DEF w
    <2>2. u.blocksUsed[ids[i]] = 0 /\ u.refcount[ids[i]] = 0
      BY <1>7, <2>1
    <2>3. w[i] \in Segment /\ w[i].slab = ids[i] /\ w[i].first = 0 /\ w[i].n = BlocksPerSlab
      BY <1>0, <2>1, <2>2 DEF Segment
    <2>4. ids[i] \in Slabs \ SlabsOf(e) /\ ids[i] \in Range(sm.freeSlabs)
      BY <1>7, <1>16, <2>1
    <2>5. sm.blocksUsed[ids[i]] = 0 /\ sm.refcount[ids[i]] = 0
      BY <1>16, <2>2, <2>4
    <2>6. used[ids[i]] = BlocksPerSlab /\ refs[ids[i]] = 1
      BY <1>8, <2>1
    <2>7. ids[i] \in InUse(t)
      BY <1>10, <2>1
    <2>. QED BY <1>0, <1>5, <2>1, <2>3, <2>4, <2>5, <2>6, <2>7 DEF SegCut
  <1>19. w \in Seq(Segment) /\ Len(w) = whole
    <2>1. w \in [1..whole -> Segment]
      <3>1. \A i \in 1..whole : w[i] \in Segment
        BY <1>18 DEF SegCut
      <3>. QED BY <3>1 DEF w
    <2>. QED BY <1>1, <2>1, FunctionList
  <1>20. /\ d \in Seq(Segment) /\ Len(d) = Len(e) + whole /\ DOMAIN d = 1..(Len(e) + whole)
         /\ \A i \in 1..Len(e) : d[i] = e[i]
         /\ \A i \in 1..whole : d[Len(e) + i] = w[i]
         /\ Len(e) \in Nat /\ DOMAIN e = 1..Len(e)
    <2>1. Len(e) \in Nat /\ DOMAIN e = 1..Len(e)
      BY <1>16
    <2>2. /\ d \in Seq(Segment) /\ Len(d) = Len(e) + Len(w) /\ DOMAIN d = 1..(Len(e) + Len(w))
          /\ \A i \in 1..Len(e) : d[i] = e[i]
          /\ \A i \in 1..Len(w) : d[Len(e) + i] = w[i]
      <3>1. e \in Seq(Segment) /\ w \in Seq(Segment) /\ d = e \o w
        BY <1>4, <1>16, <1>19
      <3>2. Joins(Segment, e, w, d)
        BY <3>1, JoinsIs
      <3>. QED BY <3>2 DEF Joins
    <2>. QED BY <1>19, <2>1, <2>2
  <1>21. ASSUME NEW i \in DOMAIN d
         PROVE  \/ i \in DOMAIN e /\ d[i] = e[i]
                \/ i - Len(e) \in 1..whole /\ d[i] = w[i - Len(e)]
    <2>1. CASE i <= Len(e)
      BY <1>20, <2>1
    <2>2. CASE ~(i <= Len(e))
      <3>1. i - Len(e) \in 1..whole /\ Len(e) + (i - Len(e)) = i
        BY <1>1, <1>20, <2>2
      <3>. QED BY <1>20, <3>1
    <2>. QED BY <2>1, <2>2
  <1>22. \A i \in DOMAIN d : SegCut(sm, t, d[i])
    BY <1>17, <1>18, <1>21
  <1>23. ASSUME NEW i \in DOMAIN d, NEW j \in DOMAIN d, d[i].slab = d[j].slab
         PROVE  i = j
    <2>1. CASE i \in DOMAIN e /\ d[i] = e[i] /\ j \in DOMAIN e /\ d[j] = e[j]
      BY <1>16, <1>23, <2>1
    <2>2. CASE i \in DOMAIN e /\ d[i] = e[i] /\ j - Len(e) \in 1..whole /\ d[j] = w[j - Len(e)]
      BY <1>17, <1>18, <1>23, <2>2
    <2>3. CASE i - Len(e) \in 1..whole /\ d[i] = w[i - Len(e)] /\ j \in DOMAIN e /\ d[j] = e[j]
      BY <1>17, <1>18, <1>23, <2>3
    <2>4. CASE /\ i - Len(e) \in 1..whole /\ d[i] = w[i - Len(e)]
               /\ j - Len(e) \in 1..whole /\ d[j] = w[j - Len(e)]
      <3>1. ids[i - Len(e)] = ids[j - Len(e)]
        BY <1>18, <1>23, <2>4
      <3>2. i - Len(e) \in DOMAIN ids /\ j - Len(e) \in DOMAIN ids
        BY <1>2, <2>4
      <3>3. i - Len(e) = j - Len(e)
        BY <1>2, <3>1, <3>2, Zenon DEF IsInjective
      <3>. QED BY <1>20, <3>3
    <2>. QED BY <1>21, <2>1, <2>2, <2>3, <2>4
  <1>24. SlabsOf(d) = SlabsOf(e) \cup new
    <2>1. SlabsOf(d) \subseteq SlabsOf(e) \cup new
      BY <1>18, <1>21 DEF SlabsOf
    <2>2. SlabsOf(e) \subseteq SlabsOf(d)
      <3> SUFFICES ASSUME NEW i \in DOMAIN e
                   PROVE  e[i].slab \in SlabsOf(d)
        BY DEF SlabsOf
      <3>1. i \in DOMAIN d /\ d[i] = e[i]
        BY <1>1, <1>20
      <3>. QED BY <3>1 DEF SlabsOf
    <2>3. new \subseteq SlabsOf(d)
      <3> SUFFICES ASSUME NEW i \in 1..whole
                   PROVE  ids[i] \in SlabsOf(d)
        BY <1>2 DEF new, Range
      <3>1. Len(e) + i \in DOMAIN d /\ d[Len(e) + i] = w[i]
        BY <1>1, <1>20
      <3>. QED BY <1>18, <3>1 DEF SlabsOf
    <2>. QED BY <2>1, <2>2, <2>3
  <1>25. \A s \in Slabs \ SlabsOf(d) :
           t.blocksUsed[s] = sm.blocksUsed[s] /\ t.refcount[s] = sm.refcount[s]
    BY <1>5, <1>8, <1>16, <1>24
  <1>26. Range(t.freeSlabs) \subseteq Range(sm.freeSlabs) \ SlabsOf(d)
    BY <1>2, <1>5, <1>16, <1>24
  <1>27. /\ InUse(t) \subseteq InUse(sm) \cup SlabsOf(d)
         /\ \A s \in InUse(sm) : sm.refcount[s] > 0 => s \in InUse(t)
    BY <1>10, <1>16, <1>24
  <1>28. MgrOK(t) /\ Mine(t) = Mine(sm) /\ t.slabsHeld = sm.slabsHeld
    BY <1>5, <1>11, <1>14, <1>15, <1>16 DEF MgrOK
  <1>29. Cuts(sm, t, d)
    BY <1>20, <1>22, <1>23, <1>25, <1>26, <1>27, <1>28 DEF Cuts
  <1>. QED BY <1>20, <1>29 DEF t, d, e

-----------------------------------------------------------------------------
(***************************************************************************)
(* The number of blocks of a message.                                      *)
(***************************************************************************)
LEMMA NumBlocksIs ==
  ASSUME NEW len \in Lens
  PROVE  /\ NumBlocks(len) \in Nat \ {0}
         /\ len <= NumProdSlabs * BlocksPerSlab * BlockSize =>
              NumBlocks(len) <= NumProdSlabs * BlocksPerSlab
  <1> DEFINE a == len - 1 + BlockSize
             d == a \div BlockSize
             m == NumProdSlabs * BlocksPerSlab
  <1>1. /\ len \in Nat /\ BlockSize \in Nat \ {0} /\ UIntRange \in Nat /\ len + BlockSize <= UIntRange
        /\ NumProdSlabs \in Nat \ {0} /\ BlocksPerSlab \in Nat \ {0}
    BY Constants
  <1>2. a \in Nat /\ a < UIntRange /\ m \in Nat /\ m >= 1
    <2>1. m \in Nat /\ m >= 1
      BY <1>1
    <2>. QED BY <1>1, <2>1
  <1>3. a % UIntRange = a
    <2> HIDE DEF a
    <2>1. UIntRange \in Nat \ {0}
      BY <1>1, <1>2
    <2>. QED BY <1>2, <2>1
  <1>4. NumBlocks(len) = IF d = 0 THEN 1 ELSE d
    <2>1. NumBlocks(len) = LET n == (a % UIntRange) \div BlockSize IN IF n = 0 THEN 1 ELSE n
      BY DEF NumBlocks
    <2>. QED BY <1>3, <2>1
  <1> HIDE DEF a, m
  <1>5. d \in Nat
    BY <1>1, <1>2, DivMod
  <1>6. ASSUME len <= m * BlockSize
        PROVE  d <= m
    <2>1. a < (m + 1) * BlockSize
      <3>1. (m + 1) * BlockSize = m * BlockSize + BlockSize /\ m * BlockSize \in Nat
        BY <1>1, <1>2
      <3>. QED BY <1>1, <1>6, <3>1 DEF a
    <2>2. d < m + 1
      BY <1>1, <1>2, <2>1, DivBelow
    <2>. QED BY <1>2, <1>5, <2>2
  <1> HIDE DEF d
  <1>7. NumBlocks(len) \in Nat \ {0}
    BY <1>4, <1>5
  <1>8. len <= m * BlockSize => NumBlocks(len) <= m
    BY <1>2, <1>4, <1>5, <1>6
  <1>. QED BY <1>7, <1>8 DEF m

\* Whole slabs and the rest
Whole(len) == NumBlocks(len) \div BlocksPerSlab
Part(len)  == NumBlocks(len) % BlocksPerSlab

\* The whole slabs and the part of a slab that a message needs; those of a message
\* that the reservation holds are no more than the reserved slabs.
LEMMA WholeAndPart ==
  ASSUME NEW len \in Lens
  PROVE  /\ Whole(len) \in Nat /\ Part(len) \in 0 .. BlocksPerSlab - 1
         /\ NumBlocks(len) > BlocksPerSlab => Whole(len) > 0
         /\ len <= NumProdSlabs * BlocksPerSlab * BlockSize =>
              Whole(len) <= NumProdSlabs /\ (Part(len) > 0 => Whole(len) < NumProdSlabs)
  <1> DEFINE n == NumBlocks(len)
             w == Whole(len)
             p == Part(len)
             N == NumProdSlabs
             B == BlocksPerSlab
  <1>1. n \in Nat \ {0} /\ B \in Nat \ {0} /\ N \in Nat \ {0}
    BY Constants, NumBlocksIs
  <1>2. w \in Nat /\ p \in Nat /\ p < B /\ n = w * B + p
    <2> HIDE DEF n, B
    <2>. QED BY <1>1, DivMod DEF Whole, Part, n, B
  <1>3. len <= N * B * BlockSize => n <= N * B
    BY NumBlocksIs
  <1> HIDE DEF n, w, p, N, B
  <1>4. ASSUME n > B
        PROVE  w > 0
    <2>1. CASE w = 0
      <3>1. w * B = 0
        BY <1>1, <2>1
      <3>. QED BY <1>1, <1>2, <1>4, <3>1
    <2>. QED BY <1>2, <2>1
  <1>5. ASSUME n <= N * B, N < w
        PROVE  FALSE
    <2>1. (N + 1) * B <= w * B
      BY <1>1, <1>2, <1>5, TimesMono
    <2>2. (N + 1) * B = N * B + B /\ N * B \in Nat /\ w * B \in Nat
      BY <1>1, <1>2
    <2>. QED BY <1>1, <1>2, <1>5, <2>1, <2>2
  <1>6. ASSUME n <= N * B, p > 0, N <= w
        PROVE  FALSE
    <2>1. N * B <= w * B /\ N * B \in Nat /\ w * B \in Nat
      BY <1>1, <1>2, <1>6, TimesMono
    <2>. QED BY <1>1, <1>2, <1>6, <2>1
  <1>7. n <= N * B => w <= N /\ (p > 0 => w < N)
    BY <1>1, <1>2, <1>5, <1>6
  <1>8. p \in 0 .. B - 1
    BY <1>1, <1>2
  <1>. QED BY <1>2, <1>3, <1>4, <1>7, <1>8 DEF n, w, p, N, B

\* the only reasons for which a message may not get its blocks
Scarce(sm, len) ==
  \/ sm.freeSlabs = <<>>
  \/ Whole(len) > Len(sm.freeSlabs)
  \/ Part(len) > 0 /\ Whole(len) = Len(sm.freeSlabs)

(***************************************************************************)
(* GetMessageDescriptor returns nothing and changes nothing, or cuts the   *)
(* segments of a message.                                                  *)
(***************************************************************************)
LEMMA GetCuts ==
  ASSUME NEW sm, MgrOK(sm), NEW len \in Lens, NEW contiguous \in BOOLEAN,
         ~TooLong(len, contiguous), NEW r, r = GetMessageDescriptor(sm, len, contiguous)
  PROVE  \/ r.sm = sm /\ r.desc = <<>> /\ Scarce(sm, len)
         \/ Cuts(sm, r.sm, r.desc) /\ r.desc # <<>>
  <1> DEFINE n    == NumBlocks(len)
             none == [sm |-> sm, desc |-> <<>>]
             no   == Whole(len) = Len(sm.freeSlabs)
             part == GetSegment(sm, Part(len), no)
             got  == IF Part(len) = 0 THEN none ELSE part
  <1>1. /\ n \in Nat \ {0} /\ BlocksPerSlab \in Nat \ {0} /\ Whole(len) \in Nat
        /\ Part(len) \in 0 .. BlocksPerSlab - 1
        /\ n > BlocksPerSlab => Whole(len) > 0
    BY Constants, NumBlocksIs, WholeAndPart
  <1>2. Len(sm.freeSlabs) \in Nat /\ sm.freeSlabs \in Seq(Slabs)
    <2>1. sm.freeSlabs \in Seq(Slabs)
      BY StateFields DEF MgrOK, FilesOK
    <2>. QED BY <2>1
  <1>3. CASE contiguous \/ n <= BlocksPerSlab
    <2>1. r = GetSegment(sm, n, FALSE)
      BY <1>3 DEF GetMessageDescriptor
    <2>2. n \in 1 .. BlocksPerSlab
      BY <1>1, <1>3 DEF TooLong
    <2> HIDE DEF n
    <2>3. \/ r.sm = sm /\ r.desc = <<>> /\ sm.freeSlabs = <<>>
          \/ Cuts(sm, r.sm, r.desc) /\ r.desc # <<>>
      <3> DEFINE never == FALSE
      <3>1. ~never /\ r = GetSegment(sm, n, never)
        BY <2>1
      <3> HIDE DEF never
      <3>. QED BY <2>2, <3>1, GetSegmentCuts
    <2>. QED BY <2>3 DEF Scarce
  <1>4. CASE ~(contiguous \/ n <= BlocksPerSlab)
    <2>0. Whole(len) > 0
      BY <1>1, <1>4
    <2>1. r = IF Whole(len) > Len(sm.freeSlabs) THEN none
              ELSE IF Part(len) > 0 /\ got.desc = <<>> THEN none
              ELSE AddWholeSlabs(got, Whole(len))
      <3> HIDE DEF none
      <3>. QED BY <1>4 DEF GetMessageDescriptor, Whole, Part, none
    <2>2. CASE r = none /\ Whole(len) > Len(sm.freeSlabs)
      BY <2>2 DEF Scarce
    <2>4. CASE r = none /\ Part(len) > 0 /\ got.desc = <<>>
      <3>1. part.desc = <<>> /\ Part(len) \in 1 .. BlocksPerSlab
        <4> HIDE DEF part
        <4>. QED BY <1>1, <2>4
      <3> HIDE DEF part, no
      <3>2. sm.freeSlabs = <<>> \/ no
        BY <3>1, GetSegmentCuts DEF part
      <3>. QED BY <2>4, <3>2 DEF Scarce, no
    <2>3. CASE /\ ~(Whole(len) > Len(sm.freeSlabs)) /\ ~(Part(len) > 0 /\ got.desc = <<>>)
               /\ r = AddWholeSlabs(got, Whole(len))
      <3>1. Cuts(sm, got.sm, got.desc) /\ Whole(len) \in 0 .. Len(got.sm.freeSlabs)
        <4>1. CASE Part(len) = 0
          <5>1. got.sm = sm /\ got.desc = <<>>
            BY <4>1
          <5> HIDE DEF got
          <5>. QED BY <1>1, <1>2, <2>3, <5>1, CutsNothing
        <4>2. CASE Part(len) # 0
          <5>1. got = part /\ part.desc # <<>> /\ Part(len) \in 1 .. BlocksPerSlab
            <6> HIDE DEF part
            <6>. QED BY <1>1, <2>3, <4>2
          <5> HIDE DEF part, got, no
          <5>2. /\ Cuts(sm, part.sm, part.desc)
                /\ part.sm.freeSlabs = sm.freeSlabs \/ (~no /\ part.sm.freeSlabs = Tail(sm.freeSlabs))
            BY <5>1, GetSegmentCuts DEF part
          <5>3. CASE part.sm.freeSlabs = sm.freeSlabs
            BY <1>1, <1>2, <2>3, <5>1, <5>2, <5>3
          <5>4. CASE ~no /\ part.sm.freeSlabs = Tail(sm.freeSlabs)
            <6>1. Len(sm.freeSlabs) > Whole(len)
              BY <1>1, <1>2, <2>3, <5>4 DEF no
            <6>2. Len(Tail(sm.freeSlabs)) = Len(sm.freeSlabs) - 1
              BY <1>1, <1>2, <6>1
            <6>. QED BY <1>1, <1>2, <5>1, <5>2, <5>4, <6>1, <6>2
          <5>. QED BY <5>2, <5>3, <5>4
        <4>. QED BY <4>1, <4>2
      <3> HIDE DEF got
      <3>2. Cuts(sm, r.sm, r.desc) /\ Len(r.desc) = Len(got.desc) + Whole(len)
        BY <2>3, <3>1, AddWholeCuts
      <3>3. Len(got.desc) \in Nat
        BY <3>1 DEF Cuts
      <3>4. r.desc # <<>>
        <4>1. Len(r.desc) > 0
          BY <1>1, <2>0, <3>2, <3>3
        <4>. QED BY <4>1
      <3>. QED BY <3>2, <3>4
    <2> HIDE DEF got, none
    <2>. QED BY <2>1, <2>2, <2>3, <2>4
  <1>. QED BY <1>3, <1>4

\* With as many free slabs as were reserved, it cuts one.
LEMMA GetServes ==
  ASSUME NEW sm, MgrOK(sm), NEW len \in Lens, NEW contiguous \in BOOLEAN,
         ~TooLong(len, contiguous), len <= NumProdSlabs * BlocksPerSlab * BlockSize,
         Len(sm.freeSlabs) >= NumProdSlabs,
         NEW r, r = GetMessageDescriptor(sm, len, contiguous)
  PROVE  r.desc # <<>>
  <1>1. /\ Whole(len) \in Nat /\ Part(len) \in 0 .. BlocksPerSlab - 1
        /\ Whole(len) <= NumProdSlabs /\ (Part(len) > 0 => Whole(len) < NumProdSlabs)
        /\ NumProdSlabs \in Nat \ {0}
    BY Constants, WholeAndPart
  <1>2. Len(sm.freeSlabs) \in Nat /\ Len(<<>>) = 0
    <2>1. sm.freeSlabs \in Seq(Slabs)
      BY StateFields DEF MgrOK, FilesOK
    <2>. QED BY <2>1
  <1>3. ~Scarce(sm, len)
    BY <1>1, <1>2 DEF Scarce
  <1>. QED BY <1>3, GetCuts

-----------------------------------------------------------------------------
(***************************************************************************)
(* The parts of the invariant that say what the lists mean to the others.  *)
(* The socket and the manager: every slab that the manager counts is in    *)
(* one place only, and blocks precede the return of their slab.            *)
(***************************************************************************)
IdsOf(m) == IF m.type = "slabs" THEN m.ids ELSE {}
MsgOK(m) == \/ m.type = "blocks" /\ m.segs \in Seq(Segment)
            \/ m.type = "slabs" /\ m.ids \subseteq Slabs
Back(q) == UNION {IdsOf(q[i]) : i \in DOMAIN q}

IsSeq(q) == \E T : q \in Seq(T)

NetOK(q, from, all, sm) ==
  /\ IsSeq(q)
  /\ \A i \in DOMAIN q : MsgOK(q[i])
  /\ from \in Seq(Slabs) /\ IsInjective(from)
  /\ Range(from) \cap Mine(sm) = {}
  /\ Back(q) \cap (Range(from) \cup Mine(sm)) = {}
  /\ \A i, j \in DOMAIN q : i # j => IdsOf(q[i]) \cap IdsOf(q[j]) = {}
  /\ all = Range(from) \cup Mine(sm) \cup Back(q)

Published(q, all) ==
  \A i \in DOMAIN q : q[i].type = "blocks" =>
    \A g \in Range(q[i].segs) :
      g.slab \in all /\ \A j \in 1 .. i - 1 : g.slab \notin IdsOf(q[j])

(***************************************************************************)
(* The descriptors: each has its blocks below the end of the used ones, in *)
(* a slab that is in use, and a slab's refcount counts them.               *)
(***************************************************************************)
Users(D, s) == {d \in D : s \in SlabsOf(d)}
DescOK(d, sm) ==
  /\ d \in Seq(Segment) /\ d # <<>>
  /\ \A i, j \in DOMAIN d : i # j => d[i].slab # d[j].slab
  /\ \A i \in DOMAIN d : /\ d[i].slab \in InUse(sm)
                         /\ d[i].first + d[i].n <= sm.blocksUsed[d[i].slab]
DescsOK(D, sm) ==
  /\ IsFiniteSet(D)
  /\ \A d \in D : DescOK(d, sm)
  /\ \A s \in Range(sm.freeSlabs) \cup InUse(sm) : sm.refcount[s] = Cardinality(Users(D, s))

\* What was cut from a slab: nothing, for a free one, and nothing above the end.
Apart(q) ==
  \A i, j \in DOMAIN q : /\ q[i].first + q[i].n <= BlocksPerSlab
                         /\ i < j => q[i].first + q[i].n <= q[j].first
HandedOK(h, sm) ==
  /\ h \in [Slabs -> Seq(Segment)]
  /\ \A s \in Slabs : Apart(h[s])
  /\ \A s \in Range(sm.freeSlabs) : h[s] = <<>>
  /\ \A s \in InUse(sm) : \A i \in DOMAIN h[s] : h[s][i].first + h[s][i].n <= sm.blocksUsed[s]

\* Steps that neither cut nor release
Quiet(sm, t) ==
  /\ MgrOK(t) /\ t.freeSlabs = sm.freeSlabs
  /\ t.blocksUsed = sm.blocksUsed /\ t.refcount = sm.refcount
  /\ InUse(t) \subseteq InUse(sm)
  /\ \A s \in InUse(sm) : sm.refcount[s] > 0 => s \in InUse(t)

\* The descriptors that point into a slab can be counted.
LEMMA UsersFinite ==
  ASSUME NEW D, IsFiniteSet(D), NEW s
  PROVE  /\ IsFiniteSet(Users(D, s)) /\ Cardinality(Users(D, s)) \in Nat
         /\ Users(D, s) # {} => Cardinality(Users(D, s)) > 0
  <1>1. Users(D, s) \subseteq D
    BY DEF Users
  <1>2. IsFiniteSet(Users(D, s))
    BY <1>1, FS_Subset
  <1>3. Cardinality(Users(D, s)) \in Nat
    BY <1>2, FS_CardinalityType
  <1>4. Users(D, s) # {} => Cardinality(Users(D, s)) # 0
    BY <1>2, FS_EmptySet
  <1>. QED BY <1>2, <1>3, <1>4

\* a slab with a descriptor has a positive refcount
LEMMA Referred ==
  ASSUME NEW D, NEW sm, DescsOK(D, sm), NEW d \in D, NEW i \in DOMAIN d
  PROVE  d[i].slab \in InUse(sm) /\ sm.refcount[d[i].slab] > 0
  <1>1. d[i].slab \in InUse(sm) /\ IsFiniteSet(D)
    BY DEF DescsOK, DescOK
  <1>2. d \in Users(D, d[i].slab)
    BY DEF Users, SlabsOf
  <1>3. sm.refcount[d[i].slab] = Cardinality(Users(D, d[i].slab))
    BY <1>1 DEF DescsOK
  <1>. QED BY <1>1, <1>2, <1>3, UsersFinite

\* Such a step leaves the descriptors and what was handed out valid.
LEMMA QuietKeeps ==
  ASSUME NEW sm, NEW t, Quiet(sm, t)
  PROVE  /\ \A D : DescsOK(D, sm) => DescsOK(D, t)
         /\ \A h : HandedOK(h, sm) => HandedOK(h, t)
  <1>1. ASSUME NEW D, DescsOK(D, sm)
        PROVE  DescsOK(D, t)
    <2>1. ASSUME NEW d \in D
          PROVE  DescOK(d, t)
      <3>1. DescOK(d, sm)
        BY <1>1 DEF DescsOK
      <3>2. \A i \in DOMAIN d : d[i].slab \in InUse(t)
        BY <1>1, Referred DEF Quiet
      <3>. QED BY <3>1, <3>2 DEF DescOK, Quiet
    <2>. QED BY <1>1, <2>1 DEF DescsOK, Quiet
  <1>2. ASSUME NEW h, HandedOK(h, sm)
        PROVE  HandedOK(h, t)
    BY <1>2 DEF HandedOK, Quiet
  <1>. QED BY <1>1, <1>2

\* Filing slabs anew is such a step.
LEMMA FilesQuietly ==
  ASSUME NEW sm, NEW t, Files(sm, t)
  PROVE  Quiet(sm, t)
  BY DEF Files, Quiet

\* Squeeze gives up working slabs
LEMMA SqueezeFiles ==
  ASSUME NEW sm, MgrOK(sm), NEW t, t = Squeeze(sm)
  PROVE  /\ Files(sm, t)
         /\ t.retiredSlabs = {} =>
              /\ sm.retiredSlabs = {}
              /\ \A s \in Range(sm.workingSlabs) : sm.refcount[s] > 0
  <1>1. CASE sm.retiredSlabs # {}
    <2>1. t = sm
      BY <1>1 DEF Squeeze
    <2>. QED BY <1>1, <2>1 DEF Files
  <1>2. CASE sm.retiredSlabs = {}
    <2> DEFINE u == MaxWorkingSlabs(sm, 0)
    <2>1. t = MaxWorkingSlabs(u, MaxWorking)
      BY <1>2 DEF Squeeze, FlushWorkingSlabs
    <2> HIDE DEF u
    <2>2. /\ Files(sm, u) /\ u.workingSlabs = <<>>
          /\ \A s \in Range(sm.workingSlabs) :
               s \in Range(u.workingSlabs) \/ sm.refcount[s] > 0 \/ s \in u.retiredSlabs
      BY MaxWorkingFiles DEF u
    <2>3. Files(u, t) /\ u.retiredSlabs \subseteq t.retiredSlabs
      <3>1. MgrOK(u) /\ MaxWorking \in Nat
        BY <2>2, Constants DEF Files
      <3>. QED BY <2>1, <3>1, MaxWorkingFiles
    <2>4. Files(sm, t)
      BY <2>2, <2>3 DEF Files
    <2>5. Range(u.workingSlabs) = {}
      BY <2>2 DEF Range
    <2>. QED BY <1>2, <2>2, <2>3, <2>4, <2>5
  <1>. QED BY <1>1, <1>2

\* A message is appended
Longer(q, m, p) == p = Append(q, m) \/ p = q \o <<m>>

Appended(q, m, p, n) ==
  /\ IsSeq(p)
  /\ Len(q) \in Nat /\ n = Len(q) + 1 /\ DOMAIN q = 1..Len(q) /\ DOMAIN p = 1..n
  /\ \A i \in 1..Len(q) : p[i] = q[i]
  /\ p[n] = m /\ Back(p) = Back(q) \cup IdsOf(m)

\* What Append and concatenation do to the socket.
LEMMA AppendMsg ==
  ASSUME NEW q, IsSeq(q), NEW m, NEW p, Longer(q, m, p)
  PROVE  Appended(q, m, p, Len(q) + 1)
  <1>1. PICK T : q \in Seq(T)
    BY DEF IsSeq
  <1> DEFINE U == T \cup {m}
  <1>2. q \in Seq(U) /\ m \in U
    BY <1>1
  <1> HIDE DEF U
  <1>3. /\ p \in Seq(U) /\ Len(q) \in Nat /\ DOMAIN q = 1..Len(q) /\ DOMAIN p = 1..(Len(q) + 1)
        /\ \A i \in 1..Len(q) : p[i] = q[i]
        /\ p[Len(q) + 1] = m
    BY <1>2 DEF Longer
  <1>4. Back(p) = Back(q) \cup IdsOf(m)
    <2>1. \A i \in 1..(Len(q) + 1) : i \in 1..Len(q) \/ i = Len(q) + 1
      BY <1>3
    <2>2. Len(q) + 1 \in 1..(Len(q) + 1) /\ \A i \in 1..Len(q) : i \in 1..(Len(q) + 1)
      BY <1>3
    <2>3. ASSUME NEW x \in Back(p)
          PROVE  x \in Back(q) \cup IdsOf(m)
      BY <1>3, <2>1, <2>3 DEF Back
    <2>4. ASSUME NEW x \in Back(q)
          PROVE  x \in Back(p)
      BY <1>3, <2>2, <2>4 DEF Back
    <2>5. ASSUME NEW x \in IdsOf(m)
          PROVE  x \in Back(p)
      BY <1>3, <2>2, <2>5 DEF Back
    <2>. QED BY <2>3, <2>4, <2>5
  <1>. QED BY <1>3, <1>4 DEF IsSeq, Appended

\* SendMessage: the blocks join the socket while their slabs are still here.
LEMMA SendsBlocks ==
  ASSUME NEW q, NEW from, NEW all, NEW sm, NetOK(q, from, all, sm), Published(q, all),
         NEW segs \in Seq(Segment), \A g \in Range(segs) : g.slab \in Mine(sm),
         NEW p, p = Append(q, BlocksMsg(segs))
  PROVE  NetOK(p, from, all, sm) /\ Published(p, all)
  <1> DEFINE m == BlocksMsg(segs)
             n == Len(q) + 1
  <1>1. m.type = "blocks" /\ m.segs = segs /\ IdsOf(m) = {} /\ MsgOK(m)
    BY DEF BlocksMsg, IdsOf, MsgOK
  <1> HIDE DEF m
  <1>2. /\ IsSeq(p)
        /\ Len(q) \in Nat /\ DOMAIN q = 1..Len(q) /\ DOMAIN p = 1..n
        /\ \A i \in 1..Len(q) : p[i] = q[i]
        /\ p[n] = m /\ Back(p) = Back(q) \cup IdsOf(m)
    <2>1. IsSeq(q)
      BY DEF NetOK
    <2>2. Longer(q, m, p)
      BY DEF m, Longer
    <2>3. Appended(q, m, p, n)
      BY <2>1, <2>2, AppendMsg
    <2>. QED BY <2>3 DEF Appended
  <1>3. \A i \in 1..n : i \in 1..Len(q) \/ i = n
    BY <1>2
  <1>4. NetOK(p, from, all, sm)
    <2>1. \A i \in DOMAIN p : MsgOK(p[i])
      BY <1>1, <1>2, <1>3 DEF NetOK
    <2>2. \A i, j \in DOMAIN p : i # j => IdsOf(p[i]) \cap IdsOf(p[j]) = {}
      <3> HIDE DEF n
      <3>. QED BY <1>1, <1>2, <1>3 DEF NetOK
    <2>3. Back(p) = Back(q)
      BY <1>1, <1>2
    <2>. QED BY <1>2, <2>1, <2>2, <2>3 DEF NetOK
  <1>5. Published(p, all)
    <2> SUFFICES ASSUME NEW i \in DOMAIN p, p[i].type = "blocks", NEW g \in Range(p[i].segs)
                 PROVE  g.slab \in all /\ \A j \in 1 .. i - 1 : g.slab \notin IdsOf(p[j])
      BY DEF Published
    <2>1. CASE i \in 1..Len(q)
      <3>1. p[i] = q[i] /\ i \in DOMAIN q
        BY <1>2, <2>1
      <3>2. g.slab \in all /\ \A j \in 1 .. i - 1 : g.slab \notin IdsOf(q[j])
        BY <3>1 DEF Published
      <3>3. \A j \in 1 .. i - 1 : p[j] = q[j]
        BY <1>2, <2>1
      <3>. QED BY <3>2, <3>3
    <2>2. CASE i = n
      <3>1. g \in Range(segs)
        BY <1>1, <1>2, <2>2
      <3>2. g.slab \in Mine(sm) /\ g.slab \in all /\ g.slab \notin Back(q)
        BY <3>1 DEF NetOK
      <3>3. \A j \in 1 .. i - 1 : p[j] = q[j] /\ j \in DOMAIN q
        BY <1>2, <2>2
      <3>4. \A j \in DOMAIN q : g.slab \notin IdsOf(q[j])
        BY <3>2 DEF Back
      <3>. QED BY <3>2, <3>3, <3>4
    <2>. QED BY <1>2, <1>3, <2>1, <2>2
  <1>. QED BY <1>4, <1>5

\* A set is as large as two parts of it that share nothing.
LEMMA SplitCount ==
  ASSUME NEW A, NEW B, NEW C, IsFiniteSet(A), IsFiniteSet(B), A \cup B = C, A \cap B = {}
  PROVE  /\ IsFiniteSet(C) /\ Cardinality(C) = Cardinality(A) + Cardinality(B)
         /\ Cardinality(A) \in Nat /\ Cardinality(B) \in Nat
  <1> DEFINE a == Cardinality(A)
             b == Cardinality(B)
  <1>1. Cardinality({}) = 0
    BY FS_EmptySet
  <1>2. IsFiniteSet(C) /\ Cardinality(C) = a + b - Cardinality(A \cap B)
    BY FS_Union
  <1>3. a \in Nat /\ b \in Nat
    BY FS_CardinalityType
  <1>4. Cardinality(C) = a + b - 0
    BY <1>1, <1>2
  <1> HIDE DEF a, b
  <1>5. a + b - 0 = a + b
    BY <1>3
  <1>. QED BY <1>2, <1>3, <1>4, <1>5 DEF a, b

\* GetRetiredSlabs takes the retired slabs out and counts them off.
LEMMA TakeRetiredQuietly ==
  ASSUME NEW sm, MgrOK(sm), NEW t, t = TakeRetired(sm)
  PROVE  /\ Quiet(sm, t) /\ InUse(t) = InUse(sm) /\ Mine(t) = Mine(sm) \ sm.retiredSlabs
         /\ t.workingSlabs = sm.workingSlabs /\ t.fullSlabs = sm.fullSlabs
  <1>0. sm \in SendState /\ FilesOK(sm) /\ CountsOK(sm)
    BY DEF MgrOK, FilesOK
  <1> DEFINE R == sm.retiredSlabs
             n == sm.slabsHeld - Cardinality(R)
  <1>1. t = [sm EXCEPT !.retiredSlabs = {}, !.slabsHeld = n]
    BY DEF TakeRetired
  <1> HIDE DEF n
  <1>2. /\ t.freeSlabs = sm.freeSlabs /\ t.workingSlabs = sm.workingSlabs
        /\ t.fullSlabs = sm.fullSlabs /\ t.retiredSlabs = {}
        /\ t.blocksUsed = sm.blocksUsed /\ t.refcount = sm.refcount
        /\ t.working = sm.working /\ t.slabsHeld = n
    BY <1>0, <1>1 DEF SendState
  <1>3. IsRec(t)
    BY <1>0, <1>1, StateIsRec DEF IsRec, SendFields
  <1>4. InUse(t) = InUse(sm)
    BY <1>2 DEF InUse
  <1>5. Mine(t) = Mine(sm) \ R
    BY <1>0, <1>2, <1>4 DEF Mine, FilesOK, ListsApart
  <1>6. n = Cardinality(Mine(t)) /\ n \in Nat
    <2>1. R \subseteq Mine(sm) /\ IsFiniteSet(Mine(sm))
      BY <1>0, StateFields DEF Mine
    <2>2. IsFiniteSet(R) /\ IsFiniteSet(Mine(t)) /\ Mine(t) \cup R = Mine(sm) /\ Mine(t) \cap R = {}
      BY <1>5, <2>1, FS_Subset
    <2>3. Cardinality(Mine(t)) \in Nat /\ Cardinality(R) \in Nat
      BY <2>2, FS_CardinalityType
    <2>4. Cardinality(Mine(sm)) = Cardinality(Mine(t)) + Cardinality(R)
      BY <2>2, SplitCount
    <2>5. sm.slabsHeld = Cardinality(Mine(sm))
      BY <1>0 DEF CountsOK
    <2>. QED BY <2>3, <2>4, <2>5 DEF n
  <1>7. t \in SendState
    BY <1>0, <1>2, <1>3, <1>6, StateFields, RecIsState
  <1>8. FilesOK(t)
    BY <1>0, <1>2, <1>4, <1>7 DEF FilesOK, ListsApart
  <1>9. CountsOK(t)
    BY <1>0, <1>2, <1>6 DEF CountsOK
  <1>. QED BY <1>2, <1>4, <1>5, <1>8, <1>9 DEF Quiet, MgrOK

\* SendRetiredSlabs: the retired slabs move to the socket, behind all blocks.
LEMMA SendsRetired ==
  ASSUME NEW sm, MgrOK(sm), NEW q, NEW from, NEW all, NetOK(q, from, all, sm), Published(q, all),
         NEW t, t = TakeRetired(sm), NEW p, p = q \o RetiredMsg(sm)
  PROVE  NetOK(p, from, all, t) /\ Published(p, all)
  <1> DEFINE R == sm.retiredSlabs
             m == SlabsMsg(R)
             n == Len(q) + 1
  <1>0. IsSeq(q)
    BY DEF NetOK
  <1>1. Mine(t) = Mine(sm) \ R /\ R \subseteq Mine(sm) /\ R \subseteq Slabs
    BY TakeRetiredQuietly, StateFields DEF MgrOK, FilesOK, Mine
  <1>2. CASE R = {}
    <2>1. p = q
      <3>1. PICK T : q \in Seq(T)
        BY <1>0 DEF IsSeq
      <3>. QED BY <1>2, <3>1 DEF RetiredMsg
    <2>2. Mine(t) = Mine(sm)
      BY <1>1, <1>2
    <2>. QED BY <2>1, <2>2 DEF NetOK
  <1>3. CASE R # {}
    <2>1. m.type = "slabs" /\ m.ids = R /\ IdsOf(m) = R /\ MsgOK(m)
      BY <1>1 DEF SlabsMsg, IdsOf, MsgOK
    <2> HIDE DEF m
    <2>2. Longer(q, m, p)
      BY <1>3 DEF RetiredMsg, m, Longer
    <2>3. /\ IsSeq(p)
          /\ Len(q) \in Nat /\ DOMAIN q = 1..Len(q) /\ DOMAIN p = 1..n
          /\ \A i \in 1..Len(q) : p[i] = q[i]
          /\ p[n] = m /\ Back(p) = Back(q) \cup R
      <3>1. Appended(q, m, p, n)
        BY <1>0, <2>2, AppendMsg
      <3>. QED BY <2>1, <3>1 DEF Appended
    <2>4. \A i \in 1..n : i \in 1..Len(q) \/ i = n
      BY <2>3
    <2> HIDE DEF n
    <2>5. \A i \in DOMAIN p : MsgOK(p[i])
      BY <2>1, <2>3, <2>4 DEF NetOK
    <2>6. \A i \in DOMAIN q : IdsOf(q[i]) \cap R = {}
      BY <1>1 DEF NetOK, Back
    <2>7. \A i, j \in DOMAIN p : i # j => IdsOf(p[i]) \cap IdsOf(p[j]) = {}
      BY <2>1, <2>3, <2>4, <2>6 DEF NetOK
    <2>8. NetOK(p, from, all, t)
      BY <1>1, <2>3, <2>5, <2>7 DEF NetOK
    <2>9. Published(p, all)
      <3> SUFFICES ASSUME NEW i \in DOMAIN p, p[i].type = "blocks", NEW g \in Range(p[i].segs)
                   PROVE  g.slab \in all /\ \A j \in 1 .. i - 1 : g.slab \notin IdsOf(p[j])
        BY DEF Published
      <3>1. i \in 1..Len(q)
        BY <2>1, <2>3, <2>4
      <3>2. p[i] = q[i] /\ i \in DOMAIN q
        BY <2>3, <3>1
      <3>3. g.slab \in all /\ \A j \in 1 .. i - 1 : g.slab \notin IdsOf(q[j])
        BY <3>2 DEF Published
      <3>4. \A j \in 1 .. i - 1 : p[j] = q[j]
        BY <2>3, <3>1
      <3>. QED BY <3>3, <3>4
    <2>. QED BY <2>8, <2>9
  <1>. QED BY <1>2, <1>3

-----------------------------------------------------------------------------
\* AddFreeSlabs: slabs arrive, unused.
Gains(sm, t, new) ==
  /\ MgrOK(t) /\ Mine(t) = Mine(sm) \cup new /\ InUse(t) = InUse(sm)
  /\ Range(t.freeSlabs) = Range(sm.freeSlabs) \cup new
  /\ \A s \in new : t.blocksUsed[s] = 0 /\ t.refcount[s] = 0
  /\ \A s \in Slabs \ new : /\ t.blocksUsed[s] = sm.blocksUsed[s]
                             /\ t.refcount[s] = sm.refcount[s]

\* AddFreeSlabs does that.
LEMMA AddFreeGains ==
  ASSUME NEW sm, MgrOK(sm), NEW ids \in Seq(Slabs), IsInjective(ids),
         Range(ids) \cap Mine(sm) = {}, NEW t, t = AddFreeSlabs(sm, ids)
  PROVE  Gains(sm, t, Range(ids))
  <1> DEFINE new == Range(ids)
             free == sm.freeSlabs \o ids
             used == [s \in Slabs |-> IF s \in new THEN 0 ELSE sm.blocksUsed[s]]
             refs == [s \in Slabs |-> IF s \in new THEN 0 ELSE sm.refcount[s]]
             n    == sm.slabsHeld + Len(ids)
  <1>0. sm \in SendState /\ FilesOK(sm) /\ CountsOK(sm)
    BY DEF MgrOK, FilesOK
  <1>1. t = [sm EXCEPT !.freeSlabs = free, !.blocksUsed = used, !.refcount = refs,
                       !.working = @ \ new, !.slabsHeld = n]
    BY DEF AddFreeSlabs
  <1>2. /\ free \in Seq(Slabs) /\ Range(free) = Range(sm.freeSlabs) \cup new
        /\ IsInjective(free)
    <2>1. sm.freeSlabs \in Seq(Slabs) /\ IsInjective(sm.freeSlabs)
      BY <1>0, StateFields DEF FilesOK
    <2>2. Range(sm.freeSlabs) \cap Range(ids) = {}
      BY DEF Mine
    <2>. QED BY <2>1, <2>2, JoinLists
  <1>3. /\ used \in [Slabs -> 0 .. BlocksPerSlab] /\ refs \in [Slabs -> Nat]
        /\ \A s \in new : s \in Slabs => used[s] = 0 /\ refs[s] = 0
        /\ \A s \in Slabs \ new : used[s] = sm.blocksUsed[s] /\ refs[s] = sm.refcount[s]
    <2>1. sm.blocksUsed \in [Slabs -> 0 .. BlocksPerSlab] /\ sm.refcount \in [Slabs -> Nat]
      BY <1>0, StateFields
    <2> HIDE DEF new
    <2>. QED BY <2>1, Constants
  <1>4. new \subseteq Slabs
    BY RangeIs
  <1>5. n \in Nat /\ n = Cardinality(Mine(sm) \cup new)
    <2>1. IsFiniteSet(Mine(sm)) /\ sm.slabsHeld = Cardinality(Mine(sm))
      BY <1>0, StateFields DEF CountsOK
    <2>2. IsFiniteSet(new) /\ Cardinality(new) = Len(ids)
      BY ListCount
    <2> HIDE DEF new
    <2>3. Mine(sm) \cap new = {}
      BY DEF new
    <2> DEFINE C == Mine(sm) \cup new
    <2>4. /\ Cardinality(C) = Cardinality(Mine(sm)) + Cardinality(new)
          /\ Cardinality(Mine(sm)) \in Nat /\ Cardinality(new) \in Nat
      BY <2>1, <2>2, <2>3, SplitCount
    <2> HIDE DEF C
    <2>. QED BY <2>1, <2>2, <2>4 DEF C
  <1> HIDE DEF new, free, used, refs, n
  <1>6. /\ t.freeSlabs = free /\ t.workingSlabs = sm.workingSlabs
        /\ t.fullSlabs = sm.fullSlabs /\ t.retiredSlabs = sm.retiredSlabs
        /\ t.blocksUsed = used /\ t.refcount = refs
        /\ t.working = sm.working \ new /\ t.slabsHeld = n
    BY <1>0, <1>1 DEF SendState
  <1>7. t \in SendState
    <2>1. IsRec(t)
      BY <1>0, <1>1, StateIsRec DEF IsRec, SendFields
    <2>2. sm.working \ new \subseteq Slabs
      BY <1>0, StateFields
    <2>. QED BY <1>0, <1>2, <1>3, <1>5, <1>6, <2>1, <2>2, StateFields, RecIsState
  <1>8. InUse(t) = InUse(sm) /\ Mine(t) = Mine(sm) \cup new
    BY <1>2, <1>6 DEF InUse, Mine
  <1>9. new \cap Mine(sm) = {}
    BY DEF new
  <1>10. FilesOK(t)
    <2>1. ListsApart(t)
      BY <1>0, <1>2, <1>6, <1>8, <1>9 DEF FilesOK, ListsApart, Mine, InUse
    <2>2. t.working = Range(t.workingSlabs)
      BY <1>0, <1>6, <1>9 DEF FilesOK, Mine, InUse
    <2>. QED BY <1>0, <1>2, <1>6, <1>7, <2>1, <2>2 DEF FilesOK
  <1>11. CountsOK(t)
    <2>1. \A s \in Range(t.freeSlabs) : t.blocksUsed[s] = 0 /\ t.refcount[s] = 0
      <3>1. Range(sm.freeSlabs) \subseteq Slabs \ new
        BY <1>0, <1>9, StateFields DEF Mine
      <3>. QED BY <1>0, <1>2, <1>3, <1>4, <1>6, <3>1 DEF CountsOK
    <2>2. \A s \in t.fullSlabs : t.refcount[s] > 0
      <3>1. sm.fullSlabs \subseteq Slabs \ new
        BY <1>0, <1>9, StateFields DEF Mine, InUse
      <3>. QED BY <1>0, <1>3, <1>6, <3>1 DEF CountsOK
    <2>. QED BY <1>5, <1>6, <1>8, <2>1, <2>2 DEF CountsOK
  <1>. QED BY <1>2, <1>3, <1>4, <1>6, <1>8, <1>10, <1>11 DEF Gains, MgrOK, new

\* No descriptor points into a slab that arrives.
LEMMA GainsDescs ==
  ASSUME NEW sm, MgrOK(sm), NEW t, NEW new, Gains(sm, t, new), new \cap Mine(sm) = {},
         NEW D, DescsOK(D, sm)
  PROVE  DescsOK(D, t)
  <1>0. InUse(sm) \subseteq Slabs \ new /\ Range(sm.freeSlabs) \subseteq Slabs \ new
    BY StateFields DEF MgrOK, FilesOK, Mine
  <1>1. ASSUME NEW d \in D
        PROVE  DescOK(d, t)
    <2>1. DescOK(d, sm)
      BY DEF DescsOK
    <2>2. \A i \in DOMAIN d : d[i].slab \in InUse(sm) /\ t.blocksUsed[d[i].slab] = sm.blocksUsed[d[i].slab]
      BY <1>0, <2>1 DEF DescOK, Gains
    <2>. QED BY <2>1, <2>2 DEF DescOK, Gains
  <1>2. ASSUME NEW s \in new
        PROVE  t.refcount[s] = Cardinality(Users(D, s))
    <2>1. \A d \in D : s \notin SlabsOf(d)
      BY <1>0 DEF DescsOK, DescOK, SlabsOf
    <2>2. Users(D, s) = {}
      BY <2>1 DEF Users
    <2>. QED BY <2>2, FS_EmptySet DEF Gains
  <1>3. ASSUME NEW s \in Range(sm.freeSlabs) \cup InUse(sm)
        PROVE  t.refcount[s] = Cardinality(Users(D, s))
    BY <1>0 DEF DescsOK, Gains
  <1>. QED BY <1>1, <1>2, <1>3 DEF DescsOK, Gains

\* Nothing was cut from a slab that arrives, since it arrived.
LEMMA GainsHanded ==
  ASSUME NEW sm, MgrOK(sm), NEW t, NEW new, Gains(sm, t, new), new \cap Mine(sm) = {},
         NEW h, HandedOK(h, sm),
         NEW k, k = [s \in Slabs |-> IF s \in new THEN <<>> ELSE h[s]]
  PROVE  HandedOK(k, t)
  <1>0. InUse(sm) \subseteq Slabs \ new /\ Range(sm.freeSlabs) \subseteq Slabs \ new
        /\ Range(t.freeSlabs) \subseteq Slabs
    BY StateFields DEF MgrOK, FilesOK, Mine, Gains
  <1>1. /\ \A s \in Slabs : s \in new => k[s] = <<>>
        /\ \A s \in Slabs \ new : k[s] = h[s]
    OBVIOUS
  <1>2. k \in [Slabs -> Seq(Segment)]
    <2>1. h \in [Slabs -> Seq(Segment)] /\ <<>> \in Seq(Segment)
      BY DEF HandedOK
    <2>. QED BY <2>1
  <1>3. \A s \in Slabs : Apart(k[s])
    <2>1. Apart(<<>>)
      BY DEF Apart
    <2>. QED BY <1>1, <2>1 DEF HandedOK
  <1>4. \A s \in Range(t.freeSlabs) : k[s] = <<>>
    BY <1>0, <1>1 DEF HandedOK, Gains
  <1>5. \A s \in InUse(t) : \A i \in DOMAIN k[s] : k[s][i].first + k[s][i].n <= t.blocksUsed[s]
    BY <1>0, <1>1 DEF HandedOK, Gains
  <1>. QED BY <1>2, <1>3, <1>4, <1>5 DEF HandedOK

\* The slabs that arrive leave the socket.
LEMMA GainsNet ==
  ASSUME NEW sm, NEW t, NEW q, NEW from, NEW all, NetOK(q, from, all, sm),
         NEW k \in 0 .. Len(from), NEW ids, ids = SubSeq(from, 1, k),
         NEW rest, rest = SubSeq(from, k + 1, Len(from)), Gains(sm, t, Range(ids))
  PROVE  NetOK(q, rest, all, t)
  <1>1. from \in Seq(Slabs) /\ IsInjective(from)
    BY DEF NetOK
  <1>2. /\ rest \in Seq(Slabs) /\ IsInjective(rest)
        /\ Range(ids) \cup Range(rest) = Range(from) /\ Range(ids) \cap Range(rest) = {}
    BY <1>1, PartOfList
  <1>3. Mine(t) = Mine(sm) \cup Range(ids)
    BY DEF Gains
  <1>4. Range(rest) \cap Mine(t) = {} /\ Back(q) \cap (Range(rest) \cup Mine(t)) = {}
        /\ all = Range(rest) \cup Mine(t) \cup Back(q)
    BY <1>2, <1>3 DEF NetOK
  <1>. QED BY <1>2, <1>4 DEF NetOK

-----------------------------------------------------------------------------
\* ReleaseMessageDescriptor takes one reference off each of the descriptor's slabs.
Releases(sm, t, desc) ==
  /\ MgrOK(t) /\ Mine(t) = Mine(sm) /\ t.freeSlabs = sm.freeSlabs
  /\ t.blocksUsed = sm.blocksUsed
  /\ InUse(t) \subseteq InUse(sm)
  /\ \A s \in SlabsOf(desc) : t.refcount[s] = sm.refcount[s] - 1
  /\ \A s \in Slabs \ SlabsOf(desc) : t.refcount[s] = sm.refcount[s]
  /\ \A s \in InUse(sm) : t.refcount[s] > 0 => s \in InUse(t)

\* ReleaseMessageDescriptor does that.
LEMMA ReleaseReleases ==
  ASSUME NEW sm, MgrOK(sm), NEW D, DescsOK(D, sm), NEW desc \in D,
         NEW t, t = ReleaseMessageDescriptor(sm, desc)
  PROVE  Releases(sm, t, desc)
  <1> DEFINE mine == SlabsOf(desc)
             refs == [s \in Slabs |-> IF s \in mine THEN sm.refcount[s] - 1 ELSE sm.refcount[s]]
             gone == {s \in mine : s \notin sm.working /\ refs[s] = 0}
  <1>0. sm \in SendState /\ FilesOK(sm) /\ CountsOK(sm)
    BY DEF MgrOK, FilesOK
  <1>1. t = [sm EXCEPT !.refcount = refs, !.fullSlabs = @ \ gone, !.retiredSlabs = @ \cup gone]
    BY DEF ReleaseMessageDescriptor
  <1>2. mine \subseteq InUse(sm) /\ \A s \in mine : sm.refcount[s] > 0
    BY Referred DEF SlabsOf
  <1>3. InUse(sm) \subseteq Slabs /\ sm.refcount \in [Slabs -> Nat]
    BY <1>0, StateFields
  <1> HIDE DEF mine
  <1>4. /\ refs \in [Slabs -> Nat]
        /\ \A s \in mine : refs[s] = sm.refcount[s] - 1
        /\ \A s \in Slabs \ mine : refs[s] = sm.refcount[s]
    <2>1. \A s \in mine : s \in Slabs /\ sm.refcount[s] - 1 \in Nat
      BY <1>2, <1>3
    <2>. QED BY <1>3, <2>1
  <1> HIDE DEF refs
  <1>5. gone \subseteq sm.fullSlabs /\ \A s \in gone : refs[s] = 0
    BY <1>0, <1>2 DEF InUse, FilesOK
  <1>6. \A s \in sm.fullSlabs \ gone : refs[s] > 0
    <2>1. sm.fullSlabs \subseteq Slabs /\ \A s \in sm.fullSlabs : s \notin sm.working /\ sm.refcount[s] > 0
      BY <1>0, StateFields DEF FilesOK, CountsOK, ListsApart
    <2>2. ASSUME NEW s \in sm.fullSlabs \ gone
          PROVE  refs[s] > 0
      <3>1. CASE s \in mine
        <4>1. refs[s] # 0 /\ refs[s] \in Nat
          BY <1>4, <2>1, <3>1
        <4>. QED BY <4>1
      <3>2. CASE s \notin mine
        BY <1>4, <2>1, <3>2
      <3>. QED BY <3>1, <3>2
    <2>. QED BY <2>2
  <1> HIDE DEF gone
  <1>7. /\ t.freeSlabs = sm.freeSlabs /\ t.workingSlabs = sm.workingSlabs
        /\ t.fullSlabs = sm.fullSlabs \ gone /\ t.retiredSlabs = sm.retiredSlabs \cup gone
        /\ t.blocksUsed = sm.blocksUsed /\ t.refcount = refs
        /\ t.working = sm.working /\ t.slabsHeld = sm.slabsHeld
    BY <1>0, <1>1 DEF SendState
  <1>8. t \in SendState
    <2>1. IsRec(t)
      BY <1>0, <1>1, StateIsRec DEF IsRec, SendFields
    <2>2. sm.fullSlabs \ gone \subseteq Slabs /\ sm.retiredSlabs \cup gone \subseteq Slabs
      BY <1>0, <1>5, StateFields
    <2>. QED BY <1>0, <1>4, <1>7, <2>1, <2>2, StateFields, RecIsState
  <1>9. InUse(t) \cup gone = InUse(sm) /\ InUse(t) \cap gone = {}
    BY <1>0, <1>5, <1>7 DEF InUse, FilesOK, ListsApart
  <1>10. Mine(t) = Mine(sm)
    BY <1>7, <1>9 DEF Mine
  <1>11. FilesOK(t)
    <2>1. ListsApart(t)
      BY <1>0, <1>5, <1>7, <1>9 DEF FilesOK, ListsApart, InUse
    <2>. QED BY <1>0, <1>7, <1>8, <2>1 DEF FilesOK
  <1>12. CountsOK(t)
    <2>1. \A s \in Range(sm.freeSlabs) : refs[s] = 0
      <3>1. Range(sm.freeSlabs) \subseteq Slabs \ mine
        BY <1>0, <1>2, StateFields DEF FilesOK, ListsApart
      <3>. QED BY <1>0, <1>4, <3>1 DEF CountsOK
    <2>. QED BY <1>0, <1>6, <1>7, <1>10, <2>1 DEF CountsOK
  <1>13. \A s \in InUse(sm) : refs[s] > 0 => s \in InUse(t)
    BY <1>5, <1>9
  <1>. QED BY <1>4, <1>7, <1>9, <1>10, <1>11, <1>12, <1>13 DEF Releases, MgrOK, mine

\* The other descriptors keep their slabs, and the counts are right without this one.
LEMMA ReleasesDescs ==
  ASSUME NEW sm, MgrOK(sm), NEW D, DescsOK(D, sm), NEW desc \in D,
         NEW t, Releases(sm, t, desc)
  PROVE  DescsOK(D \ {desc}, t)
  <1> DEFINE E == D \ {desc}
  <1>0. /\ InUse(sm) \subseteq Slabs /\ Range(sm.freeSlabs) \subseteq Slabs
        /\ IsFiniteSet(D) /\ IsFiniteSet(E) /\ t.freeSlabs = sm.freeSlabs
        /\ InUse(t) \subseteq InUse(sm)
    BY StateFields, FS_RemoveElement DEF MgrOK, FilesOK, DescsOK, Releases
  <1>1. ASSUME NEW s \in Range(sm.freeSlabs) \cup InUse(sm)
        PROVE  t.refcount[s] = Cardinality(Users(E, s))
    <2>0. sm.refcount[s] = Cardinality(Users(D, s))
      BY DEF DescsOK
    <2>1. CASE s \in SlabsOf(desc)
      <3>1. Users(E, s) = Users(D, s) \ {desc} /\ desc \in Users(D, s)
        BY <2>1 DEF Users
      <3>2. IsFiniteSet(Users(D, s))
        BY <1>0, UsersFinite
      <3> DEFINE U == Users(D, s)
      <3> HIDE DEF U, E
      <3>3. Cardinality(U \ {desc}) = Cardinality(U) - 1
        BY <3>1, <3>2, FS_RemoveElement DEF U
      <3>4. t.refcount[s] = sm.refcount[s] - 1
        BY <2>1 DEF Releases
      <3>. QED BY <2>0, <3>1, <3>3, <3>4 DEF U
    <2>2. CASE s \notin SlabsOf(desc)
      <3>1. Users(E, s) = Users(D, s)
        BY <2>2 DEF Users
      <3>2. t.refcount[s] = sm.refcount[s]
        BY <1>0, <2>2 DEF Releases
      <3> HIDE DEF E
      <3>. QED BY <2>0, <3>1, <3>2
    <2>. QED BY <2>1, <2>2
  <1>2. ASSUME NEW d \in E
        PROVE  DescOK(d, t)
    <2>1. DescOK(d, sm)
      BY DEF DescsOK
    <2>2. ASSUME NEW i \in DOMAIN d
          PROVE  d[i].slab \in InUse(t)
      <3>1. d[i].slab \in InUse(sm) /\ d \in Users(E, d[i].slab)
        BY <2>1 DEF DescOK, Users, SlabsOf
      <3> HIDE DEF E
      <3>2. t.refcount[d[i].slab] > 0
        BY <1>0, <1>1, <3>1, UsersFinite
      <3>. QED BY <3>1, <3>2 DEF Releases
    <2>. QED BY <2>1, <2>2 DEF DescOK, Releases
  <1> HIDE DEF E
  <1>3. DescsOK(E, t)
    BY <1>0, <1>1, <1>2 DEF DescsOK
  <1>. QED BY <1>3 DEF E

\* What was handed out stays below the end of the used blocks.
LEMMA ReleasesHanded ==
  ASSUME NEW sm, NEW t, NEW desc, Releases(sm, t, desc), NEW h, HandedOK(h, sm)
  PROVE  HandedOK(h, t)
  BY DEF Releases, HandedOK

-----------------------------------------------------------------------------
\* The segments that were cut are nobody else's.
LEMMA CutsDescs ==
  ASSUME NEW sm, MgrOK(sm), NEW D, DescsOK(D, sm), NEW t, NEW desc, Cuts(sm, t, desc), desc # <<>>
  PROVE  DescsOK(D \cup {desc}, t)
  <1> DEFINE E == D \cup {desc}
  <1>0. /\ sm \in SendState /\ t \in SendState /\ desc \in Seq(Segment) /\ IsFiniteSet(D)
        /\ InUse(sm) \subseteq Slabs /\ InUse(t) \subseteq Slabs
        /\ Range(sm.freeSlabs) \subseteq Slabs /\ Range(t.freeSlabs) \subseteq Slabs
        /\ sm.blocksUsed \in [Slabs -> 0 .. BlocksPerSlab] /\ sm.refcount \in [Slabs -> Nat]
        /\ BlocksPerSlab \in Nat
    <2>1. sm \in SendState /\ t \in SendState /\ desc \in Seq(Segment) /\ IsFiniteSet(D)
      BY DEF MgrOK, FilesOK, Cuts, DescsOK
    <2>. QED BY <2>1, StateFields, Constants
  <1>1. \A i \in DOMAIN desc : SegCut(sm, t, desc[i])
    BY DEF Cuts
  <1>2. \A g \in Segment : g.first \in Nat /\ g.n \in Nat /\ g.n > 0 /\ g.slab \in Slabs
    BY Constants DEF Segment
  <1>3. desc \notin D
    <2> SUFFICES ASSUME desc \in D
                 PROVE  FALSE
      OBVIOUS
    <2>1. 1 \in DOMAIN desc /\ desc[1] \in Segment
      BY <1>0
    <2>2. desc[1].first + desc[1].n <= sm.blocksUsed[desc[1].slab]
      BY <2>1 DEF DescsOK, DescOK
    <2>3. desc[1].first = sm.blocksUsed[desc[1].slab]
      BY <1>1, <2>1 DEF SegCut
    <2>4. desc[1].first \in Nat /\ desc[1].n \in Nat /\ desc[1].n > 0
      BY <1>2, <2>1
    <2>. QED BY <2>2, <2>3, <2>4
  <1>4. ASSUME NEW s \in Slabs
        PROVE  t.blocksUsed[s] \in Nat /\ sm.blocksUsed[s] \in Nat /\ sm.blocksUsed[s] <= t.blocksUsed[s]
    <2>0. sm.blocksUsed[s] \in Nat
      BY <1>0
    <2>1. CASE s \notin SlabsOf(desc)
      BY <2>0, <2>1 DEF Cuts
    <2>2. CASE s \in SlabsOf(desc)
      <3>1. PICK i \in DOMAIN desc : desc[i].slab = s
        BY <2>2 DEF SlabsOf
      <3> DEFINE g == desc[i]
      <3>2. g.first = sm.blocksUsed[s] /\ t.blocksUsed[s] = g.first + g.n /\ g \in Segment
        BY <1>1, <3>1 DEF SegCut
      <3> HIDE DEF g
      <3>3. g.n \in Nat
        BY <1>2, <3>2
      <3>. QED BY <2>0, <3>2, <3>3
    <2>. QED BY <2>1, <2>2
  <1>5. ASSUME NEW d \in D
        PROVE  DescOK(d, t)
    <2>1. DescOK(d, sm)
      BY DEF DescsOK
    <2>2. ASSUME NEW i \in DOMAIN d
          PROVE  d[i].slab \in InUse(t) /\ d[i].first + d[i].n <= t.blocksUsed[d[i].slab]
      <3> DEFINE g == d[i]
      <3>1. g.slab \in InUse(sm) /\ sm.refcount[g.slab] > 0
        BY Referred
      <3>2. g.slab \in InUse(t)
        BY <3>1 DEF Cuts
      <3>3. g.first + g.n <= sm.blocksUsed[g.slab] /\ g \in Segment
        BY <2>1 DEF DescOK
      <3> HIDE DEF g
      <3>4. g.first + g.n \in Nat /\ g.slab \in Slabs
        BY <1>2, <3>3
      <3>5. g.first + g.n <= t.blocksUsed[g.slab]
        BY <1>4, <3>3, <3>4
      <3>. QED BY <3>2, <3>5 DEF g
    <2>. QED BY <2>1, <2>2 DEF DescOK
  <1>6. DescOK(desc, t)
    <2>1. \A i \in DOMAIN desc : /\ desc[i].slab \in InUse(t)
                                 /\ desc[i].first + desc[i].n <= t.blocksUsed[desc[i].slab]
      <3>1. ASSUME NEW i \in DOMAIN desc
            PROVE  /\ desc[i].slab \in InUse(t)
                   /\ desc[i].first + desc[i].n <= t.blocksUsed[desc[i].slab]
        <4>1. /\ desc[i].slab \in InUse(t) /\ desc[i] \in Segment
              /\ t.blocksUsed[desc[i].slab] = desc[i].first + desc[i].n
          BY <1>1 DEF SegCut
        <4>2. desc[i].first + desc[i].n \in Nat
          BY <1>2, <4>1
        <4>. QED BY <4>1, <4>2
      <3>. QED BY <3>1
    <2>. QED BY <1>0, <2>1 DEF DescOK, Cuts
  <1>7. ASSUME NEW s \in Range(t.freeSlabs) \cup InUse(t)
        PROVE  t.refcount[s] = Cardinality(Users(E, s))
    <2>1. CASE s \in SlabsOf(desc)
      <3>1. PICK i \in DOMAIN desc : desc[i].slab = s
        BY <2>1 DEF SlabsOf
      <3>2. /\ t.refcount[s] = sm.refcount[s] + 1
            /\ s \in Range(sm.freeSlabs) \cup InUse(sm)
        BY <1>1, <3>1 DEF SegCut, InUse
      <3>3. sm.refcount[s] = Cardinality(Users(D, s))
        BY <3>2 DEF DescsOK
      <3>4. Users(E, s) = Users(D, s) \cup {desc} /\ desc \notin Users(D, s)
        BY <1>3, <2>1 DEF Users
      <3>5. IsFiniteSet(Users(D, s))
        BY <1>0, UsersFinite
      <3> DEFINE U == Users(D, s)
      <3> HIDE DEF U, E
      <3>6. Cardinality(U \cup {desc}) = Cardinality(U) + 1
        BY <3>4, <3>5, FS_AddElement DEF U
      <3>. QED BY <3>2, <3>3, <3>4, <3>6 DEF U
    <2>2. CASE s \notin SlabsOf(desc)
      <3>1. s \in Slabs /\ s \in Range(sm.freeSlabs) \cup InUse(sm)
        BY <1>0, <2>2 DEF Cuts
      <3>2. t.refcount[s] = sm.refcount[s]
        BY <2>2, <3>1 DEF Cuts
      <3>3. Users(E, s) = Users(D, s)
        BY <2>2 DEF Users
      <3> HIDE DEF E
      <3>. QED BY <3>1, <3>2, <3>3 DEF DescsOK
    <2>. QED BY <2>1, <2>2
  <1>8. IsFiniteSet(E) /\ \A d \in E : DescOK(d, t)
    BY <1>0, <1>5, <1>6, FS_AddElement
  <1> HIDE DEF E
  <1>9. DescsOK(E, t)
    BY <1>7, <1>8 DEF DescsOK
  <1>. QED BY <1>9 DEF E

\* A new segment begins where all earlier ones of its slab have ended.
LEMMA CutsHanded ==
  ASSUME NEW sm, MgrOK(sm), NEW t, NEW desc, Cuts(sm, t, desc), NEW h, HandedOK(h, sm),
         NEW k, k = [s \in Slabs |-> IF s \in SlabsOf(desc) THEN Append(h[s], SegmentIn(desc, s))
                                     ELSE h[s]]
  PROVE  HandedOK(k, t)
  <1>0. /\ sm \in SendState /\ t \in SendState /\ h \in [Slabs -> Seq(Segment)]
        /\ InUse(sm) \subseteq Slabs /\ InUse(t) \subseteq Slabs
        /\ Range(t.freeSlabs) \subseteq Slabs /\ BlocksPerSlab \in Nat
        /\ t.blocksUsed \in [Slabs -> 0 .. BlocksPerSlab]
    <2>1. sm \in SendState /\ t \in SendState /\ h \in [Slabs -> Seq(Segment)]
      BY DEF MgrOK, FilesOK, Cuts, HandedOK
    <2>. QED BY <2>1, StateFields, Constants
  <1>1. \A g \in Segment : g.first \in Nat /\ g.n \in Nat /\ g.n > 0 /\ g.slab \in Slabs
    BY Constants DEF Segment
  <1>2. ASSUME NEW s \in SlabsOf(desc)
        PROVE  /\ s \in Slabs /\ k[s] \in Seq(Segment) /\ Apart(k[s])
               /\ \A i \in DOMAIN k[s] : k[s][i].first + k[s][i].n <= t.blocksUsed[s]
    <2> DEFINE g == SegmentIn(desc, s)
               q == h[s]
               p == k[s]
    <2>1. SegCut(sm, t, g) /\ g.slab = s
      <3>1. \E i \in DOMAIN desc : desc[i].slab = s
        BY DEF SlabsOf
      <3>2. PICK i \in DOMAIN desc : g = desc[i] /\ desc[i].slab = s
        BY <3>1 DEF SegmentIn
      <3>. QED BY <3>2 DEF Cuts
    <2>2. /\ s \in Slabs /\ g \in Segment /\ g.first \in Nat /\ g.n \in Nat
          /\ g.first = sm.blocksUsed[s] /\ t.blocksUsed[s] = g.first + g.n
          /\ g.first + g.n <= BlocksPerSlab
      <3>1. g \in Segment /\ g.first = sm.blocksUsed[s] /\ t.blocksUsed[s] = g.first + g.n
        BY <2>1 DEF SegCut
      <3> HIDE DEF g
      <3>2. s \in Slabs /\ g.first \in Nat /\ g.n \in Nat
        BY <1>1, <2>1, <3>1
      <3>3. t.blocksUsed[s] \in 0 .. BlocksPerSlab
        BY <1>0, <3>2
      <3>. QED BY <1>0, <3>1, <3>2, <3>3
    <2>3. p = Append(q, g) /\ q \in Seq(Segment)
      BY <1>0, <2>2
    <2>4. \A i \in DOMAIN q : q[i].first + q[i].n <= g.first
      <3>1. CASE s \in Range(sm.freeSlabs)
        BY <3>1 DEF HandedOK
      <3>2. CASE s \in InUse(sm)
        BY <2>2, <3>2 DEF HandedOK
      <3>3. s \in Range(sm.freeSlabs) \cup InUse(sm)
        BY <2>1 DEF SegCut, InUse
      <3>. QED BY <3>1, <3>2, <3>3
    <2>5. Apart(q)
      BY <2>2 DEF HandedOK
    <2> HIDE DEF g, q, p
    <2>6. /\ p \in Seq(Segment) /\ Len(q) \in Nat /\ DOMAIN q = 1 .. Len(q)
          /\ DOMAIN p = 1 .. (Len(q) + 1)
          /\ \A i \in 1 .. Len(q) : p[i] = q[i] /\ q[i] \in Segment
          /\ p[Len(q) + 1] = g
      BY <2>2, <2>3
    <2>7. \A i \in DOMAIN p : i \in 1 .. Len(q) \/ i = Len(q) + 1
      BY <2>6
    <2>8. \A i \in 1 .. Len(q) : q[i].first \in Nat /\ q[i].n \in Nat
      BY <1>1, <2>6
    <2>9. \A i \in DOMAIN p : p[i].first + p[i].n <= t.blocksUsed[s]
      BY <2>2, <2>4, <2>6, <2>7, <2>8
    <2>10. Apart(p)
      <3> SUFFICES ASSUME NEW i \in DOMAIN p, NEW j \in DOMAIN p
                   PROVE  /\ p[i].first + p[i].n <= BlocksPerSlab
                          /\ i < j => p[i].first + p[i].n <= p[j].first
        BY DEF Apart
      <3>1. p[i].first + p[i].n <= BlocksPerSlab
        BY <2>2, <2>5, <2>6, <2>7 DEF Apart
      <3>2. ASSUME i < j
            PROVE  p[i].first + p[i].n <= p[j].first
        <4>1. i \in 1 .. Len(q)
          BY <2>6, <3>2
        <4>2. CASE j = Len(q) + 1
          BY <2>4, <2>6, <4>1, <4>2
        <4>3. CASE j \in 1 .. Len(q)
          BY <2>5, <2>6, <3>2, <4>1, <4>3 DEF Apart
        <4>. QED BY <2>7, <4>2, <4>3
      <3>. QED BY <3>1, <3>2
    <2>. QED BY <2>2, <2>6, <2>9, <2>10 DEF p
  <1>3. \A s \in Slabs \ SlabsOf(desc) : k[s] = h[s] /\ t.blocksUsed[s] = sm.blocksUsed[s]
    BY DEF Cuts
  <1>4. k \in [Slabs -> Seq(Segment)]
    <2>1. \A s \in Slabs : k[s] \in Seq(Segment)
      BY <1>0, <1>2, <1>3
    <2>. QED BY <2>1
  <1>5. \A s \in Slabs : Apart(k[s])
    BY <1>2, <1>3 DEF HandedOK
  <1>6. \A s \in Range(t.freeSlabs) : k[s] = <<>>
    BY <1>0, <1>3 DEF HandedOK, Cuts
  <1>7. ASSUME NEW s \in InUse(t)
        PROVE  \A i \in DOMAIN k[s] : k[s][i].first + k[s][i].n <= t.blocksUsed[s]
    <2>1. CASE s \in SlabsOf(desc)
      BY <1>2, <2>1
    <2>2. CASE s \notin SlabsOf(desc)
      <3>1. s \in InUse(sm) /\ s \in Slabs
        BY <1>0, <2>2 DEF Cuts
      <3>. QED BY <1>3, <2>2, <3>1 DEF HandedOK
    <2>. QED BY <2>1, <2>2
  <1>. QED BY <1>4, <1>5, <1>6, <1>7 DEF HandedOK

-----------------------------------------------------------------------------
\* The sockets do not mind what is on which list.
LEMMA NetSame ==
  ASSUME NEW sm, NEW t, Mine(t) = Mine(sm), NEW q, NEW from, NEW all, NetOK(q, from, all, sm)
  PROVE  NetOK(q, from, all, t)
  BY DEF NetOK

\* The manager takes the first message off the socket.
LEMMA NetReceives ==
  ASSUME NEW sm, NEW q, NEW from, NEW all, NetOK(q, from, all, sm), Published(q, all), q # <<>>,
         NEW p, p = Tail(q), NEW rest, rest = all \ IdsOf(Head(q))
  PROVE  NetOK(p, from, rest, sm) /\ Published(p, rest)
  <1>1. PICK T : q \in Seq(T)
    BY DEF NetOK, IsSeq
  <1>2. /\ p \in Seq(T) /\ Len(q) \in Nat \ {0} /\ DOMAIN q = 1 .. Len(q)
        /\ DOMAIN p = 1 .. (Len(q) - 1)
        /\ \A i \in 1 .. (Len(q) - 1) : p[i] = q[i + 1]
        /\ Head(q) = q[1]
    BY <1>1
  <1>3. 1 \in DOMAIN q /\ \A i \in DOMAIN p : i \in Nat /\ i + 1 \in DOMAIN q /\ p[i] = q[i + 1] /\ i + 1 # 1
    BY <1>2
  <1>4. \A i \in DOMAIN q : i = 1 \/ (i - 1 \in DOMAIN p /\ q[i] = p[i - 1])
    <2>1. ASSUME NEW i \in DOMAIN q, i # 1
          PROVE  i - 1 \in DOMAIN p /\ q[i] = p[i - 1]
      <3>1. i - 1 \in 1 .. (Len(q) - 1) /\ (i - 1) + 1 = i
        BY <1>2, <2>1
      <3>. QED BY <1>2, <3>1
    <2>. QED BY <2>1
  <1>5. /\ \A i \in DOMAIN q : MsgOK(q[i])
        /\ \A i, j \in DOMAIN q : i # j => IdsOf(q[i]) \cap IdsOf(q[j]) = {}
    BY DEF NetOK
  <1> DEFINE ids == IdsOf(q[1])
  <1>6. Back(q) = Back(p) \cup ids
    <2>1. ASSUME NEW x \in Back(q)
          PROVE  x \in Back(p) \cup ids
      BY <1>4, <2>1 DEF Back
    <2>2. ASSUME NEW x \in Back(p)
          PROVE  x \in Back(q)
      <3>1. PICK i \in DOMAIN p : x \in IdsOf(p[i])
        BY DEF Back
      <3>. QED BY <1>3, <3>1 DEF Back
    <2>3. ids \subseteq Back(q)
      BY <1>3 DEF Back
    <2>. QED BY <2>1, <2>2, <2>3
  <1>7. Back(p) \cap ids = {}
    BY <1>3, <1>5 DEF Back
  <1>8. rest = all \ ids
    BY <1>2
  <1> HIDE DEF ids
  <1>9. rest = Range(from) \cup Mine(sm) \cup Back(p) /\ Back(p) \cap (Range(from) \cup Mine(sm)) = {}
    BY <1>6, <1>7, <1>8 DEF NetOK
  <1>10. \A i, j \in DOMAIN p : i # j => IdsOf(p[i]) \cap IdsOf(p[j]) = {}
    <2>1. ASSUME NEW i \in DOMAIN p, NEW j \in DOMAIN p, i # j
          PROVE  IdsOf(p[i]) \cap IdsOf(p[j]) = {}
      <3>1. i + 1 # j + 1 /\ i + 1 \in DOMAIN q /\ j + 1 \in DOMAIN q
        BY <1>3, <2>1
      <3>. QED BY <1>3, <1>5, <3>1
    <2>. QED BY <2>1
  <1>11. NetOK(p, from, rest, sm)
    BY <1>2, <1>3, <1>5, <1>9, <1>10 DEF NetOK, IsSeq
  <1>12. Published(p, rest)
    <2> SUFFICES ASSUME NEW i \in DOMAIN p, p[i].type = "blocks", NEW g \in Range(p[i].segs)
                 PROVE  g.slab \in rest /\ \A j \in 1 .. i - 1 : g.slab \notin IdsOf(p[j])
      BY DEF Published
    <2>1. g.slab \in all /\ \A j \in 1 .. (i + 1) - 1 : g.slab \notin IdsOf(q[j])
      BY <1>3 DEF Published
    <2>2. 1 \in 1 .. (i + 1) - 1
      BY <1>2
    <2>3. g.slab \notin ids
      BY <2>1, <2>2 DEF ids
    <2>4. \A j \in 1 .. i - 1 : p[j] = q[j + 1] /\ j + 1 \in 1 .. (i + 1) - 1
      BY <1>2
    <2>. QED BY <1>8, <2>1, <2>3, <2>4
  <1>. QED BY <1>11, <1>12

\* The manager sends a slab.
LEMMA NetSends ==
  ASSUME NEW sm, NEW q, NEW from, NEW all, NetOK(q, from, all, sm), Published(q, all),
         NEW s \in Slabs \ all, NEW more, more = Append(from, s)
  PROVE  NetOK(q, more, all \cup {s}, sm) /\ Published(q, all \cup {s})
  <1>1. from \in Seq(Slabs) /\ IsInjective(from) /\ s \notin Range(from) /\ s \notin Mine(sm) /\ s \notin Back(q)
    BY DEF NetOK
  <1>2. ~Contains(from, s)
    BY <1>1, RangeIs
  <1>3. more \in Seq(Slabs) /\ IsInjective(more) /\ \A x : Contains(more, x) <=> Contains(from, x) \/ x = s
    BY <1>1, <1>2, AppendList
  <1>4. Range(more) = Range(from) \cup {s}
    <2>1. \A x : x \in Range(more) <=> Contains(more, x)
      BY <1>3, RangeIs
    <2>2. \A x : x \in Range(from) <=> Contains(from, x)
      BY <1>1, RangeIs
    <2>. QED BY <1>3, <2>1, <2>2
  <1>5. NetOK(q, more, all \cup {s}, sm)
    BY <1>1, <1>3, <1>4 DEF NetOK
  <1>6. Published(q, all \cup {s})
    BY DEF Published
  <1>. QED BY <1>5, <1>6

\* What SendMessage publishes are segments of the descriptor.
LEMMA SegmentsAreUsed ==
  ASSUME NEW d \in Seq(Segment), d # <<>>, NEW len \in Nat, len <= Bytes(d),
         NEW u, u = SubSeq(d, 1, SegmentsUsed(d, len))
  PROVE  u \in Seq(Segment) /\ \A g \in Range(u) : \E i \in DOMAIN d : g = d[i]
  <1> DEFINE K == {k \in 1 .. Len(d) : len <= Bytes(SubSeq(d, 1, k))}
             n == SegmentsUsed(d, len)
  <1>1. n \in 1 .. Len(d)
    <2>1. SubSeq(d, 1, Len(d)) = d /\ Len(d) \in 1 .. Len(d)
      OBVIOUS
    <2>2. Len(d) \in K
      BY <2>1
    <2>3. K # {} /\ K \subseteq Nat
      BY <2>2
    <2>4. n = Min(K)
      BY DEF SegmentsUsed
    <2>5. K \subseteq 1 .. Len(d)
      OBVIOUS
    <2> HIDE DEF K, n
    <2>6. Min(K) \in K
      BY <2>3, LeastNat
    <2>. QED BY <2>4, <2>5, <2>6
  <1> HIDE DEF n
  <1>2. u = SubSeq(d, 1, n)
    BY DEF n
  <1>3. Len(d) \in Nat /\ DOMAIN d = 1 .. Len(d) /\ \A i \in 1 .. n : i \in DOMAIN d
    BY <1>1
  <1>4. u \in Seq(Segment) /\ Len(u) = n /\ \A i \in 1 .. n : u[i] = d[i]
    <2>1. n \in 0 .. Len(d)
      BY <1>1
    <2>. QED BY <1>2, <2>1, FrontOfList
  <1>5. DOMAIN u = 1 .. n
    BY <1>4
  <1>. QED BY <1>3, <1>4, <1>5 DEF Range

(***************************************************************************)
(* The inductive invariant                                                 *)
(***************************************************************************)
Calls == [state : {"try", "poll"}, len : Lens, contiguous : BOOLEAN, poll : BOOLEAN, copy : BOOLEAN]
CallOK(c) == c = NoCall \/ c \in Calls

SendInv ==
  /\ MgrOK(sendMgr)
  /\ NetOK(toMgr, fromMgr, mgrHeld, sendMgr) /\ Published(toMgr, mgrHeld)
  /\ DescsOK(descs, sendMgr)
  /\ HandedOK(handed, sendMgr)
  /\ CallOK(call)
  /\ needless = FALSE

\* The invariant holds at the start.
LEMMA InitInv ==
  ASSUME Init
  PROVE  SendInv
  <1>0. /\ sendMgr = InitSendManager /\ descs = {} /\ call = NoCall /\ toMgr = <<>> /\ fromMgr = <<>>
        /\ mgrHeld = {} /\ handed = [s \in Slabs |-> <<>>] /\ needless = FALSE
    BY DEF Init
  <1>1. /\ sendMgr.freeSlabs = <<>> /\ sendMgr.workingSlabs = <<>> /\ sendMgr.fullSlabs = {}
        /\ sendMgr.retiredSlabs = {} /\ sendMgr.working = {} /\ sendMgr.slabsHeld = 0
        /\ sendMgr \in SendState
    BY <1>0, Constants DEF InitSendManager, SendState
  <1>2. Range(<<>>) = {} /\ IsInjective(<<>>)
    BY DEF Range, IsInjective
  <1>3. InUse(sendMgr) = {} /\ Mine(sendMgr) = {}
    BY <1>1, <1>2 DEF InUse, Mine
  <1>4. MgrOK(sendMgr)
    <2>1. FilesOK(sendMgr)
      BY <1>1, <1>2, <1>3 DEF FilesOK, ListsApart
    <2>2. CountsOK(sendMgr)
      BY <1>1, <1>2, <1>3, FS_EmptySet DEF CountsOK
    <2>. QED BY <2>1, <2>2 DEF MgrOK
  <1>5. NetOK(toMgr, fromMgr, mgrHeld, sendMgr) /\ Published(toMgr, mgrHeld)
    <2>1. Back(<<>>) = {}
      BY DEF Back
    <2>2. <<>> \in Seq(Slabs) /\ IsSeq(<<>>) /\ DOMAIN <<>> = {}
      BY DEF IsSeq
    <2>. QED BY <1>0, <1>2, <1>3, <2>1, <2>2 DEF NetOK, Published
  <1>6. DescsOK(descs, sendMgr)
    BY <1>0, <1>1, <1>2, <1>3, FS_EmptySet DEF DescsOK
  <1>7. HandedOK(handed, sendMgr)
    <2>1. handed \in [Slabs -> Seq(Segment)] /\ \A s \in Slabs : handed[s] = <<>>
      BY <1>0
    <2>2. Apart(<<>>)
      BY DEF Apart
    <2>. QED BY <1>1, <1>2, <1>3, <2>1, <2>2 DEF HandedOK
  <1>. QED BY <1>0, <1>4, <1>5, <1>6, <1>7 DEF SendInv, CallOK

\* The descriptor and the send manager after a release, and the sockets
LEMMA ReleaseKeeps ==
  ASSUME NEW sm, MgrOK(sm), NEW D, DescsOK(D, sm), NEW desc \in D, NEW h, HandedOK(h, sm),
         NEW q, NEW from, NEW all, NetOK(q, from, all, sm),
         NEW t, t = ReleaseMessageDescriptor(sm, desc)
  PROVE  MgrOK(t) /\ DescsOK(D \ {desc}, t) /\ HandedOK(h, t) /\ NetOK(q, from, all, t)
  <1>1. Releases(sm, t, desc)
    BY ReleaseReleases
  <1>2. MgrOK(t) /\ Mine(t) = Mine(sm)
    BY <1>1 DEF Releases
  <1>3. DescsOK(D \ {desc}, t)
    BY <1>1, ReleasesDescs
  <1>4. HandedOK(h, t)
    BY <1>1, ReleasesHanded
  <1>. QED BY <1>2, <1>3, <1>4, NetSame

\* SendRetiredSlabs, as every caller uses it, keeps the invariant.
LEMMA ReturnKeeps ==
  ASSUME NEW sm, MgrOK(sm), NEW D, DescsOK(D, sm), NEW h, HandedOK(h, sm),
         NEW q, NEW from, NEW all, NetOK(q, from, all, sm), Published(q, all),
         NEW t, t = TakeRetired(sm), NEW p, p = q \o RetiredMsg(sm)
  PROVE  /\ MgrOK(t) /\ DescsOK(D, t) /\ HandedOK(h, t)
         /\ NetOK(p, from, all, t) /\ Published(p, all)
  <1>1. Quiet(sm, t)
    BY TakeRetiredQuietly
  <1>2. MgrOK(t) /\ DescsOK(D, t) /\ HandedOK(h, t)
    BY <1>1, QuietKeeps DEF Quiet
  <1>. QED BY <1>2, SendsRetired

-----------------------------------------------------------------------------
(* One lemma per action *)

\* A call that is being tried has its arguments.
LEMMA CallInProgress ==
  ASSUME CallOK(call), call.state = "try"
  PROVE  /\ call \in Calls /\ call.len \in Lens /\ call.len \in Nat
         /\ call.contiguous \in BOOLEAN
  <1>1. NoCall.state = "none"
    BY DEF NoCall
  <1>2. call \in Calls
    BY <1>1 DEF CallOK
  <1>. QED BY <1>2, Constants DEF Calls

\* GetSendMsgDesc returns a descriptor.
LEMMA GetSucceedsInv ==
  ASSUME SendInv, GetSucceeds
  PROVE  SendInv'
  <1> DEFINE r == Got
             t == r.sm
             d == r.desc
  <1>1. /\ call.state = "try" /\ ~TooLong(call.len, call.contiguous) /\ d # <<>>
        /\ sendMgr' = t /\ descs' = descs \cup {d} /\ call' = NoCall
        /\ handed' = [s \in Slabs |-> IF s \in SlabsOf(d) THEN Append(handed[s], SegmentIn(d, s))
                                      ELSE handed[s]]
        /\ toMgr' = toMgr /\ fromMgr' = fromMgr /\ mgrHeld' = mgrHeld /\ needless' = needless
    <2> HIDE DEF t, d
    <2>. QED BY DEF GetSucceeds, Trying, t, d
  <1>2. MgrOK(sendMgr) /\ call.len \in Lens /\ call.contiguous \in BOOLEAN
    BY <1>1, CallInProgress DEF SendInv
  <1>3. Cuts(sendMgr, t, d)
    <2>1. r = GetMessageDescriptor(sendMgr, call.len, call.contiguous)
      BY DEF Got
    <2> HIDE DEF r
    <2>. QED BY <1>1, <1>2, <2>1, GetCuts
  <1> HIDE DEF r, t, d
  <1>4. MgrOK(t) /\ Mine(t) = Mine(sendMgr)
    BY <1>3 DEF Cuts
  <1>5. NetOK(toMgr', fromMgr', mgrHeld', t) /\ Published(toMgr', mgrHeld')
    <2>1. NetOK(toMgr, fromMgr, mgrHeld, t)
      BY <1>4, NetSame DEF SendInv
    <2>. QED BY <1>1, <2>1 DEF SendInv
  <1>6. DescsOK(descs', t)
    <2>1. DescsOK(descs, sendMgr)
      BY DEF SendInv
    <2>2. DescsOK(descs \cup {d}, t)
      BY <1>1, <1>2, <1>3, <2>1, CutsDescs
    <2>. QED BY <1>1, <2>2
  <1>7. HandedOK(handed', t)
    <2>1. HandedOK(handed, sendMgr)
      BY DEF SendInv
    <2>. QED BY <1>1, <1>2, <1>3, <2>1, CutsHanded
  <1>. QED BY <1>1, <1>4, <1>5, <1>6, <1>7 DEF SendInv, CallOK

\* A call begins.
LEMMA StartInv ==
  ASSUME SendInv, StartGetSendMsgDesc
  PROVE  SendInv'
  <1>1. PICK len \in Lens, contiguous \in BOOLEAN, poll \in BOOLEAN, copy \in BOOLEAN :
          call' = [state |-> "try", len |-> len, contiguous |-> contiguous,
                   poll |-> poll, copy |-> copy]
    BY DEF StartGetSendMsgDesc
  <1>2. CallOK(call')
    BY <1>1 DEF CallOK, Calls
  <1>. QED BY <1>2 DEF SendInv, StartGetSendMsgDesc

\* GetSendMsgDesc waits, or returns null.
LEMMA GetWaitsInv ==
  ASSUME SendInv, GetWaits
  PROVE  SendInv'
  <1>1. call \in Calls
    BY CallInProgress DEF SendInv, GetWaits, Trying
  <1>2. call' = NoCall \/ call' = [call EXCEPT !.state = "poll"]
    BY DEF GetWaits
  <1>3. CallOK(call')
    BY <1>1, <1>2 DEF CallOK, Calls
  <1>. QED BY <1>3 DEF SendInv, GetWaits

\* GetSendMsgDesc returns slabs and tries again.
LEMMA GetSqueezesInv ==
  ASSUME SendInv, GetSqueezes
  PROVE  SendInv'
  <1> DEFINE u == Squeeze(sendMgr)
  <1>1. /\ sendMgr' = TakeRetired(u) /\ toMgr' = toMgr \o RetiredMsg(u)
        /\ descs' = descs /\ call' = call /\ fromMgr' = fromMgr /\ mgrHeld' = mgrHeld
        /\ handed' = handed /\ needless' = needless
    BY DEF GetSqueezes
  <1> HIDE DEF u
  <1>2. Files(sendMgr, u)
    BY SqueezeFiles DEF SendInv, u
  <1>3. MgrOK(u) /\ DescsOK(descs, u) /\ HandedOK(handed, u) /\ NetOK(toMgr, fromMgr, mgrHeld, u)
    <2>1. MgrOK(u) /\ Mine(u) = Mine(sendMgr)
      BY <1>2 DEF Files
    <2>2. DescsOK(descs, u) /\ HandedOK(handed, u)
      BY <1>2, FilesQuietly, QuietKeeps DEF SendInv
    <2>. QED BY <2>1, <2>2, NetSame DEF SendInv
  <1> DEFINE t == sendMgr'
             p == toMgr'
  <1>4. Published(toMgr, mgrHeld) /\ t = TakeRetired(u) /\ p = toMgr \o RetiredMsg(u)
    BY <1>1 DEF SendInv
  <1> HIDE DEF t, p
  <1>5. /\ MgrOK(t) /\ DescsOK(descs, t) /\ HandedOK(handed, t)
        /\ NetOK(p, fromMgr, mgrHeld, t) /\ Published(p, mgrHeld)
    BY <1>3, <1>4, ReturnKeeps
  <1>. QED BY <1>1, <1>5 DEF SendInv, t, p

(***************************************************************************)
(* With no descriptor out, a client that nobody owes a slab and that has   *)
(* none to give back has as many free slabs as were reserved.              *)
(***************************************************************************)
LEMMA NeverNeedless ==
  ASSUME SendInv, NoHelp, descs = {}, call.len <= NumProdSlabs * BlocksPerSlab * BlockSize
  PROVE  FALSE
  <1> DEFINE sm == sendMgr
             u  == Squeeze(sm)
  <1>1. /\ call.state = "try" /\ ~TooLong(call.len, call.contiguous) /\ Got.desc = <<>>
        /\ NumProdSlabs <= sm.slabsHeld /\ u.retiredSlabs = {}
    BY DEF NoHelp, Trying
  <1>2. /\ MgrOK(sm) /\ FilesOK(sm) /\ CountsOK(sm) /\ sm \in SendState
        /\ call.len \in Lens /\ call.contiguous \in BOOLEAN /\ DescsOK({}, sm)
    BY <1>1, CallInProgress DEF SendInv, MgrOK, FilesOK
  <1>3. \A s \in InUse(sm) : sm.refcount[s] = 0
    <2>1. \A s : Users({}, s) = {}
      BY DEF Users
    <2>. QED BY <1>2, <2>1, FS_EmptySet DEF DescsOK
  <1>4. sm.retiredSlabs = {} /\ Range(sm.workingSlabs) = {}
    <2> HIDE DEF u
    <2>1. sm.retiredSlabs = {} /\ \A s \in Range(sm.workingSlabs) : sm.refcount[s] > 0
      BY <1>1, <1>2, SqueezeFiles DEF u
    <2>. QED BY <1>3, <2>1 DEF InUse
  <1>5. sm.fullSlabs = {}
    BY <1>2, <1>3 DEF CountsOK, InUse
  <1>6. Mine(sm) = Range(sm.freeSlabs)
    BY <1>4, <1>5 DEF Mine, InUse
  <1>7. sm.slabsHeld = Len(sm.freeSlabs)
    <2>1. sm.freeSlabs \in Seq(Slabs) /\ IsInjective(sm.freeSlabs)
      BY <1>2, StateFields DEF FilesOK
    <2>. QED BY <1>2, <1>6, <2>1, ListCount DEF CountsOK
  <1>8. Len(sm.freeSlabs) >= NumProdSlabs
    <2>1. sm.slabsHeld \in Nat /\ NumProdSlabs \in Nat
      BY <1>2, StateFields, Constants
    <2>. QED BY <1>1, <1>7, <2>1
  <1> DEFINE r == Got
  <1>9. r = GetMessageDescriptor(sm, call.len, call.contiguous) /\ r.desc = <<>>
    BY <1>1 DEF Got
  <1> HIDE DEF r, sm
  <1>. QED BY <1>1, <1>2, <1>8, <1>9, GetServes

\* GetSendMsgDesc throws.
LEMMA GetThrowsInv ==
  ASSUME SendInv, GetThrows
  PROVE  SendInv'
  <1>1. /\ descs' = descs /\ toMgr' = toMgr /\ fromMgr' = fromMgr /\ mgrHeld' = mgrHeld
        /\ handed' = handed /\ call' = NoCall
    BY DEF GetThrows
  <1>2. \/ sendMgr' = sendMgr
        \/ sendMgr' = Squeeze(sendMgr)
    BY DEF GetThrows
  <1>3. /\ MgrOK(sendMgr') /\ DescsOK(descs, sendMgr') /\ HandedOK(handed, sendMgr')
        /\ NetOK(toMgr, fromMgr, mgrHeld, sendMgr')
    <2>1. CASE sendMgr' = sendMgr
      BY <2>1 DEF SendInv
    <2>2. CASE sendMgr' = Squeeze(sendMgr)
      <3> DEFINE t == sendMgr'
      <3>1. t = Squeeze(sendMgr) /\ MgrOK(sendMgr)
        BY <2>2 DEF SendInv
      <3> HIDE DEF t
      <3>2. Files(sendMgr, t)
        BY <3>1, SqueezeFiles
      <3>3. MgrOK(t) /\ Mine(t) = Mine(sendMgr)
        BY <3>2 DEF Files
      <3>4. DescsOK(descs, t) /\ HandedOK(handed, t)
        BY <3>2, FilesQuietly, QuietKeeps DEF SendInv
      <3>5. NetOK(toMgr, fromMgr, mgrHeld, t)
        BY <3>3, NetSame DEF SendInv
      <3>. QED BY <3>3, <3>4, <3>5 DEF t
    <2>. QED BY <1>2, <2>1, <2>2
  <1>4. needless' = FALSE
    <2>1. TooLong(call.len, call.contiguous) \/ NoHelp
      BY DEF GetThrows
    <2>2. ~(/\ descs = {} /\ ~TooLong(call.len, call.contiguous)
            /\ call.len <= NumProdSlabs * BlocksPerSlab * BlockSize)
      BY <2>1, NeverNeedless
    <2>3. needless = FALSE
      BY DEF SendInv
    <2>. QED BY <2>2, <2>3 DEF GetThrows
  <1>. QED BY <1>1, <1>3, <1>4 DEF SendInv, CallOK

\* SendMessage: blocks, retired slabs, and the release after them.
LEMMA SendMessageInv ==
  ASSUME SendInv, NEW desc \in descs, NEW len \in Lens, SendMessage(desc, len)
  PROVE  SendInv'
  <1> DEFINE segs == SubSeq(desc, 1, SegmentsUsed(desc, len))
             q    == Append(toMgr, BlocksMsg(segs))
             p    == q \o RetiredMsg(sendMgr)
             u    == TakeRetired(sendMgr)
             t    == ReleaseMessageDescriptor(u, desc)
  <1>1. /\ len <= Bytes(desc) /\ toMgr' = p /\ sendMgr' = t /\ descs' = descs \ {desc}
        /\ call' = call /\ fromMgr' = fromMgr /\ mgrHeld' = mgrHeld
        /\ handed' = handed /\ needless' = needless
    BY DEF SendMessage
  <1>2. /\ MgrOK(sendMgr) /\ DescsOK(descs, sendMgr) /\ DescOK(desc, sendMgr)
        /\ HandedOK(handed, sendMgr) /\ Published(toMgr, mgrHeld)
        /\ NetOK(toMgr, fromMgr, mgrHeld, sendMgr)
    BY DEF SendInv, DescsOK
  <1> HIDE DEF segs, q, p, u, t
  <1>3. segs \in Seq(Segment) /\ \A g \in Range(segs) : g.slab \in Mine(sendMgr)
    <2>1. desc \in Seq(Segment) /\ desc # <<>> /\ \A i \in DOMAIN desc : desc[i].slab \in InUse(sendMgr)
      BY <1>2 DEF DescOK
    <2>2. segs \in Seq(Segment) /\ \A g \in Range(segs) : \E i \in DOMAIN desc : g = desc[i]
      BY <1>1, <2>1, Constants, SegmentsAreUsed DEF segs
    <2>. QED BY <2>1, <2>2 DEF Mine
  <1>4. NetOK(q, fromMgr, mgrHeld, sendMgr) /\ Published(q, mgrHeld)
    BY <1>2, <1>3, SendsBlocks DEF q
  <1>5. /\ MgrOK(u) /\ DescsOK(descs, u) /\ HandedOK(handed, u)
        /\ NetOK(p, fromMgr, mgrHeld, u) /\ Published(p, mgrHeld)
    BY <1>2, <1>4, ReturnKeeps DEF p, u
  <1>6. /\ MgrOK(t) /\ DescsOK(descs \ {desc}, t) /\ HandedOK(handed, t)
        /\ NetOK(p, fromMgr, mgrHeld, t)
    BY <1>5, ReleaseKeeps DEF t
  <1>. QED BY <1>1, <1>5, <1>6 DEF SendInv

\* SendMessage of more than the descriptor holds.
LEMMA SendMessageThrowsInv ==
  ASSUME SendInv, NEW desc \in descs, NEW len, SendMessageThrows(desc, len)
  PROVE  SendInv'
  <1> DEFINE t == ReleaseMessageDescriptor(sendMgr, desc)
  <1>1. /\ sendMgr' = t /\ descs' = descs \ {desc} /\ toMgr' = toMgr
        /\ call' = call /\ fromMgr' = fromMgr /\ mgrHeld' = mgrHeld
        /\ handed' = handed /\ needless' = needless
    BY DEF SendMessageThrows
  <1> HIDE DEF t
  <1>2. /\ MgrOK(sendMgr) /\ DescsOK(descs, sendMgr)
        /\ HandedOK(handed, sendMgr) /\ NetOK(toMgr, fromMgr, mgrHeld, sendMgr)
    BY DEF SendInv
  <1>3. /\ MgrOK(t) /\ DescsOK(descs \ {desc}, t) /\ HandedOK(handed, t)
        /\ NetOK(toMgr, fromMgr, mgrHeld, t)
    BY <1>2, ReleaseKeeps DEF t
  <1>. QED BY <1>1, <1>3 DEF SendInv

\* ReleaseSendMsgDesc.
LEMMA ReleaseSendInv ==
  ASSUME SendInv, NEW desc \in descs, ReleaseSendMsgDesc(desc)
  PROVE  SendInv'
  <1> DEFINE u == ReleaseMessageDescriptor(sendMgr, desc)
             t == TakeRetired(u)
             p == toMgr \o RetiredMsg(u)
             D == descs \ {desc}
  <1>1. /\ sendMgr' = t /\ descs' = D /\ toMgr' = p
        /\ call' = call /\ fromMgr' = fromMgr /\ mgrHeld' = mgrHeld
        /\ handed' = handed /\ needless' = needless
    BY DEF ReleaseSendMsgDesc
  <1> HIDE DEF u, t, p, D
  <1>2. /\ MgrOK(sendMgr) /\ DescsOK(descs, sendMgr) /\ Published(toMgr, mgrHeld)
        /\ HandedOK(handed, sendMgr) /\ NetOK(toMgr, fromMgr, mgrHeld, sendMgr)
    BY DEF SendInv
  <1>3. /\ MgrOK(u) /\ DescsOK(D, u) /\ HandedOK(handed, u)
        /\ NetOK(toMgr, fromMgr, mgrHeld, u)
    BY <1>2, ReleaseKeeps DEF u, D
  <1>4. /\ MgrOK(t) /\ DescsOK(D, t) /\ HandedOK(handed, t)
        /\ NetOK(p, fromMgr, mgrHeld, t) /\ Published(p, mgrHeld)
    BY <1>2, <1>3, ReturnKeeps DEF t, p
  <1>. QED BY <1>1, <1>4 DEF SendInv

\* Slabs arrive.
LEMMA HandleSlabIDsInv ==
  ASSUME SendInv, NEW k \in 1 .. Len(fromMgr), HandleSlabIDs(k)
  PROVE  SendInv'
  <1> DEFINE ids  == SubSeq(fromMgr, 1, k)
             rest == SubSeq(fromMgr, k + 1, Len(fromMgr))
             u    == AddFreeSlabs(sendMgr, ids)
             t    == TakeRetired(u)
             p    == toMgr \o RetiredMsg(u)
             h    == [s \in Slabs |-> IF s \in Range(ids) THEN <<>> ELSE handed[s]]
  <1>1. /\ sendMgr' = t /\ toMgr' = p /\ handed' = h /\ fromMgr' = rest
        /\ descs' = descs /\ mgrHeld' = mgrHeld /\ needless' = needless
    BY DEF HandleSlabIDs
  <1>2. CallOK(call')
    <2>1. CallOK(call)
      BY DEF SendInv
    <2>2. call' = IF call = NoCall THEN NoCall ELSE [call EXCEPT !.state = "try"]
      BY DEF HandleSlabIDs
    <2>. QED BY <2>1, <2>2 DEF CallOK, Calls
  <1>3. /\ MgrOK(sendMgr) /\ DescsOK(descs, sendMgr) /\ Published(toMgr, mgrHeld)
        /\ HandedOK(handed, sendMgr) /\ NetOK(toMgr, fromMgr, mgrHeld, sendMgr)
        /\ needless = FALSE
    BY DEF SendInv
  <1>4. /\ k \in 0 .. Len(fromMgr) /\ ids \in Seq(Slabs) /\ IsInjective(ids)
        /\ Range(ids) \subseteq Range(fromMgr)
    <2>1. fromMgr \in Seq(Slabs) /\ IsInjective(fromMgr) /\ k \in 0 .. Len(fromMgr)
      BY <1>3 DEF NetOK
    <2> DEFINE q == fromMgr
    <2> HIDE DEF q
    <2>2. /\ ids \in Seq(Slabs) /\ IsInjective(ids)
          /\ Range(ids) \cup Range(rest) = Range(fromMgr)
      BY <2>1, PartOfList
    <2>. QED BY <2>1, <2>2
  <1> HIDE DEF ids, rest, u, t, p, h
  <1>5. Range(ids) \cap Mine(sendMgr) = {}
    BY <1>3, <1>4 DEF NetOK
  <1>6. Gains(sendMgr, u, Range(ids))
    BY <1>3, <1>4, <1>5, AddFreeGains DEF u
  <1>7. MgrOK(u)
    BY <1>6 DEF Gains
  <1>8. DescsOK(descs, u)
    <2> DEFINE new == Range(ids)
    <2>1. Gains(sendMgr, u, new) /\ new \cap Mine(sendMgr) = {}
      BY <1>5, <1>6
    <2> HIDE DEF new
    <2>. QED BY <1>3, <2>1, GainsDescs
  <1>9. HandedOK(h, u)
    <2> DEFINE new == Range(ids)
    <2>1. /\ Gains(sendMgr, u, new) /\ new \cap Mine(sendMgr) = {}
          /\ h = [s \in Slabs |-> IF s \in new THEN <<>> ELSE handed[s]]
      BY <1>5, <1>6 DEF h
    <2> HIDE DEF new
    <2>. QED BY <1>3, <2>1, GainsHanded
  <1>10. NetOK(toMgr, rest, mgrHeld, u)
    <2>1. ids = SubSeq(fromMgr, 1, k) /\ rest = SubSeq(fromMgr, k + 1, Len(fromMgr))
      BY DEF ids, rest
    <2>. QED BY <1>3, <1>4, <1>6, <2>1, GainsNet
  <1>11. /\ MgrOK(t) /\ DescsOK(descs, t) /\ HandedOK(h, t)
         /\ NetOK(p, rest, mgrHeld, t) /\ Published(p, mgrHeld)
    BY <1>3, <1>7, <1>8, <1>9, <1>10, ReturnKeeps DEF t, p
  <1>. QED BY <1>1, <1>2, <1>3, <1>11 DEF SendInv

\* The manager reads a message.
LEMMA ManagerReceivesInv ==
  ASSUME SendInv, ManagerReceives
  PROVE  SendInv'
  <1>1. /\ toMgr # <<>> /\ toMgr' = Tail(toMgr) /\ mgrHeld' = mgrHeld \ IdsOf(Head(toMgr))
        /\ UNCHANGED <<sendMgr, descs, call, fromMgr, handed, needless>>
    BY DEF ManagerReceives, IdsOf
  <1> DEFINE p == toMgr'
             all == mgrHeld'
  <1>2. p = Tail(toMgr) /\ all = mgrHeld \ IdsOf(Head(toMgr))
    BY <1>1
  <1> HIDE DEF p, all
  <1>3. NetOK(p, fromMgr, all, sendMgr) /\ Published(p, all)
    BY <1>1, <1>2, NetReceives DEF SendInv
  <1>. QED BY <1>1, <1>3 DEF SendInv, p, all

\* The manager hands out a slab.
LEMMA ManagerSendsInv ==
  ASSUME SendInv, ManagerSends
  PROVE  SendInv'
  <1>1. PICK s \in Slabs \ mgrHeld : fromMgr' = Append(fromMgr, s) /\ mgrHeld' = mgrHeld \cup {s}
    BY DEF ManagerSends
  <1>2. UNCHANGED <<sendMgr, descs, call, toMgr, handed, needless>>
    BY DEF ManagerSends
  <1> DEFINE more == fromMgr'
  <1>3. more = Append(fromMgr, s)
    BY <1>1
  <1> HIDE DEF more
  <1>4. NetOK(toMgr, more, mgrHeld \cup {s}, sendMgr) /\ Published(toMgr, mgrHeld \cup {s})
    BY <1>3, NetSends DEF SendInv
  <1>. QED BY <1>1, <1>2, <1>4 DEF SendInv, more

\* Every step keeps the invariant.
LEMMA NextInv ==
  ASSUME SendInv, [Next]_vars
  PROVE  SendInv'
  <1>1. CASE UNCHANGED vars
    BY <1>1 DEF vars, SendInv
  <1>2. CASE Next
    <2>1. CASE \E desc \in descs, len \in Lens : SendMessage(desc, len) \/ SendMessageThrows(desc, len)
      BY <2>1, SendMessageInv, SendMessageThrowsInv
    <2>2. CASE \E desc \in descs : ReleaseSendMsgDesc(desc)
      BY <2>2, ReleaseSendInv
    <2>3. CASE \E k \in 1 .. Len(fromMgr) : HandleSlabIDs(k)
      BY <2>3, HandleSlabIDsInv
    <2>. QED BY <1>2, <2>1, <2>2, <2>3, StartInv, GetSucceedsInv, GetWaitsInv, GetSqueezesInv,
                GetThrowsInv, ManagerReceivesInv, ManagerSendsInv DEF Next
  <1>. QED BY <1>1, <1>2

\* The invariant holds in every reachable state.
LEMMA AlwaysSendInv == Spec => []SendInv
  BY InitInv, NextInv, PTL DEF Spec

-----------------------------------------------------------------------------
\* SlabsHeld counts the four lists.
LEMMA HeldIsCounted ==
  ASSUME NEW sm, MgrOK(sm)
  PROVE  sm.slabsHeld = Len(sm.freeSlabs) + Len(sm.workingSlabs)
                          + Cardinality(sm.fullSlabs) + Cardinality(sm.retiredSlabs)
  <1> DEFINE F == Range(sm.freeSlabs)
             W == Range(sm.workingSlabs)
             U == InUse(sm)
             V == F \cup U
  <1>0. sm \in SendState /\ FilesOK(sm) /\ CountsOK(sm)
    BY DEF MgrOK, FilesOK
  <1>1. /\ IsFiniteSet(F) /\ Cardinality(F) = Len(sm.freeSlabs)
        /\ IsFiniteSet(W) /\ Cardinality(W) = Len(sm.workingSlabs)
    <2>1. /\ sm.freeSlabs \in Seq(Slabs) /\ IsInjective(sm.freeSlabs)
          /\ sm.workingSlabs \in Seq(Slabs) /\ IsInjective(sm.workingSlabs)
      BY <1>0, StateFields DEF FilesOK
    <2>. QED BY <2>1, ListCount
  <1>2. IsFiniteSet(sm.fullSlabs) /\ IsFiniteSet(sm.retiredSlabs)
    BY <1>0, StateFields, Constants, FS_Subset
  <1>3. /\ W \cup sm.fullSlabs = U /\ W \cap sm.fullSlabs = {}
        /\ F \cap U = {} /\ F \cup U = V
        /\ V \cup sm.retiredSlabs = Mine(sm) /\ V \cap sm.retiredSlabs = {}
    BY <1>0 DEF FilesOK, ListsApart, InUse, Mine
  <1> DEFINE X == sm.fullSlabs
             R == sm.retiredSlabs
             M == Mine(sm)
  <1>4. IsFiniteSet(X) /\ IsFiniteSet(R) /\ W \cup X = U /\ W \cap X = {}
        /\ V \cup R = M /\ V \cap R = {}
    BY <1>2, <1>3
  <1>4a. IsFiniteSet(F) /\ F \cup U = V /\ F \cap U = {}
    BY <1>1, <1>3
  <1> HIDE DEF F, W, U, V, X, R, M
  <1>5. /\ IsFiniteSet(U) /\ Cardinality(U) = Cardinality(W) + Cardinality(X)
        /\ Cardinality(W) \in Nat /\ Cardinality(X) \in Nat
    BY <1>1, <1>4, SplitCount
  <1>6. /\ IsFiniteSet(V) /\ Cardinality(V) = Cardinality(F) + Cardinality(U)
        /\ Cardinality(F) \in Nat
    BY <1>4a, <1>5, SplitCount
  <1>7. Cardinality(M) = Cardinality(V) + Cardinality(R) /\ Cardinality(R) \in Nat
    BY <1>4, <1>6, SplitCount
  <1>8. sm.slabsHeld = Cardinality(M)
    BY <1>0 DEF CountsOK, M
  <1> DEFINE f == Cardinality(F)
             w == Cardinality(W)
             x == Cardinality(X)
             r == Cardinality(R)
  <1>9. sm.slabsHeld = f + (w + x) + r /\ f \in Nat /\ w \in Nat /\ x \in Nat /\ r \in Nat
    BY <1>5, <1>6, <1>7, <1>8
  <1>10. f = Len(sm.freeSlabs) /\ w = Len(sm.workingSlabs)
    BY <1>1
  <1>11. x = Cardinality(sm.fullSlabs) /\ r = Cardinality(sm.retiredSlabs)
    BY DEF X, R
  <1> HIDE DEF f, w, x, r
  <1>12. sm.slabsHeld = f + w + x + r
    BY <1>9
  <1>. QED BY <1>10, <1>11, <1>12

\* Five entries and a list
LEMMA FiveAndMore ==
  ASSUME NEW S, NEW A \in S, NEW B \in S, NEW C \in S, NEW D \in S, NEW E \in S,
         NEW n \in Nat, NEW f \in [1 .. n -> S], NEW p, p = <<A, B, C, D, E>> \o f
  PROVE  /\ DOMAIN p = 1 .. (5 + n) /\ \A i \in 1 .. n : p[5 + i] = f[i]
         /\ p[1] = A /\ p[2] = B /\ p[3] = C /\ p[4] = D /\ p[5] = E
  <1> DEFINE a == <<A, B, C, D, E>>
  <1>1. f \in Seq(S) /\ Len(f) = n
    BY FunctionList
  <1>2. a \in Seq(S) /\ Len(a) = 5 /\ a[1] = A /\ a[2] = B /\ a[3] = C /\ a[4] = D /\ a[5] = E
    OBVIOUS
  <1>3. p = a \o f
    OBVIOUS
  <1> HIDE DEF a
  <1>4. /\ DOMAIN p = 1 .. (Len(a) + Len(f))
        /\ \A i \in 1 .. Len(a) : p[i] = a[i]
        /\ \A i \in 1 .. Len(f) : p[Len(a) + i] = f[i]
    BY <1>1, <1>2, <1>3
  <1>. QED BY <1>1, <1>2, <1>4

\* The places, one by one
LEMMA PlacesAre ==
  ASSUME SendInv
  PROVE  /\ Len(toMgr) \in Nat /\ DOMAIN toMgr = 1 .. Len(toMgr)
         /\ DOMAIN Places = 1 .. (5 + Len(toMgr))
         /\ Places[1] = Range(fromMgr) /\ Places[2] = Range(sendMgr.freeSlabs)
         /\ Places[3] = Range(sendMgr.workingSlabs) /\ Places[4] = sendMgr.fullSlabs
         /\ Places[5] = sendMgr.retiredSlabs
         /\ \A i \in 1 .. Len(toMgr) : Places[5 + i] = IdsOf(toMgr[i])
  <1> DEFINE S == SUBSET Slabs
             n == Len(toMgr)
             f == [i \in DOMAIN toMgr |-> IF toMgr[i].type = "slabs" THEN toMgr[i].ids ELSE {}]
             A == Range(fromMgr)
             B == Range(sendMgr.freeSlabs)
             C == Range(sendMgr.workingSlabs)
             D == sendMgr.fullSlabs
             E == sendMgr.retiredSlabs
             a == <<A, B, C, D, E>>
  <1>1. /\ n \in Nat /\ DOMAIN toMgr = 1 .. n /\ \A i \in 1 .. n : MsgOK(toMgr[i])
    <2>1. IsSeq(toMgr) /\ \A i \in DOMAIN toMgr : MsgOK(toMgr[i])
      BY DEF SendInv, NetOK
    <2>2. PICK T : toMgr \in Seq(T)
      BY <2>1 DEF IsSeq
    <2>. QED BY <2>1, <2>2
  <1>2. A \in S /\ B \in S /\ C \in S /\ D \in S /\ E \in S
    <2>1. sendMgr \in SendState /\ fromMgr \in Seq(Slabs)
      BY DEF SendInv, MgrOK, FilesOK, NetOK
    <2>2. Range(fromMgr) \subseteq Slabs
      BY <2>1, RangeIs
    <2>. QED BY <2>1, <2>2, StateFields
  <1>3. \A i \in 1 .. n : f[i] = IdsOf(toMgr[i]) /\ IdsOf(toMgr[i]) \subseteq Slabs
    BY <1>1 DEF IdsOf, MsgOK
  <1>4. f \in [1 .. n -> S]
    BY <1>1, <1>3
  <1>5. Places = a \o f
    BY DEF Places
  <1> HIDE DEF S, n, f, A, B, C, D, E
  <1>6. /\ DOMAIN Places = 1 .. (5 + n) /\ \A i \in 1 .. n : Places[5 + i] = f[i]
        /\ Places[1] = A /\ Places[2] = B /\ Places[3] = C /\ Places[4] = D /\ Places[5] = E
    BY <1>1, <1>2, <1>4, <1>5, FiveAndMore
  <1>. QED BY <1>1, <1>3, <1>6 DEF n, A, B, C, D, E

\* No two places share a slab.
LEMMA PlacesApart ==
  ASSUME SendInv, NEW i \in DOMAIN Places, NEW j \in DOMAIN Places, i < j
  PROVE  Places[i] \cap Places[j] = {}
  <1> DEFINE n == Len(toMgr)
  <1>0. /\ ListsApart(sendMgr) /\ NetOK(toMgr, fromMgr, mgrHeld, sendMgr)
    BY DEF SendInv, MgrOK, FilesOK
  <1>1. n \in Nat /\ DOMAIN toMgr = 1 .. n /\ i \in 1 .. (5 + n) /\ j \in 1 .. (5 + n)
    BY PlacesAre
  <1>2. ASSUME NEW k \in 1 .. (5 + n), k > 5
        PROVE  k - 5 \in DOMAIN toMgr /\ Places[k] = IdsOf(toMgr[k - 5])
    <2>1. k - 5 \in 1 .. n /\ 5 + (k - 5) = k
      BY <1>1, <1>2
    <2>2. Places[5 + (k - 5)] = IdsOf(toMgr[k - 5])
      BY <2>1, PlacesAre
    <2>. QED BY <1>1, <2>1, <2>2
  <1>3. ASSUME NEW k \in 1 .. (5 + n), k <= 5
        PROVE  Places[k] \subseteq Range(fromMgr) \cup Mine(sendMgr)
    <2>1. k = 1 \/ k = 2 \/ k = 3 \/ k = 4 \/ k = 5
      BY <1>1, <1>3
    <2>. QED BY <2>1, PlacesAre DEF Mine, InUse
  <1>4. CASE j <= 5
    <2>1. /\ i = 1 \/ i = 2 \/ i = 3 \/ i = 4
          /\ j = 2 \/ j = 3 \/ j = 4 \/ j = 5
      BY <1>1, <1>4
    <2>2. /\ Places[1] \cap Mine(sendMgr) = {}
          /\ Places[2] \cap Places[3] = {} /\ Places[2] \cap Places[4] = {} /\ Places[2] \cap Places[5] = {}
          /\ Places[3] \cap Places[4] = {} /\ Places[3] \cap Places[5] = {} /\ Places[4] \cap Places[5] = {}
      BY <1>0, PlacesAre DEF ListsApart, NetOK, InUse
    <2>3. Places[j] \subseteq Mine(sendMgr)
      BY <2>1, PlacesAre DEF Mine, InUse
    <2>4. CASE i = 1
      BY <2>2, <2>3, <2>4
    <2>5. CASE i # 1
      <3>1. \/ i = 2 /\ j = 3
            \/ i = 2 /\ j = 4
            \/ i = 2 /\ j = 5
            \/ i = 3 /\ j = 4
            \/ i = 3 /\ j = 5
            \/ i = 4 /\ j = 5
        BY <2>1, <2>5
      <3>. QED BY <2>2, <3>1
    <2>. QED BY <2>4, <2>5
  <1>5. CASE j > 5 /\ i <= 5
    <2>1. Places[j] \subseteq Back(toMgr)
      BY <1>1, <1>2, <1>5 DEF Back
    <2>. QED BY <1>0, <1>1, <1>3, <1>5, <2>1 DEF NetOK
  <1>6. CASE j > 5 /\ i > 5
    <2>1. i - 5 # j - 5
      BY <1>1
    <2>. QED BY <1>0, <1>1, <1>2, <1>6, <2>1 DEF NetOK
  <1>. QED BY <1>1, <1>4, <1>5, <1>6

\* Together they hold the slabs that the manager counts.
LEMMA PlacesAreAll ==
  ASSUME SendInv
  PROVE  UNION Range(Places) = mgrHeld
  <1> DEFINE n == Len(toMgr)
  <1>0. mgrHeld = Range(fromMgr) \cup Mine(sendMgr) \cup Back(toMgr)
    BY DEF SendInv, NetOK
  <1>1. n \in Nat /\ DOMAIN toMgr = 1 .. n /\ DOMAIN Places = 1 .. (5 + n)
    BY PlacesAre
  <1>2. \A x : x \in UNION Range(Places) <=> \E i \in 1 .. (5 + n) : x \in Places[i]
    BY <1>1 DEF Range
  <1>3. \A i \in 1 .. n : 5 + i \in 1 .. (5 + n) /\ Places[5 + i] = IdsOf(toMgr[i])
    BY <1>1, PlacesAre
  <1>4. /\ 1 \in 1 .. (5 + n) /\ 2 \in 1 .. (5 + n) /\ 3 \in 1 .. (5 + n) /\ 4 \in 1 .. (5 + n)
        /\ 5 \in 1 .. (5 + n)
    BY <1>1
  <1>5. \A i \in 1 .. (5 + n) : i = 1 \/ i = 2 \/ i = 3 \/ i = 4 \/ i = 5 \/ \E k \in 1 .. n : i = 5 + k
    <2>1. ASSUME NEW i \in 1 .. (5 + n), ~(i = 1 \/ i = 2 \/ i = 3 \/ i = 4 \/ i = 5)
          PROVE  \E k \in 1 .. n : i = 5 + k
      <3>1. i - 5 \in 1 .. n /\ i = 5 + (i - 5)
        BY <1>1, <2>1
      <3>. QED BY <3>1
    <2>. QED BY <2>1
  <1> HIDE DEF n
  <1>6. ASSUME NEW x \in Range(fromMgr) \cup Mine(sendMgr)
        PROVE  \E i \in 1 .. (5 + n) : x \in Places[i]
    <2>1. x \in Places[1] \/ x \in Places[2] \/ x \in Places[3] \/ x \in Places[4] \/ x \in Places[5]
      BY PlacesAre DEF Mine, InUse
    <2>. QED BY <1>4, <2>1
  <1>7. ASSUME NEW x \in Back(toMgr)
        PROVE  \E i \in 1 .. (5 + n) : x \in Places[i]
    <2>1. PICK i \in 1 .. n : x \in IdsOf(toMgr[i])
      BY <1>1 DEF Back
    <2>. QED BY <1>3, <2>1
  <1>8. ASSUME NEW i \in 1 .. (5 + n), NEW x \in Places[i]
        PROVE  x \in mgrHeld
    <2>1. CASE i = 1 \/ i = 2 \/ i = 3 \/ i = 4 \/ i = 5
      BY <1>0, <2>1, PlacesAre DEF Mine, InUse
    <2>2. CASE \E k \in 1 .. n : i = 5 + k
      <3>1. PICK k \in 1 .. n : i = 5 + k
        BY <2>2
      <3>2. x \in IdsOf(toMgr[k]) /\ k \in DOMAIN toMgr
        BY <1>1, <1>3, <3>1
      <3>. QED BY <1>0, <3>2 DEF Back
    <2>. QED BY <1>5, <2>1, <2>2
  <1>9. \A x : x \in mgrHeld <=> x \in UNION Range(Places)
    BY <1>0, <1>2, <1>6, <1>7, <1>8
  <1>. QED BY <1>9

(***************************************************************************)
(* A slab that the manager counts as this producer's is never lost, never  *)
(* in two places, and SlabsHeld() counts the ones that arrived: AddFree-   *)
(* Slabs, GetMessageDescriptor, ReleaseMessageDescriptor, MaxWorkingSlabs  *)
(* and GetRetiredSlabs keep SlabsAccounted, for every number of slabs,     *)
(* blocks and messages on the sockets.                                     *)
(***************************************************************************)
THEOREM SlabsAlwaysAccounted == Spec => []SlabsAccounted
  <1>1. SendInv => SlabsAccounted
    <2> SUFFICES ASSUME SendInv
                 PROVE  SlabsAccounted
      OBVIOUS
    <2>1. /\ sendMgr \in SendState /\ MgrOK(sendMgr) /\ IsInjective(fromMgr)
          /\ IsInjective(sendMgr.freeSlabs) /\ IsInjective(sendMgr.workingSlabs)
      BY DEF SendInv, MgrOK, FilesOK, NetOK
    <2>2. \A i, j \in DOMAIN Places : i # j => Places[i] \cap Places[j] = {}
      <3> SUFFICES ASSUME NEW i \in DOMAIN Places, NEW j \in DOMAIN Places, i # j
                   PROVE  Places[i] \cap Places[j] = {}
        OBVIOUS
      <3>1. i \in Nat /\ j \in Nat
        BY PlacesAre
      <3>2. i < j \/ j < i
        BY <3>1
      <3>3. CASE i < j
        BY <3>3, PlacesApart
      <3>4. CASE j < i
        <4>1. Places[j] \cap Places[i] = {}
          BY <3>4, PlacesApart
        <4>. QED BY <4>1
      <3>. QED BY <3>2, <3>3, <3>4
    <2>. QED BY <2>1, <2>2, PlacesAreAll, HeldIsCounted DEF SlabsAccounted
  <1>. QED BY <1>1, AlwaysSendInv, PTL

(***************************************************************************)
(* A slab's refcount is the number of descriptors that point into it, and  *)
(* a slab goes to retiredSlabs, and back to the manager, only when this is *)
(* zero: no descriptor of the program is left pointing into it.            *)
(***************************************************************************)
THEOREM RetiredOnlyWhenIdle == Spec => []RetiredWhenIdle
  <1>1. SendInv => RetiredWhenIdle
    <2> SUFFICES ASSUME SendInv
                 PROVE  RetiredWhenIdle
      OBVIOUS
    <2>1. DescsOK(descs, sendMgr) /\ CountsOK(sendMgr)
      BY DEF SendInv, MgrOK
    <2>2. \A d \in descs : SlabsOf(d) \subseteq InUse(sendMgr)
      BY <2>1 DEF DescsOK, DescOK, SlabsOf
    <2>3. \A s \in sendMgr.fullSlabs : sendMgr.refcount[s] > 0
      BY <2>1 DEF CountsOK
    <2>4. \A s \in Range(sendMgr.freeSlabs) \cup InUse(sendMgr) :
            sendMgr.refcount[s] = Cardinality({d \in descs : s \in SlabsOf(d)})
      BY <2>1 DEF DescsOK, Users
    <2>. QED BY <2>2, <2>3, <2>4 DEF RetiredWhenIdle, InUse
  <1>. QED BY <1>1, AlwaysSendInv, PTL

(***************************************************************************)
(* While the client has a slab, no block of it is handed out twice, within *)
(* the slab's bounds, and a descriptor never has two segments in one slab: *)
(* blocksUsed, which Alloc advances and AddFreeSlabs resets, is the end of *)
(* all that was cut.                                                       *)
(***************************************************************************)
THEOREM BlocksNeverShared == Spec => []BlocksApart
  <1>1. SendInv => BlocksApart
    BY DEF SendInv, HandedOK, Apart, DescsOK, DescOK, BlocksApart
  <1>. QED BY <1>1, AlwaysSendInv, PTL

(***************************************************************************)
(* SendMessage sends the blocks before SendRetiredSlabs, and releases the  *)
(* descriptor after it: on the socket no slab is returned ahead of blocks  *)
(* of it, so that the manager never sees blocks of a slab that is no       *)
(* longer this producer's.                                                 *)
(***************************************************************************)
THEOREM BlocksPublishedFirst == Spec => []PublishedBeforeReturn
  <1>1. SendInv => PublishedBeforeReturn
    <2>1. \A m : m.type = "slabs" => IdsOf(m) = m.ids
      BY DEF IdsOf
    <2>. QED BY <2>1 DEF SendInv, Published, PublishedBeforeReturn
  <1>. QED BY <1>1, AlwaysSendInv, PTL

(***************************************************************************)
(* GetSendMsgDesc's exception for want of slabs is never raised to a       *)
(* program that has given all descriptors back and asks for no more than   *)
(* the reservation holds: MaxWorkingSlabs and the squeeze leave no slab    *)
(* stranded half used.                                                     *)
(***************************************************************************)
THEOREM NeverRefusedNeedlessly == Spec => []NoNeedlessFailure
  <1>1. SendInv => NoNeedlessFailure
    BY DEF SendInv, NoNeedlessFailure
  <1>. QED BY <1>1, AlwaysSendInv, PTL

============================================================================
