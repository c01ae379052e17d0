--------------------------- MODULE ShmBuffersProofs ---------------------------
(***************************************************************************)
(* Proofs about ShmBuffers, for every number of clients, buffers, starts   *)
(* and connections and for every size:                                     *)
(*   NamesCleanedUp  what a manager leaves in the names of shared memory,  *)
(*   MemoryMapped    what a client looks into is there, until another      *)
(*                   manager is started,                                   *)
(*   OnlyRestartsKill  and only then can it die of SIGBUS,                 *)
(*   BytesAgree      manager and client mean the same bytes by an ID.      *)
(*                                                                         *)
(* The invariant has a part of the manager, ManagerOK, which its own steps *)
(* keep whatever the clients do, and one for each client, CltOK, which     *)
(* relates the client to the manager and to the segments.  The operators   *)
(* take the records they speak of as parameters: mgr and mgr', or a client *)
(* before and after a step.                                                *)
(***************************************************************************)
EXTENDS ShmBuffers, CommonFacts

\* Types of what the variables hold.
Segment  == Int \X Nat
SegList  == Seq(Segment)
Proxy    == [reserved : Nat, slab : Int]
Proxies  == UNION {[D -> Proxy] : D \in SUBSET Clients}
SegState == [sized : BOOLEAN, valid : BOOLEAN, fields : BOOLEAN, numBuffers : Nat]

\* In IncreaseNumBuffers: the next buffer has its name and is not complete; or is not yet
\* appended to headerVec.
Made    == {"truncate", "header", "fields"}
Growing == {"open"} \cup Made

\* The type of the manager.
MgrState ==
  [pc : {"down", "loop", "reserve", "publish", "lock"} \cup Growing, start : Nat,
   headerVec : SegList, lockErrors : BOOLEAN, slabBuffers : Nat, target : Nat,
   for : Clients \cup {None}, proxies : Proxies, clean : BOOLEAN]

\* The manager by itself.  IncreaseNumBuffers never goes beyond its target, nor that
\* beyond maxNumBuffers; a NumSlabs is handled for a client that is connected.
MgrOK(m) ==
  /\ m \in MgrState
  /\ m.pc # "down" => m.start >= 1
  /\ m.pc = "down" => m.headerVec = <<>> /\ DOMAIN m.proxies = {} /\ m.for = None
  /\ m.pc = "loop" => m.for = None
  /\ m.pc = "reserve" => m.for # None
  /\ m.for # None => m.for \in DOMAIN m.proxies
  /\ m.pc \in Growing => Len(m.headerVec) < m.target
  /\ m.pc \in {"publish", "lock"} => Len(m.headerVec) \in 1..m.target
  /\ m.pc \in Growing \cup {"publish", "lock"} => m.target <= maxNumBuffers
  /\ Len(m.headerVec) <= maxNumBuffers

\* ShmAssumption, as the provers like it.
LEMMA Constants ==
  /\ numBuffers \in Nat /\ maxNumBuffers \in Nat /\ Need \in Nat
  /\ None \notin Clients
  BY ShmAssumption

\* The map of the proxies: no proxy; one more; one less; one changed.
LEMMA ProxiesEmpty == <<>> \in Proxies /\ DOMAIN <<>> = {}
  <1>1. <<>> \in [{} -> Proxy]
    OBVIOUS
  <1>2. QED BY <1>1 DEF Proxies

\* Accept adds a proxy.
LEMMA ProxiesWith ==
  ASSUME NEW p \in Proxies, NEW c \in Clients, NEW x \in Proxy
  PROVE  FnWith(p, c, x) \in Proxies /\ DOMAIN FnWith(p, c, x) = DOMAIN p \cup {c}
  <1>1. PICK D \in SUBSET Clients : p \in [D -> Proxy]
    BY DEF Proxies
  <1>2. FnWith(p, c, x) \in [D \cup {c} -> Proxy]
    BY <1>1 DEF FnWith
  <1>3. QED BY <1>1, <1>2 DEF Proxies

\* A client that is disconnected loses its proxy.
LEMMA ProxiesWithout ==
  ASSUME NEW p \in Proxies, NEW c
  PROVE  FnWithout(p, c) \in Proxies /\ DOMAIN FnWithout(p, c) = DOMAIN p \ {c}
  <1>1. PICK D \in SUBSET Clients : p \in [D -> Proxy]
    BY DEF Proxies
  <1>2. FnWithout(p, c) \in [D \ {c} -> Proxy]
    BY <1>1 DEF FnWithout
  <1>3. QED BY <1>1, <1>2 DEF Proxies

\* A reservation changes one proxy.
LEMMA ProxiesExcept ==
  ASSUME NEW p \in Proxies, NEW c \in DOMAIN p, NEW x \in Proxy
  PROVE  [p EXCEPT ![c] = x] \in Proxies /\ DOMAIN [p EXCEPT ![c] = x] = DOMAIN p
  <1>1. PICK D \in SUBSET Clients : p \in [D -> Proxy]
    BY DEF Proxies
  <1>2. [p EXCEPT ![c] = x] \in [D -> Proxy]
    BY <1>1
  <1>3. QED BY <1>1, <1>2 DEF Proxies

\* A manager that has ended.
LEMMA EndedOK ==
  ASSUME MgrOK(mgr), NEW clean \in BOOLEAN
  PROVE  MgrOK(Ended(clean))
  <1>1. <<>> \in SegList
    BY DEF SegList
  <1>2. Ended(clean) \in MgrState
    BY <1>1, ProxiesEmpty DEF MgrOK, MgrState, Ended
  <1>. QED
    BY <1>1, <1>2, ProxiesEmpty, ShmAssumption DEF MgrOK, MgrState, Ended, Growing, Made

\* CreateAndMap appends to headerVec.
LEMMA AppendSeg ==
  ASSUME NEW q \in SegList, NEW s \in Segment
  PROVE  /\ Append(q, s) \in SegList /\ Append(q, s) # <<>>
         /\ Len(Append(q, s)) = Len(q) + 1 /\ Len(q) \in Nat
         /\ DOMAIN Append(q, s) = 1..(Len(q) + 1)
         /\ DOMAIN q = 1..Len(q)
         /\ \A i \in 1..Len(q) : Append(q, s)[i] = q[i]
         /\ Append(q, s)[Len(q) + 1] = s
  BY DEF SegList

\* A headerVec of no buffer.
LEMMA EmptyList == <<>> \in SegList /\ Len(<<>>) = 0 /\ DOMAIN <<>> = {}
  BY DEF SegList

\* After an exception in IncreaseNumBuffers.
LEMMA ThrowMgr ==
  ASSUME MgrOK(mgr), NEW nms, mgr.pc \in Growing \cup {"lock"}, Throw(nms, mgr.headerVec)
  PROVE  MgrOK(mgr')
  <1>1. CASE mgr.for = None
    BY <1>1, EndedOK DEF Throw
  <1>2. CASE mgr.for # None
    <2>1. mgr' = [mgr EXCEPT !.pc = "loop", !.headerVec = mgr.headerVec, !.for = None,
                             !.proxies = FnWithout(mgr.proxies, mgr.for)]
      BY <1>2 DEF Throw
    <2>2. FnWithout(mgr.proxies, mgr.for) \in Proxies
      BY ProxiesWithout DEF MgrOK, MgrState
    <2>3. mgr' \in MgrState
      BY <2>1, <2>2 DEF MgrOK, MgrState
    <2>. QED
      BY <2>1, <2>3 DEF MgrOK, MgrState, Growing, Made
  <1>. QED BY <1>1, <1>2

\* A step of a client changes nothing but the client.
LEMMA RunsBecome ==
  ASSUME NEW c \in Clients, Runs(c)
  PROVE  \E r : Become(c, r)
  <1>1. CASE CloseCall(c) \/ ValidHeader(c) \/ MapFirst(c) \/ MapBuffers(c)
    BY <1>1, Zenon DEF CloseCall, ValidHeader, MapFirst, MapBuffers, Close, Dies, Returns
  <1>2. CASE Map(c) \/ MapAsserts(c) \/ NumSlabs(c) \/ SendBlock(c)
    BY <1>2, Zenon DEF Map, MapAsserts, NumSlabs, SendBlock, Close, Dies, Returns
  <1>3. CASE Poll(c)
    BY <1>3, Zenon DEF Poll, Close, FirstHeader
  <1>. QED BY <1>1, <1>2, <1>3 DEF Runs

\* Every step keeps the manager in order, by itself.
LEMMA MgrStep ==
  ASSUME MgrOK(mgr), [Next]_vars
  PROVE  MgrOK(mgr')
  <1> USE Constants
  <1>1. CASE Start
    <2> DEFINE k == mgr.start + 1
    <2>1. /\ mgr.pc = "down" /\ k \in Nat /\ k >= 1
          /\ mgr' = [mgr EXCEPT !.start = k, !.slabBuffers = numBuffers,
                                !.target = numBuffers, !.clean = TRUE,
                                !.pc = IF numBuffers \in 1..maxNumBuffers THEN "open" ELSE "loop"]
      BY <1>1 DEF Start, MgrOK, MgrState
    <2> HIDE DEF k
    <2>2. CASE numBuffers \in 1..maxNumBuffers
      <3>1. mgr' = [mgr EXCEPT !.start = k, !.slabBuffers = numBuffers,
                               !.target = numBuffers, !.clean = TRUE, !.pc = "open"]
        BY <2>1, <2>2
      <3>2. mgr' \in MgrState /\ mgr'.headerVec = <<>> /\ mgr'.for = None /\ mgr'.pc = "open"
            /\ mgr'.target = numBuffers /\ mgr'.start = k
        BY <2>1, <3>1 DEF MgrOK, MgrState, Growing
      <3>. QED
        BY <2>1, <2>2, <3>2, EmptyList DEF MgrOK, Growing, Made
    <2>3. CASE numBuffers \notin 1..maxNumBuffers
      <3>1. mgr' = [mgr EXCEPT !.start = k, !.slabBuffers = numBuffers,
                               !.target = numBuffers, !.clean = TRUE, !.pc = "loop"]
        BY <2>1, <2>3
      <3>2. mgr' \in MgrState /\ mgr'.headerVec = <<>> /\ mgr'.for = None /\ mgr'.pc = "loop"
            /\ mgr'.start = k
        BY <2>1, <3>1 DEF MgrOK, MgrState
      <3>. QED
        BY <2>1, <3>2, EmptyList DEF MgrOK, Growing, Made
    <2>. QED BY <2>2, <2>3
  <1>2. CASE OpenShm
    <2>1. CASE mgr' = [mgr EXCEPT !.pc = "truncate"]
      BY <1>2, <2>1 DEF OpenShm, MgrOK, MgrState, Growing, Made
    <2>2. CASE Throw(names, mgr.headerVec)
      BY <1>2, <2>2, ThrowMgr DEF OpenShm, Growing
    <2>. QED BY <1>2, <2>1, <2>2 DEF OpenShm
  <1>3. CASE Truncate
    <2>1. CASE mgr' = [mgr EXCEPT !.pc = "header"]
      BY <1>3, <2>1 DEF Truncate, MgrOK, MgrState, Growing, Made
    <2>2. CASE CreateFails
      BY <1>3, <2>2, ThrowMgr DEF Truncate, CreateFails, Growing, Made
    <2>. QED BY <1>3, <2>1, <2>2 DEF Truncate
  <1>4. CASE WriteHeader
    <2>1. CASE mgr.pc = "header"
      <3>1. mgr' = [mgr EXCEPT !.pc = "fields"]
        BY <1>4, <2>1 DEF WriteHeader
      <3>. QED
        BY <2>1, <3>1 DEF MgrOK, MgrState, Growing, Made
    <2>2. CASE mgr.pc = "fields"
      <3>1. mgr' = [mgr EXCEPT !.pc = "publish",
                       !.headerVec = Append(mgr.headerVec, <<mgr.start, NextBuffer>>)]
        BY <1>4, <2>2 DEF WriteHeader
      <3>2. <<mgr.start, NextBuffer>> \in Segment /\ mgr.headerVec \in SegList
        BY AppendSeg DEF MgrOK, MgrState, NextBuffer, Segment, SegList
      <3>3. mgr' \in MgrState
        BY <3>1, <3>2, AppendSeg DEF MgrOK, MgrState
      <3>4. /\ mgr'.pc = "publish" /\ mgr'.start = mgr.start /\ mgr'.for = mgr.for
            /\ mgr'.proxies = mgr.proxies /\ mgr'.target = mgr.target
            /\ Len(mgr'.headerVec) = Len(mgr.headerVec) + 1 /\ Len(mgr.headerVec) \in Nat
        BY <3>1, <3>2, AppendSeg DEF MgrOK, MgrState
      <3>. QED
        <4>1. Len(mgr.headerVec) < mgr.target /\ mgr.target <= maxNumBuffers /\ mgr.target \in Nat
          BY <2>2 DEF MgrOK, MgrState, Growing, Made
        <4>2. Len(mgr'.headerVec) \in 1..mgr'.target /\ Len(mgr'.headerVec) <= maxNumBuffers
          BY <3>4, <4>1
        <4>3. mgr'.for # None => mgr'.for \in DOMAIN mgr'.proxies
          BY <3>4 DEF MgrOK
        <4>4. mgr'.start >= 1
          BY <2>2, <3>4 DEF MgrOK
        <4>. QED
          BY <3>3, <3>4, <4>1, <4>2, <4>3, <4>4 DEF MgrOK, Growing, Made
    <2>. QED BY <1>4, <2>1, <2>2 DEF WriteHeader
  <1>5. CASE Publish
    BY <1>5 DEF Publish, MgrOK, MgrState, Growing, Made
  <1>6. CASE Lock
    <2>1. PICK fails \in BOOLEAN :
            LET m == [mgr EXCEPT !.lockErrors = @ \/ fails]
            IN  IF NextBuffer < m.target
                THEN mgr' = [m EXCEPT !.pc = "open"] /\ UNCHANGED <<names, clt>>
                ELSE IF m.lockErrors /\ ~allowUnlockedMemory THEN Throw(names, m.headerVec)
                ELSE Announce(m)
      BY <1>6 DEF Lock
    <2> DEFINE m == [mgr EXCEPT !.lockErrors = @ \/ fails]
    <2>2. /\ m \in MgrState /\ m.headerVec = mgr.headerVec /\ m.pc = mgr.pc /\ m.for = mgr.for
          /\ m.target = mgr.target /\ m.start = mgr.start /\ m.proxies = mgr.proxies
          /\ m.slabBuffers = mgr.slabBuffers
      BY <2>1 DEF MgrOK, MgrState
    <2>3. MgrOK(m) /\ m.pc = "lock"
      BY <1>6, <2>2 DEF MgrOK, MgrState, Growing, Made, Lock
    <2> HIDE DEF m
    <2>4. CASE NextBuffer < m.target /\ mgr' = [m EXCEPT !.pc = "open"]
      BY <2>2, <2>3, <2>4 DEF MgrOK, MgrState, Growing, Made, NextBuffer
    <2>5. CASE Throw(names, m.headerVec)
      BY <1>6, <2>2, <2>5, ThrowMgr DEF Lock
    <2>6. CASE Announce(m)
      BY <2>2, <2>3, <2>6 DEF Announce, MgrOK, MgrState, Growing, Made
    <2>. QED BY <2>1, <2>4, <2>5, <2>6 DEF m
  <1>7. CASE Reserve
    <2>1. /\ mgr.for \in DOMAIN mgr.proxies /\ mgr.proxies \in Proxies /\ mgr.pc = "reserve"
          /\ Need \in Nat
      BY <1>7 DEF Reserve, MgrOK, MgrState
    <2>2. ASSUME NEW slab \in Int,
                 mgr' = [mgr EXCEPT !.pc = "loop", !.for = None,
                             !.proxies[mgr.for] = [reserved |-> Need, slab |-> slab]]
          PROVE  MgrOK(mgr')
      <3>1. [reserved |-> Need, slab |-> slab] \in Proxy
        BY <2>1 DEF Proxy
      <3> DEFINE q == [mgr.proxies EXCEPT ![mgr.for] = [reserved |-> Need, slab |-> slab]]
      <3>2. q \in Proxies
        BY <2>1, <3>1, ProxiesExcept
      <3>3. mgr' = [mgr EXCEPT !.pc = "loop", !.for = None, !.proxies = q]
        BY <2>2 DEF MgrOK, MgrState
      <3> HIDE DEF q
      <3>. QED
        BY <2>1, <3>2, <3>3 DEF MgrOK, MgrState, Growing, Made
    <2>3. CASE /\ Len(mgr.headerVec) + 1 <= maxNumBuffers
               /\ mgr' = [mgr EXCEPT !.pc = "open", !.target = Len(mgr.headerVec) + 1]
      <3>1. Len(mgr.headerVec) \in Nat
        BY AppendSeg DEF MgrOK, MgrState, SegList
      <3>2. mgr' \in MgrState
        <4> DEFINE n == Len(mgr.headerVec) + 1
        <4>1. n \in Nat /\ mgr' = [mgr EXCEPT !.pc = "open", !.target = n]
          BY <2>3, <3>1
        <4> HIDE DEF n
        <4>. QED BY <4>1 DEF MgrOK, MgrState, Growing
      <3>. QED
        BY <2>1, <2>3, <3>1, <3>2 DEF MgrOK, MgrState, Growing, Made
    <2>4. CASE mgr' = [mgr EXCEPT !.pc = "loop", !.for = None,
                                  !.proxies = FnWithout(mgr.proxies, mgr.for)]
      BY <2>1, <2>4, ProxiesWithout DEF MgrOK, MgrState, Growing, Made
    <2>5. \A c \in DOMAIN mgr.proxies : mgr.proxies[c].slab \in Int
      BY <2>1 DEF Proxies, Proxy
    <2>6. FreeSlabs \subseteq Int
      BY DEF FreeSlabs, Slabs
    <2>. QED BY <1>7, <2>1, <2>2, <2>3, <2>4, <2>5, <2>6 DEF Reserve
  <1>8. CASE Stop
    BY <1>8, EndedOK DEF Stop
  <1>9. CASE Killed
    BY <1>9, EndedOK DEF Killed
  <1>10. ASSUME NEW c \in Clients, Readable(c)
         PROVE  MgrOK(mgr')
    <2>1. /\ mgr.pc = "loop" /\ mgr.proxies \in Proxies
      BY <1>10 DEF Readable, MgrOK, MgrState
    <2>2. CASE mgr' = [mgr EXCEPT !.proxies = FnWithout(mgr.proxies, c)]
      BY <2>1, <2>2, ProxiesWithout DEF MgrOK, MgrState, Growing, Made
    <2>3. CASE mgr' = [mgr EXCEPT !.pc = "reserve", !.for = c]
      BY <1>10, <2>1, <2>3 DEF Readable, MgrOK, MgrState, Growing, Made
    <2>4. CASE UNCHANGED mgr
      BY <2>4
    <2>. QED BY <1>10, <2>2, <2>3, <2>4 DEF Readable
  <1>11. ASSUME NEW c \in Clients, Accept(c)
         PROVE  MgrOK(mgr')
    <2>1. [reserved |-> 0, slab |-> -1] \in Proxy
      BY DEF Proxy
    <2>2. /\ mgr' = [mgr EXCEPT !.proxies = FnWith(mgr.proxies, c, [reserved |-> 0, slab |-> -1])]
          /\ mgr.pc = "loop" /\ mgr.proxies \in Proxies
      BY <1>11 DEF Accept, MgrOK, MgrState
    <2>. QED
      BY <2>1, <2>2, ProxiesWith DEF MgrOK, MgrState, Growing, Made
  <1>12. CASE UNCHANGED mgr
    BY <1>12
  <1>13. ASSUME NEW c \in Clients, Runs(c)
         PROVE  UNCHANGED mgr
    BY <1>13, RunsBecome DEF Become
  <1>. QED
    BY <1>1, <1>2, <1>3, <1>4, <1>5, <1>6, <1>7, <1>8, <1>9, <1>10, <1>11, <1>12, <1>13
    DEF Next, Manages, vars

\* The name of a buffer is that of a segment made for this buffer, by this start or an
\* earlier one.  The buffers in headerVec, and the one being made, have the name; no other
\* name is of this start, unless the manager was killed.
NameOK(m, nm, b) ==
  /\ nm[b] = NoSeg \/ (\E k \in Int : k <= m.start /\ nm[b] = <<k, b>>)
  /\ b < Len(m.headerVec) => nm[b] = <<m.start, b>>
  /\ (m.pc \in Made /\ b = Len(m.headerVec)) => nm[b] = <<m.start, b>>
  /\ ((m.pc # "down" \/ m.clean) /\ nm[b] = <<m.start, b>>)
       => b < Len(m.headerVec) \/ (m.pc \in Made /\ b = Len(m.headerVec))

\* The names of all buffers.
NamesOK(m, nm) == DOMAIN nm = Buffers /\ \A b \in Buffers : NameOK(m, nm, b)

\* What most steps need of MgrOK.
LEMMA MgrFacts ==
  ASSUME MgrOK(mgr)
  PROVE  /\ mgr.start \in Nat /\ Len(mgr.headerVec) \in Nat /\ mgr.headerVec \in SegList
         /\ NextBuffer = Len(mgr.headerVec)
         /\ mgr.pc \in Growing => NextBuffer \in Buffers
  <1>1. mgr.start \in Nat /\ mgr.headerVec \in SegList /\ mgr.target \in Nat
    BY DEF MgrOK, MgrState
  <1>2. Len(mgr.headerVec) \in Nat
    BY <1>1 DEF SegList
  <1>. QED BY <1>1, <1>2, Constants DEF NextBuffer, Buffers, MgrOK

\* A segment is not NoSeg.
LEMMA NotNoSeg == \A k, b : <<k, b>> # NoSeg
  BY DEF NoSeg

\* What a manager that has ended leaves in its fields.
LEMMA EndedFields ==
  ASSUME MgrOK(mgr), NEW clean \in BOOLEAN
  PROVE  /\ Ended(clean).pc = "down" /\ Ended(clean).start = mgr.start
         /\ Ended(clean).headerVec = <<>> /\ Ended(clean).clean = clean
         /\ Ended(clean).for = None /\ Ended(clean).proxies = <<>>
  BY DEF MgrOK, MgrState, Ended

\* The names after an exception: those of headerVec are unlinked if the manager ends.
LEMMA ThrowNames ==
  ASSUME MgrOK(mgr), DOMAIN names = Buffers, NEW nms, DOMAIN nms = Buffers,
         mgr.pc \in Growing \cup {"lock"}, Throw(nms, mgr.headerVec),
         \A b \in Buffers : NameOK(mgr, names, b),
         \A b \in Buffers : nms[b] = IF b = NextBuffer /\ mgr.pc \in Made THEN NoSeg ELSE names[b]
  PROVE  NamesOK(mgr', names')
  <1> USE MgrFacts, NotNoSeg
  <1>1. CASE mgr.for = None
    <2>1. mgr' = Ended(TRUE) /\ names' = [b \in Buffers |-> IF b < Len(mgr.headerVec) THEN NoSeg ELSE nms[b]]
      BY <1>1 DEF Throw
    <2>2. mgr'.pc = "down" /\ mgr'.start = mgr.start /\ mgr'.headerVec = <<>>
      BY <2>1, EndedFields
    <2>3. mgr.pc # "down"
      BY DEF Growing, Made
    <2>4. ASSUME NEW b \in Buffers
          PROVE  NameOK(mgr', names', b)
      <3>1. b \in Nat /\ NameOK(mgr, names, b)
        BY DEF Buffers
      <3>2. names'[b] = NoSeg \/ (names'[b] = names[b] /\ names[b] # <<mgr.start, b>>)
        BY <2>1, <2>3, <3>1 DEF NameOK
      <3>3. names'[b] # <<mgr.start, b>>
        BY <3>2
      <3>4. names'[b] = NoSeg \/ (\E k \in Int : k <= mgr.start /\ names'[b] = <<k, b>>)
        BY <3>1, <3>2 DEF NameOK
      <3>. QED
        BY <2>2, <3>1, <3>3, <3>4, EmptyList DEF NameOK, Made
    <2>. QED
      BY <2>1, <2>4 DEF NamesOK
  <1>2. CASE mgr.for # None
    <2>1. names' = nms /\ mgr' = [mgr EXCEPT !.pc = "loop", !.headerVec = mgr.headerVec, !.for = None,
                                             !.proxies = FnWithout(mgr.proxies, mgr.for)]
      BY <1>2 DEF Throw
    <2>2. mgr'.pc = "loop" /\ mgr'.start = mgr.start /\ mgr'.headerVec = mgr.headerVec
      BY <2>1 DEF MgrOK, MgrState
    <2>3. mgr.pc # "down"
      BY DEF Growing, Made
    <2>4. ASSUME NEW b \in Buffers
          PROVE  NameOK(mgr', names', b)
      <3>1. b \in Nat /\ NameOK(mgr, names, b)
        BY DEF Buffers
      <3>2. CASE names'[b] = names[b] /\ ~(b = NextBuffer /\ mgr.pc \in Made)
        BY <2>2, <2>3, <3>1, <3>2 DEF NameOK, Made
      <3>3. CASE names'[b] = NoSeg /\ b = NextBuffer
        BY <2>2, <2>3, <3>1, <3>3 DEF NameOK, Made
      <3>. QED
        BY <2>1, <3>2, <3>3
    <2>. QED
      BY <2>1, <2>4 DEF NamesOK
  <1>. QED BY <1>1, <1>2

\* a step that changes neither the names nor what they depend on
LEMMA NamesSame ==
  ASSUME NamesOK(mgr, names), names' = names,
         mgr'.start = mgr.start, mgr'.headerVec = mgr.headerVec, mgr'.clean = mgr.clean,
         (mgr'.pc = "down") <=> (mgr.pc = "down"), (mgr'.pc \in Made) <=> (mgr.pc \in Made)
  PROVE  NamesOK(mgr', names')
  BY DEF NamesOK, NameOK

\* Every step keeps the names in order: they are made in OpenShm, and unlinked when the
\* buffer fails, when the manager ends, and by force.
LEMMA NamesStep ==
  ASSUME MgrOK(mgr), NamesOK(mgr, names), [Next]_vars
  PROVE  NamesOK(mgr', names')
  <1> USE MgrFacts, NotNoSeg, Constants
  <1>0. DOMAIN names = Buffers /\ \A b \in Buffers : NameOK(mgr, names, b)
    BY DEF NamesOK
  <1>1. CASE Start
    <2>1. names' = names /\ mgr'.start = mgr.start + 1 /\ mgr'.headerVec = mgr.headerVec
          /\ mgr'.pc \in {"open", "loop"} /\ mgr.pc = "down"
      BY <1>1 DEF Start, MgrOK, MgrState
    <2>2. mgr'.headerVec = <<>>
      BY <2>1 DEF MgrOK
    <2>3. ASSUME NEW b \in Buffers
          PROVE  NameOK(mgr', names', b)
      <3>1. b \in Nat /\ NameOK(mgr, names, b)
        BY <1>0 DEF Buffers
      <3>2. names[b] = NoSeg \/ (\E k \in Int : k <= mgr.start /\ names[b] = <<k, b>>)
        BY <3>1 DEF NameOK
      <3>3. names[b] # <<mgr.start + 1, b>>
        <4>1. ASSUME NEW k \in Int, k <= mgr.start
              PROVE  <<k, b>> # <<mgr.start + 1, b>>
          <5>1. k # mgr.start + 1
            BY <4>1
          <5>. QED BY <5>1
        <4>. QED BY <3>2, <4>1
      <3>4. names[b] = NoSeg \/ (\E k \in Int : k <= mgr.start + 1 /\ names[b] = <<k, b>>)
        BY <3>2
      <3>. QED
        BY <2>1, <2>2, <3>1, <3>3, <3>4, EmptyList DEF NameOK, Made
    <2>. QED
      BY <1>0, <2>1, <2>3 DEF NamesOK
  <1>2. CASE OpenShm
    <2>1. CASE /\ names' = [names EXCEPT ![NextBuffer] = <<mgr.start, NextBuffer>>]
               /\ mgr' = [mgr EXCEPT !.pc = "truncate"]
      <3>1. mgr'.pc = "truncate" /\ mgr'.start = mgr.start /\ mgr'.headerVec = mgr.headerVec
        BY <2>1 DEF MgrOK, MgrState
      <3>2. mgr.pc = "open" /\ NextBuffer \in Buffers
        BY <1>2 DEF OpenShm, Growing
      <3>3. names'[NextBuffer] = <<mgr.start, NextBuffer>> /\ DOMAIN names' = Buffers
        BY <1>0, <2>1, <3>2
      <3>4. \A b \in Buffers : b # NextBuffer => names'[b] = names[b]
        BY <1>0, <2>1, <3>2
      <3>. QED
        BY <1>0, <3>1, <3>2, <3>3, <3>4 DEF NamesOK, NameOK, Buffers, Made
    <2>2. CASE Throw(names, mgr.headerVec)
      BY <1>0, <1>2, <2>2, ThrowNames DEF OpenShm, Growing, Made
    <2>. QED BY <1>2, <2>1, <2>2 DEF OpenShm
  <1>3. CASE Truncate
    <2>1. CASE mgr' = [mgr EXCEPT !.pc = "header"] /\ names' = names
      BY <1>3, <2>1, NamesSame DEF Truncate, MgrOK, MgrState, Made
    <2>2. CASE CreateFails
      <3>1. mgr.pc \in Made /\ NextBuffer \in Buffers
        BY <1>3 DEF Truncate, Made, Growing
      <3>2. /\ DOMAIN [names EXCEPT ![NextBuffer] = NoSeg] = Buffers
            /\ \A b \in Buffers : [names EXCEPT ![NextBuffer] = NoSeg][b] =
                 IF b = NextBuffer /\ mgr.pc \in Made THEN NoSeg ELSE names[b]
        BY <1>0, <3>1
      <3>. QED
        BY <1>0, <2>2, <3>1, <3>2, ThrowNames DEF CreateFails, Growing
    <2>. QED BY <1>3, <2>1, <2>2 DEF Truncate
  <1>4. CASE WriteHeader
    <2>1. CASE mgr.pc = "header"
      <3>1. mgr' = [mgr EXCEPT !.pc = "fields"] /\ names' = names
        BY <1>4, <2>1 DEF WriteHeader
      <3>. QED
        BY <2>1, <3>1, NamesSame DEF MgrOK, MgrState, Made
    <2>2. CASE mgr.pc = "fields"
      <3>1. mgr' = [mgr EXCEPT !.pc = "publish",
                       !.headerVec = Append(mgr.headerVec, <<mgr.start, NextBuffer>>)]
            /\ names' = names
        BY <1>4, <2>2 DEF WriteHeader
      <3>2. <<mgr.start, NextBuffer>> \in Segment
        BY DEF Segment
      <3>3. /\ mgr'.pc = "publish" /\ mgr'.start = mgr.start
            /\ Len(mgr'.headerVec) = Len(mgr.headerVec) + 1
        BY <3>1, <3>2, AppendSeg DEF MgrOK, MgrState
      <3>. QED
        BY <1>0, <2>2, <3>1, <3>3 DEF NamesOK, NameOK, Buffers, Made
    <2>. QED BY <1>4, <2>1, <2>2 DEF WriteHeader
  <1>5. CASE Publish
    BY <1>5, NamesSame DEF Publish, MgrOK, MgrState, Made
  <1>6. CASE Lock
    <2>1. PICK fails \in BOOLEAN :
            LET m == [mgr EXCEPT !.lockErrors = @ \/ fails]
            IN  IF NextBuffer < m.target
                THEN mgr' = [m EXCEPT !.pc = "open"] /\ UNCHANGED <<names, clt>>
                ELSE IF m.lockErrors /\ ~allowUnlockedMemory THEN Throw(names, m.headerVec)
                ELSE Announce(m)
      BY <1>6 DEF Lock
    <2> DEFINE m == [mgr EXCEPT !.lockErrors = @ \/ fails]
    <2>2. /\ m \in MgrState /\ m.headerVec = mgr.headerVec
          /\ m.start = mgr.start /\ m.clean = mgr.clean
      BY <2>1 DEF MgrOK, MgrState
    <2>3. mgr.pc = "lock"
      BY <1>6 DEF Lock
    <2> HIDE DEF m
    <2>4. CASE mgr' = [m EXCEPT !.pc = "open"] /\ names' = names
      BY <2>2, <2>3, <2>4, NamesSame DEF MgrState, Made
    <2>5. CASE Throw(names, m.headerVec)
      BY <1>0, <2>2, <2>3, <2>5, ThrowNames DEF Made
    <2>6. CASE Announce(m)
      <3>1. mgr'.start = m.start /\ mgr'.headerVec = m.headerVec /\ mgr'.clean = m.clean
            /\ mgr'.pc \in {"loop", "reserve"} /\ names' = names
        BY <2>2, <2>6 DEF Announce, MgrState
      <3>. QED BY <2>2, <2>3, <3>1, NamesSame DEF Made
    <2>. QED BY <2>1, <2>4, <2>5, <2>6 DEF m
  <1>7. CASE Reserve
    <2>1. mgr'.start = mgr.start /\ mgr'.headerVec = mgr.headerVec /\ mgr'.clean = mgr.clean
          /\ mgr'.pc \in {"loop", "open"} /\ names' = names /\ mgr.pc = "reserve"
      BY <1>7 DEF Reserve, MgrOK, MgrState
    <2>. QED BY <2>1, NamesSame DEF Made
  <1>8. CASE Stop
    <2>1. mgr' = Ended(TRUE) /\ names' = [b \in Buffers |-> IF b < Len(mgr.headerVec) THEN NoSeg ELSE names[b]]
          /\ mgr.pc = "loop"
      BY <1>8 DEF Stop, Unlinked
    <2>2. mgr'.pc = "down" /\ mgr'.start = mgr.start /\ mgr'.headerVec = <<>>
      BY <2>1, EndedFields
    <2>3. ASSUME NEW b \in Buffers
          PROVE  NameOK(mgr', names', b)
      <3>1. b \in Nat /\ NameOK(mgr, names, b)
        BY <1>0 DEF Buffers
      <3>2. names'[b] = NoSeg \/ (names'[b] = names[b] /\ names[b] # <<mgr.start, b>>)
        BY <2>1, <3>1 DEF NameOK, Made
      <3>3. names'[b] # <<mgr.start, b>>
        BY <3>2
      <3>4. names'[b] = NoSeg \/ (\E k \in Int : k <= mgr.start /\ names'[b] = <<k, b>>)
        BY <3>1, <3>2 DEF NameOK
      <3>. QED
        BY <2>2, <3>1, <3>3, <3>4, EmptyList DEF NameOK, Made
    <2>. QED
      BY <2>1, <2>3 DEF NamesOK
  <1>9. CASE Killed
    <2>1. mgr'.pc = "down" /\ mgr'.start = mgr.start /\ mgr'.headerVec = <<>> /\ ~mgr'.clean
          /\ names' = names
      BY <1>9, EndedFields DEF Killed
    <2>. QED
      BY <1>0, <2>1, EmptyList DEF NamesOK, NameOK, Buffers, Made
  <1>10. ASSUME NEW c \in Clients, Readable(c) \/ Accept(c)
         PROVE  NamesOK(mgr', names')
    <2>1. mgr'.start = mgr.start /\ mgr'.headerVec = mgr.headerVec /\ mgr'.clean = mgr.clean
          /\ mgr'.pc \in {"loop", "reserve"} /\ names' = names /\ mgr.pc = "loop"
      BY <1>10 DEF Readable, Accept, MgrOK, MgrState
    <2>. QED BY <2>1, NamesSame DEF Made
  <1>11. CASE UNCHANGED <<mgr, names>>
    BY <1>11
  <1>12. ASSUME NEW c \in Clients, Runs(c)
         PROVE  UNCHANGED <<mgr, names>>
    BY <1>12, RunsBecome DEF Become
  <1>. QED
    BY <1>1, <1>2, <1>3, <1>4, <1>5, <1>6, <1>7, <1>8, <1>9, <1>10, <1>11, <1>12
    DEF Next, Manages, vars

\* NoLeftovers follows from the invariant of manager and names.
LEMMA NoLeftoversFollows == MgrOK(mgr) /\ NamesOK(mgr, names) => NoLeftovers
  <1> SUFFICES ASSUME MgrOK(mgr), NamesOK(mgr, names)
               PROVE  NoLeftovers
    OBVIOUS
  <1> USE MgrFacts, NotNoSeg, Constants
  <1>1. \A b \in Buffers : NameOK(mgr, names, b) /\ b \in Nat
    BY DEF NamesOK, Buffers
  <1>2. \A b \in Buffers : (names[b] # NoSeg /\ names[b][1] = mgr.start) <=> names[b] = <<mgr.start, b>>
    <2> SUFFICES ASSUME NEW b \in Buffers
                 PROVE  (names[b] # NoSeg /\ names[b][1] = mgr.start) <=> names[b] = <<mgr.start, b>>
      OBVIOUS
    <2>1. CASE names[b] = NoSeg
      BY <2>1
    <2>2. ASSUME NEW k \in Int, names[b] = <<k, b>>
          PROVE  (names[b] # NoSeg /\ names[b][1] = mgr.start) <=> names[b] = <<mgr.start, b>>
      <3>1. names[b][1] = k /\ names[b] # NoSeg
        BY <2>2
      <3>. QED BY <2>2, <3>1
    <2>. QED BY <1>1, <2>1, <2>2 DEF NameOK
  <1>3. OwnNames = {b \in Buffers : names[b] = <<mgr.start, b>>}
    BY <1>2 DEF OwnNames
  <1>4. ASSUME mgr.pc = "loop"
        PROVE  OwnNames = 0..(Len(mgr.headerVec) - 1)
    <2>1. \A b \in Buffers : names[b] = <<mgr.start, b>> <=> b < Len(mgr.headerVec)
      BY <1>1, <1>4 DEF NameOK, Made
    <2>2. Len(mgr.headerVec) <= maxNumBuffers
      BY DEF MgrOK
    <2>. QED BY <1>3, <2>1, <2>2 DEF Buffers
  <1>5. ASSUME mgr.pc = "down", mgr.clean
        PROVE  OwnNames = {}
    <2>1. Len(mgr.headerVec) = 0
      BY <1>5, EmptyList DEF MgrOK
    <2>. QED BY <1>1, <1>3, <1>5, <2>1 DEF NameOK, Made
  <1>. QED BY <1>4, <1>5 DEF NoLeftovers

\* The first state; the names that it finds are of start -1.
LEMMA InitMgr == Init => MgrOK(mgr) /\ NamesOK(mgr, names)
  <1> SUFFICES ASSUME Init
               PROVE  MgrOK(mgr) /\ NamesOK(mgr, names)
    OBVIOUS
  <1>1. mgr.pc = "down" /\ mgr.start = 0 /\ mgr.headerVec = <<>> /\ mgr.for = None
        /\ mgr.proxies = <<>> /\ mgr \in MgrState
    BY ProxiesEmpty, EmptyList DEF Init, MgrState
  <1>2. MgrOK(mgr)
    BY <1>1, Constants, EmptyList DEF MgrOK, Growing, Made
  <1>3. PICK old \in StaleNames : names = [b \in Buffers |-> IF b \in old THEN <<-1, b>> ELSE NoSeg]
    BY DEF Init
  <1>4. ASSUME NEW b \in Buffers
        PROVE  NameOK(mgr, names, b)
    <2>1. b \in Nat
      BY DEF Buffers
    <2>2. names[b] = NoSeg \/ names[b] = <<-1, b>>
      BY <1>3
    <2>3. names[b] # <<0, b>>
      BY <2>2, NotNoSeg
    <2>. QED
      BY <1>1, <2>1, <2>2, <2>3, EmptyList DEF NameOK, Made
  <1>. QED BY <1>2, <1>3, <1>4 DEF NamesOK

\* A manager leaves nothing behind: while it serves clients the names of its own are those
\* of the buffers in headerVec, also after CreateAndMap failed for one (ShmMapper::OpenShm,
\* CreateAndMap), and none is left when it ended by its destructors (~ShmMapper): after an
\* exception, or in its loop by SIGINT, SIGTERM, or a SIGSEGV or SIGBUS, whose handlers
\* unlink (Manager.cc).  Any other signal is a kill, and nothing is claimed of what it
\* leaves.  For any sequence of ends, failures and restarts, with force or without.
THEOREM NamesCleanedUp == Spec => []NoLeftovers
  <1> DEFINE Inv == MgrOK(mgr) /\ NamesOK(mgr, names)
  <1>1. Init => Inv
    BY InitMgr
  <1>2. Inv /\ [Next]_vars => Inv'
    BY MgrStep, NamesStep
  <1>3. Inv => NoLeftovers
    BY NoLeftoversFollows
  <1>. QED BY <1>1, <1>2, <1>3, PTL DEF Spec

\* headerVec holds the segments of this start, in order, with their size and a complete
\* header.  The number of buffers in the header of buffer 0 is behind headerVec only
\* between the append and Publish.
SegsOK(m, sg) ==
  /\ \A s \in DOMAIN sg : sg[s] \in SegState
  /\ \A i \in 1..Len(m.headerVec) :
       /\ m.headerVec[i] = <<m.start, i - 1>> /\ <<m.start, i - 1>> \in DOMAIN sg
       /\ sg[<<m.start, i - 1>>].sized /\ sg[<<m.start, i - 1>>].fields
  /\ m.pc \in Made => /\ <<m.start, Len(m.headerVec)>> \in DOMAIN sg
                      /\ sg[<<m.start, Len(m.headerVec)>>].numBuffers = 0
  /\ m.pc \in {"header", "fields"} => sg[<<m.start, Len(m.headerVec)>>].sized
  /\ Len(m.headerVec) > 0 => sg[<<m.start, 0>>].numBuffers =
       IF m.pc = "publish" THEN Len(m.headerVec) - 1 ELSE Len(m.headerVec)

\* A step that changes no segment, and keeps or drops headerVec.
LEMMA SegsSame ==
  ASSUME SegsOK(mgr, segs), segs' = segs, mgr'.headerVec = mgr.headerVec \/ mgr'.headerVec = <<>>,
         mgr'.start = mgr.start \/ mgr'.headerVec = <<>>,
         mgr'.pc \notin Made, mgr'.pc # "publish", mgr.pc # "publish"
  PROVE  SegsOK(mgr', segs')
  <1>1. CASE mgr'.headerVec = <<>>
    BY <1>1, EmptyList DEF SegsOK, Made
  <1>2. CASE mgr'.headerVec = mgr.headerVec /\ mgr'.start = mgr.start
    BY <1>2 DEF SegsOK, Made
  <1>. QED BY <1>1, <1>2

\* An exception changes no segment.
LEMMA ThrowSegs ==
  ASSUME MgrOK(mgr), SegsOK(mgr, segs), NEW nms, mgr.pc \in Growing \cup {"lock"},
         Throw(nms, mgr.headerVec), segs' = segs
  PROVE  SegsOK(mgr', segs')
  <1>1. mgr.pc # "publish"
    BY DEF Growing, Made
  <1>2. CASE mgr.for = None
    BY <1>1, <1>2, EndedFields, SegsSame DEF Throw, Made
  <1>3. CASE mgr.for # None
    BY <1>1, <1>3, SegsSame DEF Throw, Made, MgrOK, MgrState
  <1>. QED BY <1>2, <1>3

\* one field of a segment changes
LEMMA SegField ==
  ASSUME SegsOK(mgr, segs), NEW s \in DOMAIN segs
  PROVE  /\ \A t \in DOMAIN segs : t # s => /\ [segs EXCEPT ![s].sized = TRUE][t] = segs[t]
                                            /\ [segs EXCEPT ![s].valid = TRUE][t] = segs[t]
                                            /\ [segs EXCEPT ![s].fields = TRUE][t] = segs[t]
         /\ [segs EXCEPT ![s].sized = TRUE][s] = [segs[s] EXCEPT !.sized = TRUE]
         /\ [segs EXCEPT ![s].valid = TRUE][s] = [segs[s] EXCEPT !.valid = TRUE]
         /\ [segs EXCEPT ![s].fields = TRUE][s] = [segs[s] EXCEPT !.fields = TRUE]
         /\ DOMAIN [segs EXCEPT ![s].sized = TRUE] = DOMAIN segs
         /\ DOMAIN [segs EXCEPT ![s].valid = TRUE] = DOMAIN segs
         /\ DOMAIN [segs EXCEPT ![s].fields = TRUE] = DOMAIN segs
  OBVIOUS

\* a step that changes no segment but the one that is being made
LEMMA SegsMaking ==
  ASSUME MgrOK(mgr), SegsOK(mgr, segs), mgr'.start = mgr.start, mgr'.headerVec = mgr.headerVec,
         mgr'.pc \in Made, mgr.pc # "publish",
         NEW new, new = <<mgr.start, Len(mgr.headerVec)>>,
         \A s \in DOMAIN segs : s \in DOMAIN segs' /\ (s # new => segs'[s] = segs[s]),
         \A s \in DOMAIN segs' : s = new \/ s \in DOMAIN segs,
         new \in DOMAIN segs', segs'[new] \in SegState, segs'[new].numBuffers = 0,
         mgr'.pc \in {"header", "fields"} => segs'[new].sized
  PROVE  SegsOK(mgr', segs')
  <1> DEFINE L == Len(mgr.headerVec)
  <1>1. L \in Nat
    BY MgrFacts
  <1>2. \A s \in DOMAIN segs' : segs'[s] \in SegState
    BY DEF SegsOK
  <1>3. \A i \in 1..L : <<mgr.start, i - 1>> # new
    BY <1>1
  <1> HIDE DEF L
  <1>4. \A i \in 1..L : /\ <<mgr.start, i - 1>> \in DOMAIN segs'
                        /\ segs'[<<mgr.start, i - 1>>] = segs[<<mgr.start, i - 1>>]
    BY <1>3 DEF SegsOK, L
  <1>5. L > 0 => segs'[<<mgr.start, 0>>] = segs[<<mgr.start, 0>>]
    <2>1. L > 0 => 1 \in 1..L /\ 1 - 1 = 0
      BY <1>1
    <2>. QED BY <1>4, <2>1
  <1>6. \A i \in 1..L :
          /\ mgr'.headerVec[i] = <<mgr.start, i - 1>> /\ <<mgr.start, i - 1>> \in DOMAIN segs'
          /\ segs'[<<mgr.start, i - 1>>].sized /\ segs'[<<mgr.start, i - 1>>].fields
    BY <1>4 DEF SegsOK, L
  <1>7. L > 0 => segs'[<<mgr.start, 0>>].numBuffers = L
    BY <1>5 DEF SegsOK, L
  <1>. QED
    BY <1>2, <1>6, <1>7 DEF SegsOK, L, Made

\* Every step keeps the segments in order.
LEMMA SegsStep ==
  ASSUME MgrOK(mgr), SegsOK(mgr, segs), [Next]_vars
  PROVE  SegsOK(mgr', segs')
  <1> USE MgrFacts, Constants
  <1> DEFINE L == Len(mgr.headerVec)
             new == <<mgr.start, L>>
  <1>0. /\ \A i \in 1..L : <<mgr.start, i - 1>> # new
        /\ \A i \in 1..L : mgr.headerVec[i] = <<mgr.start, i - 1>>
        /\ \A s \in DOMAIN segs : segs[s] \in SegState
        /\ new \in Segment /\ NextBuffer = L
    <2>1. L \in Nat /\ NextBuffer = L /\ mgr.start \in Int
      OBVIOUS
    <2>2. \A i \in 1..L : <<mgr.start, i - 1>> # new
      BY <2>1
    <2>. QED BY <2>1, <2>2 DEF SegsOK, Segment
  <1>1. CASE Start
    <2>1. segs' = segs /\ mgr'.headerVec = <<>> /\ mgr'.pc \in {"open", "loop"} /\ mgr.pc = "down"
      BY <1>1 DEF Start, MgrOK, MgrState
    <2>. QED BY <2>1, SegsSame DEF Made
  <1>2. CASE OpenShm
    <2>1. CASE segs' = FnWith(segs, new, NewSeg) /\ mgr' = [mgr EXCEPT !.pc = "truncate"]
      <3>1. mgr'.pc = "truncate" /\ mgr'.start = mgr.start /\ mgr'.headerVec = mgr.headerVec
            /\ mgr.pc = "open"
        BY <1>2, <2>1 DEF OpenShm, MgrOK, MgrState
      <3>2. /\ new \in DOMAIN segs' /\ segs'[new] = NewSeg
            /\ \A s \in DOMAIN segs : s \in DOMAIN segs' /\ (s # new => segs'[s] = segs[s])
            /\ \A s \in DOMAIN segs' : s = new \/ s \in DOMAIN segs
        BY <2>1 DEF FnWith
      <3>3. NewSeg \in SegState /\ NewSeg.numBuffers = 0
        BY DEF NewSeg, SegState
      <3>. QED
        BY <3>1, <3>2, <3>3, SegsMaking DEF Made
    <2>2. CASE Throw(names, mgr.headerVec) /\ UNCHANGED segs
      BY <1>2, <2>2, ThrowSegs DEF OpenShm, Growing
    <2>. QED BY <1>0, <1>2, <2>1, <2>2 DEF OpenShm
  <1>3. CASE Truncate
    <2>1. CASE /\ segs' = [segs EXCEPT ![<<mgr.start, NextBuffer>>].sized = TRUE]
               /\ mgr' = [mgr EXCEPT !.pc = "header"]
      <3>1. mgr'.pc = "header" /\ mgr'.start = mgr.start /\ mgr'.headerVec = mgr.headerVec
            /\ mgr.pc = "truncate"
        BY <1>3, <2>1 DEF Truncate, MgrOK, MgrState
      <3>2. new \in DOMAIN segs /\ segs[new].numBuffers = 0
        BY <3>1 DEF SegsOK, Made
      <3>3. /\ DOMAIN segs' = DOMAIN segs /\ segs'[new] = [segs[new] EXCEPT !.sized = TRUE]
            /\ \A s \in DOMAIN segs : s # new => segs'[s] = segs[s]
        BY <1>0, <2>1, <3>2, SegField
      <3>4. segs'[new] \in SegState /\ segs'[new].sized /\ segs'[new].numBuffers = 0
        BY <1>0, <3>2, <3>3 DEF SegState
      <3>. QED
        BY <3>1, <3>2, <3>3, <3>4, SegsMaking DEF Made
    <2>2. CASE CreateFails
      BY <1>3, <2>2, ThrowSegs DEF Truncate, CreateFails, Growing, Made
    <2>. QED BY <1>3, <2>1, <2>2 DEF Truncate
  <1>4. CASE WriteHeader
    <2>0. new \in DOMAIN segs /\ segs[new].sized /\ segs[new].numBuffers = 0
      BY <1>4 DEF WriteHeader, SegsOK, Made
    <2>1. CASE mgr.pc = "header"
      <3>1. /\ segs' = [segs EXCEPT ![new].valid = TRUE]
            /\ mgr' = [mgr EXCEPT !.pc = "fields"]
        BY <1>0, <1>4, <2>1 DEF WriteHeader
      <3>2. mgr'.pc = "fields" /\ mgr'.start = mgr.start /\ mgr'.headerVec = mgr.headerVec
        BY <3>1 DEF MgrOK, MgrState
      <3>3. /\ DOMAIN segs' = DOMAIN segs /\ segs'[new] = [segs[new] EXCEPT !.valid = TRUE]
            /\ \A s \in DOMAIN segs : s # new => segs'[s] = segs[s]
        BY <2>0, <3>1, SegField
      <3>4. segs'[new] \in SegState /\ segs'[new].sized /\ segs'[new].numBuffers = 0
        <4>1. segs[new] \in SegState
          BY <1>0, <2>0
        <4>. QED BY <2>0, <3>3, <4>1 DEF SegState
      <3>. QED
        BY <2>0, <2>1, <3>2, <3>3, <3>4, SegsMaking DEF Made
    <2>2. CASE mgr.pc = "fields"
      <3>1. /\ segs' = [segs EXCEPT ![new].fields = TRUE]
            /\ mgr' = [mgr EXCEPT !.pc = "publish", !.headerVec = Append(mgr.headerVec, new)]
        BY <1>0, <1>4, <2>2 DEF WriteHeader
      <3>2. /\ mgr'.pc = "publish" /\ mgr'.start = mgr.start
            /\ Len(mgr'.headerVec) = L + 1 /\ mgr'.headerVec[L + 1] = new
            /\ \A i \in 1..L : mgr'.headerVec[i] = mgr.headerVec[i]
        BY <1>0, <3>1, AppendSeg DEF MgrOK, MgrState
      <3>3. /\ DOMAIN segs' = DOMAIN segs /\ segs'[new] = [segs[new] EXCEPT !.fields = TRUE]
            /\ \A s \in DOMAIN segs : s # new => segs'[s] = segs[s]
        BY <2>0, <3>1, SegField
      <3>4. /\ segs'[new] \in SegState /\ segs'[new].sized /\ segs'[new].fields
            /\ segs'[new].numBuffers = 0
        BY <1>0, <2>0, <3>3 DEF SegState
      <3>5. \A s \in DOMAIN segs' : segs'[s] \in SegState
        BY <1>0, <3>3, <3>4
      <3>6. \A i \in 1..L : segs'[<<mgr.start, i - 1>>] = segs[<<mgr.start, i - 1>>]
                            /\ <<mgr.start, i - 1>> \in DOMAIN segs'
        BY <1>0, <3>3 DEF SegsOK
      <3>7. \A i \in 1..(L + 1) :
              /\ mgr'.headerVec[i] = <<mgr.start, i - 1>> /\ <<mgr.start, i - 1>> \in DOMAIN segs'
              /\ segs'[<<mgr.start, i - 1>>].sized /\ segs'[<<mgr.start, i - 1>>].fields
        <4> SUFFICES ASSUME NEW i \in 1..(L + 1)
                     PROVE  /\ mgr'.headerVec[i] = <<mgr.start, i - 1>> /\ <<mgr.start, i - 1>> \in DOMAIN segs'
                            /\ segs'[<<mgr.start, i - 1>>].sized /\ segs'[<<mgr.start, i - 1>>].fields
          OBVIOUS
        <4>1. CASE i \in 1..L
          BY <1>0, <3>2, <3>6, <4>1 DEF SegsOK
        <4>2. CASE i = L + 1
          <5>1. i - 1 = L
            BY <4>2
          <5>. QED BY <2>0, <3>2, <3>3, <3>4, <4>2, <5>1
        <4>. QED BY <4>1, <4>2
      <3>8. segs'[<<mgr.start, 0>>].numBuffers = L
        <4>1. CASE L = 0
          BY <3>4, <4>1
        <4>2. CASE L > 0
          <5>1. 1 \in 1..L /\ 1 - 1 = 0
            BY <4>2
          <5>2. segs'[<<mgr.start, 0>>] = segs[<<mgr.start, 0>>]
            BY <3>6, <5>1
          <5>. QED BY <2>2, <4>2, <5>2 DEF SegsOK
        <4>. QED BY <4>1, <4>2
      <3>. QED
        BY <3>2, <3>5, <3>7, <3>8 DEF SegsOK, Made
    <2>. QED BY <1>4, <2>1, <2>2 DEF WriteHeader
  <1>5. CASE Publish
    <2>1. /\ mgr'.pc = "lock" /\ mgr'.start = mgr.start /\ mgr'.headerVec = mgr.headerVec
          /\ mgr.pc = "publish" /\ DOMAIN segs' = DOMAIN segs
          /\ \A s \in DOMAIN segs : segs'[s] = IF s \in Range(mgr.headerVec)
                 THEN [segs[s] EXCEPT !.numBuffers = L] ELSE segs[s]
      BY <1>5 DEF Publish, MgrOK, MgrState
    <2>2. \A s \in DOMAIN segs : segs'[s] \in SegState /\ segs'[s].sized = segs[s].sized
                                 /\ segs'[s].fields = segs[s].fields
      BY <1>0, <2>1 DEF SegState
    <2>3. L > 0 => segs'[<<mgr.start, 0>>].numBuffers = L
      <3>1. SUFFICES ASSUME L > 0
                     PROVE  segs'[<<mgr.start, 0>>].numBuffers = L
        OBVIOUS
      <3>2. 1 \in 1..L /\ 1 - 1 = 0
        BY <3>1
      <3>3. mgr.headerVec[1] = <<mgr.start, 0>> /\ <<mgr.start, 0>> \in DOMAIN segs
        BY <3>2 DEF SegsOK
      <3>4. <<mgr.start, 0>> \in Range(mgr.headerVec)
        BY <3>2, <3>3, AppendSeg DEF Range
      <3>. QED BY <1>0, <2>1, <3>3, <3>4 DEF SegState
    <2>. QED
      BY <2>1, <2>2, <2>3 DEF SegsOK, Made
  <1>6. CASE Lock
    <2>1. PICK fails \in BOOLEAN :
            LET m == [mgr EXCEPT !.lockErrors = @ \/ fails]
            IN  IF NextBuffer < m.target
                THEN mgr' = [m EXCEPT !.pc = "open"] /\ UNCHANGED <<names, clt>>
                ELSE IF m.lockErrors /\ ~allowUnlockedMemory THEN Throw(names, m.headerVec)
                ELSE Announce(m)
      BY <1>6 DEF Lock
    <2> DEFINE m == [mgr EXCEPT !.lockErrors = @ \/ fails]
    <2>2. m \in MgrState /\ m.headerVec = mgr.headerVec /\ m.start = mgr.start
      BY <2>1 DEF MgrOK, MgrState
    <2>3. mgr.pc = "lock" /\ segs' = segs
      BY <1>6 DEF Lock
    <2> HIDE DEF m
    <2>4. CASE mgr' = [m EXCEPT !.pc = "open"]
      BY <2>2, <2>3, <2>4, SegsSame DEF MgrState, Made
    <2>5. CASE Throw(names, m.headerVec)
      BY <2>2, <2>3, <2>5, ThrowSegs
    <2>6. CASE Announce(m)
      <3>1. mgr'.start = m.start /\ mgr'.headerVec = m.headerVec /\ mgr'.pc \in {"loop", "reserve"}
        BY <2>2, <2>6 DEF Announce, MgrState
      <3>. QED BY <2>2, <2>3, <3>1, SegsSame DEF Made
    <2>. QED BY <2>1, <2>4, <2>5, <2>6 DEF m
  <1>7. CASE Reserve
    <2>1. mgr'.start = mgr.start /\ mgr'.headerVec = mgr.headerVec
          /\ mgr'.pc \in {"loop", "open"} /\ segs' = segs /\ mgr.pc = "reserve"
      BY <1>7 DEF Reserve, MgrOK, MgrState
    <2>. QED BY <2>1, SegsSame DEF Made
  <1>8. CASE Stop \/ Killed
    <2>1. mgr'.pc = "down" /\ mgr'.headerVec = <<>> /\ segs' = segs
      BY <1>8, EndedFields DEF Stop, Killed
    <2>. QED BY <2>1, EmptyList DEF SegsOK, Made
  <1>9. ASSUME NEW c \in Clients, Readable(c) \/ Accept(c)
        PROVE  SegsOK(mgr', segs')
    <2>1. mgr'.start = mgr.start /\ mgr'.headerVec = mgr.headerVec
          /\ mgr'.pc \in {"loop", "reserve"} /\ segs' = segs /\ mgr.pc = "loop"
      BY <1>9 DEF Readable, Accept, MgrOK, MgrState
    <2>. QED BY <2>1, SegsSame DEF Made
  <1>10. CASE UNCHANGED <<mgr, segs>>
    BY <1>10
  <1>11. ASSUME NEW c \in Clients, Runs(c)
         PROVE  UNCHANGED <<mgr, segs>>
    BY <1>11, RunsBecome DEF Become
  <1>. QED
    BY <1>1, <1>2, <1>3, <1>4, <1>5, <1>6, <1>7, <1>8, <1>9, <1>10, <1>11
    DEF Next, Manages, vars

-----------------------------------------------------------------------------
\* Types of what a client holds.
Message == [type : {"ShmName", "NumSlabs", "SlabIDs", "BlockIDs"}, arg : Int \cup BOOLEAN]
Msgs    == Seq(Message)
Gift    == [kind : {"slab", "sent", "block"}, id : Int \cup BOOLEAN]
\* A client without a ClientImpl; and one inside HandleCtrlString.
Closed  == {"idle", "bus", "aborted"}
Mapping == {"mapBuffers", "map", "assert", "numSlabs"}

\* The type of a client.
CltState ==
  [pc : Closed \cup {"poll", "valid", "map0"} \cup Mapping, start : Nat, inbox : Msgs,
   toMgr : Msgs, headerVec : SegList, hdr : Segment \cup {NoSeg}, avail : Nat, todo : Int,
   granted : BOOLEAN, ids : SUBSET Gift]

\* The constructor of the manager is done.
Serving(m) == m.pc \in {"loop", "reserve"} \/ m.for # None

\* A manager that serves clients has a buffer, and never hands out slabs of a buffer
\* whose number is not yet in the header of buffer 0.
ServingOK(m) ==
  /\ ~Serving(m) => DOMAIN m.proxies = {}
  /\ Serving(m) => /\ Len(m.headerVec) > IF m.pc = "publish" THEN 1 ELSE 0
                   /\ m.slabBuffers <= IF m.pc = "publish" THEN Len(m.headerVec) - 1
                                       ELSE Len(m.headerVec)

\* Every name is that of a segment.
KnownOK(nm, sg) ==
  /\ \A b \in Buffers : nm[b] # NoSeg => nm[b] \in DOMAIN sg
  /\ \A s \in DOMAIN sg : sg[s].numBuffers <= maxNumBuffers

\* The layout: whole blocks in a slab, whole slabs in a buffer.
ParamsOK(p) ==
  /\ p.numBlocks \in Nat \ {0} /\ p.slabsPerBuffer \in Nat \ {0}
  /\ p.blockSize \in Nat \ {0} /\ p.slabSize \div p.blockSize \in Nat \ {0}
  /\ p.numBlocks = (p.slabSize \div p.blockSize) * p.slabsPerBuffer

\* An ID lies in one of the first k buffers.
PerBuffer(p, y) == IF y.kind = "block" THEN p.numBlocks ELSE p.slabsPerBuffer
InBuffers(p, y, k) == y.id \in Nat /\ y.id < k * PerBuffer(p, y)

\* The client and its manager are connected.
IsLive(m, c, x) == m.pc # "down" /\ x.start = m.start /\ c \in DOMAIN m.proxies
\* A message that still makes the client map buffers.
IsShm(x, j) == x.inbox[j].type = "ShmName" /\ (x.pc = "numSlabs" => j > 1)

\* A client is connected with this start of the manager or an earlier one.
StartOK(m, x) == x.start <= m.start /\ (m.pc # "down" /\ ~Serving(m) => x.start < m.start)

\* A proxy is of the connection that the client has.
ProxyOK(m, c, x) == (c \in DOMAIN m.proxies /\ x.pc \notin Closed) => x.start = m.start

\* Where a client is, by itself.
PcOK(x) ==
  /\ x.pc \in Closed => x.start = 0
  /\ x.pc = "idle" => x.headerVec = <<>> /\ x.toMgr = <<>> /\ x.ids = {}
  /\ x.pc \notin Closed => x.start >= 1
  /\ x.pc \in {"valid", "map0"} \cup Mapping => Len(x.inbox) > 0 /\ x.inbox[1].type = "ShmName"
  /\ x.pc \in Mapping => Len(x.headerVec) > 0
  /\ x.pc \in {"valid", "map0"} => Len(x.headerVec) = 0
  /\ x.pc = "map" => Len(x.headerVec) < x.avail /\ x.avail <= maxNumBuffers
  /\ x.pc = "assert" => Len(x.headerVec) = x.avail
  /\ x.hdr # NoSeg => x.pc = "valid"
  /\ (x.pc \notin Closed /\ Len(x.headerVec) = 0) =>
       x.toMgr = <<>> /\ x.ids = {} /\ \A i \in 1..Len(x.inbox) : x.inbox[i].type = "ShmName"

\* What a client has mapped exists, unlinked or not.
SegsKnown(sg, x) == \A i \in 1..Len(x.headerVec) : x.headerVec[i] \in DOMAIN sg

\* The heart of it: an ID in the inbox is in a buffer that the client has mapped, or a
\* message before it makes the client map as many buffers as the header of its buffer 0
\* names, and that is enough.  True also when the manager has died since.
InboxOK(p, sg, x) ==
  x.pc \notin Closed =>
    \A i \in 1..Len(x.inbox) : GivesIDs(x.inbox[i]) =>
      \/ InBuffers(p, GivenBy(x.inbox[i]), Len(x.headerVec))
      \/ /\ Len(x.headerVec) > 0 /\ x.headerVec[1] = <<x.start, 0>>
         /\ InBuffers(p, GivenBy(x.inbox[i]), sg[<<x.start, 0>>].numBuffers)
         /\ \E j \in 1..(i - 1) : IsShm(x, j)

\* While both are connected: the client has mapped the first buffers of this start, in
\* order; it has mapped all that slabManager hands out, or is going to; what it was given,
\* sends, or has not read is in buffers that slabManager hands out.
LiveOK(p, m, sg, c, x) ==
  IsLive(m, c, x) =>
   /\ Len(x.headerVec) = 0 => m.proxies[c].reserved = 0 /\ m.for # c
   /\ \A i \in 1..Len(x.headerVec) : x.headerVec[i] = <<m.start, i - 1>>
   /\ Len(x.headerVec) <= sg[<<m.start, 0>>].numBuffers
   /\ x.pc = "valid" => x.hdr = <<m.start, 0>>
   /\ x.pc = "map" => x.avail <= sg[<<m.start, 0>>].numBuffers
   /\ m.slabBuffers <= Len(x.headerVec) \/ \E j \in 1..Len(x.inbox) : IsShm(x, j)
   /\ \A y \in x.ids : InBuffers(p, y, Len(x.headerVec)) /\ InBuffers(p, y, m.slabBuffers)
   /\ \A i \in 1..Len(x.toMgr) :
        GivesIDs(x.toMgr[i]) => InBuffers(p, GivenBy(x.toMgr[i]), m.slabBuffers)
   /\ \A i \in 1..Len(x.inbox) :
        GivesIDs(x.inbox[i]) => InBuffers(p, GivenBy(x.inbox[i]), m.slabBuffers)

\* The invariant of a client.
CltOK(p, m, sg, c, x) ==
  /\ x \in CltState
  /\ StartOK(m, x) /\ ProxyOK(m, c, x) /\ PcOK(x)
  /\ SegsKnown(sg, x) /\ InboxOK(p, sg, x) /\ LiveOK(p, m, sg, c, x)

\* Hypothesis: the manager is started with at least one buffer, and at most as many as it
\* may have.  ManagerParams::ParamCheck does not enforce it; Manager::Manager ignores the
\* refusal of IncreaseNumBuffers, and slabManager would hand out slabs that do not exist.
InitialBuffers == numBuffers \in 1..maxNumBuffers

(***************************************************************************)
(* Steps of the manager between the start and the loop, and the others.    *)
(***************************************************************************)
LEMMA ThrowServing ==
  ASSUME MgrOK(mgr), ServingOK(mgr), NEW nms, mgr.pc \in Growing \cup {"lock"},
         Throw(nms, mgr.headerVec)
  PROVE  ServingOK(mgr')
  <1>1. CASE mgr.for = None
    <2>1. mgr'.pc = "down" /\ mgr'.for = None /\ mgr'.proxies = <<>>
      BY <1>1, EndedFields DEF Throw
    <2>. QED BY <2>1 DEF ServingOK, Serving
  <1>2. CASE mgr.for # None
    <2>1. mgr'.pc = "loop" /\ mgr'.headerVec = mgr.headerVec /\ mgr'.slabBuffers = mgr.slabBuffers
      BY <1>2 DEF Throw, MgrOK, MgrState
    <2>. QED BY <1>2, <2>1 DEF ServingOK, Serving, Growing, Made
  <1>. QED BY <1>1, <1>2

\* A step that does not matter to ServingOK.
LEMMA ServingSame ==
  ASSUME ServingOK(mgr), Serving(mgr') <=> Serving(mgr), mgr'.headerVec = mgr.headerVec,
         mgr'.slabBuffers = mgr.slabBuffers, mgr'.pc # "publish", mgr.pc # "publish",
         ~Serving(mgr') => mgr'.proxies = mgr.proxies
  PROVE  ServingOK(mgr')
  BY DEF ServingOK

\* Every step keeps ServingOK: slabManager learns of buffers after Publish.
LEMMA ServingStep ==
  ASSUME MgrOK(mgr), ServingOK(mgr), [Next]_vars, InitialBuffers
  PROVE  ServingOK(mgr')
  <1> USE MgrFacts, Constants
  <1>0. mgr.slabBuffers \in Nat /\ mgr.target \in Nat
    BY DEF MgrOK, MgrState
  <1>1. CASE Start
    <2>1. mgr'.pc = "open" /\ mgr'.for = None /\ DOMAIN mgr'.proxies = {}
      BY <1>1 DEF Start, InitialBuffers, MgrOK, MgrState
    <2>. QED BY <2>1 DEF ServingOK, Serving
  <1>2. CASE OpenShm
    <2>1. CASE mgr' = [mgr EXCEPT !.pc = "truncate"]
      BY <1>2, <2>1 DEF OpenShm, ServingOK, Serving, MgrOK, MgrState
    <2>2. CASE Throw(names, mgr.headerVec)
      BY <1>2, <2>2, ThrowServing DEF OpenShm, Growing
    <2>. QED BY <1>2, <2>1, <2>2 DEF OpenShm
  <1>3. CASE Truncate
    <2>1. CASE mgr' = [mgr EXCEPT !.pc = "header"]
      BY <1>3, <2>1 DEF Truncate, ServingOK, Serving, MgrOK, MgrState
    <2>2. CASE CreateFails
      BY <1>3, <2>2, ThrowServing DEF Truncate, CreateFails, Growing, Made
    <2>. QED BY <1>3, <2>1, <2>2 DEF Truncate
  <1>4. CASE WriteHeader
    <2>1. CASE mgr.pc = "header"
      <3>1. mgr' = [mgr EXCEPT !.pc = "fields"]
        BY <1>4, <2>1 DEF WriteHeader
      <3>. QED BY <2>1, <3>1 DEF ServingOK, Serving, MgrOK, MgrState
    <2>2. CASE mgr.pc = "fields"
      <3>1. mgr' = [mgr EXCEPT !.pc = "publish",
                       !.headerVec = Append(mgr.headerVec, <<mgr.start, NextBuffer>>)]
        BY <1>4, <2>2 DEF WriteHeader
      <3>2. <<mgr.start, NextBuffer>> \in Segment
        BY DEF Segment
      <3>3. /\ mgr'.pc = "publish" /\ Len(mgr'.headerVec) = Len(mgr.headerVec) + 1
            /\ mgr'.for = mgr.for /\ mgr'.proxies = mgr.proxies
            /\ mgr'.slabBuffers = mgr.slabBuffers
        BY <3>1, <3>2, AppendSeg DEF MgrOK, MgrState
      <3>. QED BY <2>2, <3>3 DEF ServingOK, Serving
    <2>. QED BY <1>4, <2>1, <2>2 DEF WriteHeader
  <1>5. CASE Publish
    <2>1. /\ mgr'.pc = "lock" /\ mgr.pc = "publish" /\ mgr'.headerVec = mgr.headerVec
          /\ mgr'.for = mgr.for /\ mgr'.proxies = mgr.proxies /\ mgr'.slabBuffers = mgr.slabBuffers
      BY <1>5 DEF Publish, MgrOK, MgrState
    <2>. QED BY <1>0, <2>1 DEF ServingOK, Serving
  <1>6. CASE Lock
    <2>1. PICK fails \in BOOLEAN :
            LET m == [mgr EXCEPT !.lockErrors = @ \/ fails]
            IN  IF NextBuffer < m.target
                THEN mgr' = [m EXCEPT !.pc = "open"] /\ UNCHANGED <<names, clt>>
                ELSE IF m.lockErrors /\ ~allowUnlockedMemory THEN Throw(names, m.headerVec)
                ELSE Announce(m)
      BY <1>6 DEF Lock
    <2> DEFINE m == [mgr EXCEPT !.lockErrors = @ \/ fails]
    <2>2. /\ m \in MgrState /\ m.headerVec = mgr.headerVec /\ m.for = mgr.for
          /\ m.proxies = mgr.proxies /\ m.slabBuffers = mgr.slabBuffers /\ m.target = mgr.target
      BY <2>1 DEF MgrOK, MgrState
    <2>3. mgr.pc = "lock" /\ Len(mgr.headerVec) \in 1..mgr.target
      BY <1>6 DEF Lock, MgrOK
    <2> HIDE DEF m
    <2>4. CASE mgr' = [m EXCEPT !.pc = "open"]
      BY <2>2, <2>3, <2>4 DEF MgrState, ServingOK, Serving
    <2>5. CASE Throw(names, m.headerVec)
      BY <2>2, <2>3, <2>5, ThrowServing
    <2>6. CASE Announce(m) /\ ~(NextBuffer < m.target)
      <3>1. /\ mgr'.headerVec = m.headerVec /\ mgr'.pc \in {"loop", "reserve"}
            /\ mgr'.slabBuffers = m.target
        BY <2>2, <2>6 DEF Announce, MgrState
      <3>2. m.target = Len(mgr.headerVec)
        BY <1>0, <2>2, <2>3, <2>6
      <3>. QED BY <2>2, <2>3, <3>1, <3>2 DEF ServingOK, Serving
    <2>. QED BY <2>1, <2>4, <2>5, <2>6 DEF m
  <1>7. CASE Reserve
    <2>1. /\ mgr'.headerVec = mgr.headerVec /\ mgr'.slabBuffers = mgr.slabBuffers
          /\ mgr'.pc \in {"loop", "open"} /\ mgr.pc = "reserve"
          /\ mgr'.pc = "open" => mgr'.for = mgr.for
      BY <1>7 DEF Reserve, MgrOK, MgrState
    <2>2. mgr.for # None
      BY <2>1 DEF MgrOK
    <2>. QED BY <2>1, <2>2 DEF ServingOK, Serving
  <1>8. CASE Stop \/ Killed
    <2>1. mgr'.pc = "down" /\ mgr'.for = None /\ mgr'.proxies = <<>>
      BY <1>8, EndedFields DEF Stop, Killed
    <2>. QED BY <2>1 DEF ServingOK, Serving
  <1>9. ASSUME NEW c \in Clients, Readable(c) \/ Accept(c)
        PROVE  ServingOK(mgr')
    <2>1. mgr'.headerVec = mgr.headerVec /\ mgr'.slabBuffers = mgr.slabBuffers
          /\ mgr'.pc \in {"loop", "reserve"} /\ mgr.pc = "loop"
      BY <1>9 DEF Readable, Accept, MgrOK, MgrState
    <2>. QED BY <2>1 DEF ServingOK, Serving
  <1>10. CASE UNCHANGED mgr
    BY <1>10
  <1>11. ASSUME NEW c \in Clients, Runs(c)
         PROVE  UNCHANGED mgr
    BY <1>11, RunsBecome DEF Become
  <1>. QED
    BY <1>1, <1>2, <1>3, <1>4, <1>5, <1>6, <1>7, <1>8, <1>9, <1>10, <1>11
    DEF Next, Manages, vars

\* Segments stay, and the number in the header of buffer 0 of a start never gets smaller:
\* an ID that was within it stays so.
LEMMA KnownStep ==
  ASSUME MgrOK(mgr), DOMAIN names = Buffers, SegsOK(mgr, segs), KnownOK(names, segs), [Next]_vars
  PROVE  /\ KnownOK(names', segs')
         /\ DOMAIN segs \subseteq DOMAIN segs'
         /\ \A k : (k = mgr.start /\ mgr.pc # "down" => Len(mgr.headerVec) > 0) /\ <<k, 0>> \in DOMAIN segs
                     => segs'[<<k, 0>>].numBuffers >= segs[<<k, 0>>].numBuffers
  <1> USE MgrFacts, Constants
  <1> DEFINE L == Len(mgr.headerVec)
             new == <<mgr.start, L>>
             Goal == /\ KnownOK(names', segs')
                     /\ DOMAIN segs \subseteq DOMAIN segs'
                     /\ \A k : (k = mgr.start /\ mgr.pc # "down" => Len(mgr.headerVec) > 0) /\ <<k, 0>> \in DOMAIN segs
                                 => segs'[<<k, 0>>].numBuffers >= segs[<<k, 0>>].numBuffers
  <1>a. \A s \in DOMAIN segs : segs[s].numBuffers \in Nat /\ segs[s].numBuffers >= segs[s].numBuffers
    BY DEF SegsOK, SegState
  <1>b. NextBuffer = L /\ L \in Nat /\ L <= maxNumBuffers
    BY DEF MgrOK
  <1>1. ASSUME UNCHANGED segs, \A b \in Buffers : names'[b] = names[b] \/ names'[b] = NoSeg
        PROVE  Goal
    BY <1>1, <1>a DEF KnownOK
  <1>2. ASSUME OpenShm, ~UNCHANGED segs
        PROVE  Goal
    <2>1. names' = [names EXCEPT ![L] = new] /\ segs' = FnWith(segs, new, NewSeg)
          /\ mgr.pc = "open"
      BY <1>2 DEF OpenShm
    <2>2. /\ new \in DOMAIN segs' /\ segs'[new].numBuffers = 0
          /\ \A s \in DOMAIN segs : s \in DOMAIN segs' /\ (s # new => segs'[s] = segs[s])
          /\ \A s \in DOMAIN segs' : s = new \/ s \in DOMAIN segs
      BY <2>1 DEF FnWith, NewSeg
    <2>3. \A b \in Buffers : names'[b] = names[b] \/ names'[b] = new
      BY <2>1
    <2>4. \A k : (k = mgr.start /\ mgr.pc # "down" => L > 0) => <<k, 0>> # new
      BY <1>b, <2>1
    <2> HIDE DEF new
    <2>5. KnownOK(names', segs')
      BY <2>2, <2>3 DEF KnownOK
    <2>. QED BY <1>a, <2>2, <2>4, <2>5
  <1>3. ASSUME DOMAIN segs' = DOMAIN segs, \A s \in DOMAIN segs : segs'[s].numBuffers = segs[s].numBuffers,
               UNCHANGED names
        PROVE  Goal
    BY <1>3, <1>a DEF KnownOK
  <1>4. CASE Truncate
    <2>1. CASE /\ segs' = [segs EXCEPT ![new].sized = TRUE] /\ UNCHANGED names
               /\ mgr.pc = "truncate"
      <3>1. new \in DOMAIN segs /\ segs[new] \in SegState
        BY <2>1 DEF SegsOK, Made
      <3>2. /\ DOMAIN segs' = DOMAIN segs /\ segs'[new] = [segs[new] EXCEPT !.sized = TRUE]
            /\ \A s \in DOMAIN segs : s # new => segs'[s] = segs[s]
        BY <2>1, <3>1, SegField
      <3>3. segs'[new].numBuffers = segs[new].numBuffers
        BY <3>1, <3>2 DEF SegState
      <3> HIDE DEF new
      <3>. QED BY <1>3, <2>1, <3>2, <3>3
    <2>2. CASE CreateFails
      <3>1. segs' = segs /\ Throw([names EXCEPT ![L] = NoSeg], mgr.headerVec)
        BY <1>b, <2>2 DEF CreateFails
      <3>2. \A b \in Buffers : names'[b] = names[b] \/ names'[b] = NoSeg
        BY <3>1 DEF Throw
      <3>. QED BY <1>1, <3>1, <3>2
    <2>. QED BY <1>4, <1>b, <2>1, <2>2 DEF Truncate
  <1>5. CASE WriteHeader
    <2>1. new \in DOMAIN segs /\ segs[new] \in SegState
      BY <1>5 DEF SegsOK, Made, WriteHeader
    <2>2. /\ UNCHANGED names
          /\ segs' = [segs EXCEPT ![new].valid = TRUE] \/ segs' = [segs EXCEPT ![new].fields = TRUE]
      BY <1>5, <1>b DEF WriteHeader
    <2>3. /\ DOMAIN segs' = DOMAIN segs
          /\ segs'[new] = [segs[new] EXCEPT !.valid = TRUE] \/ segs'[new] = [segs[new] EXCEPT !.fields = TRUE]
          /\ \A s \in DOMAIN segs : s # new => segs'[s] = segs[s]
      BY <2>1, <2>2, SegField
    <2>4. segs'[new].numBuffers = segs[new].numBuffers
      BY <2>1, <2>3 DEF SegState
    <2> HIDE DEF new
    <2>. QED BY <1>3, <2>2, <2>3, <2>4
  <1>6. CASE Publish
    <2>1. /\ mgr.pc = "publish" /\ DOMAIN segs' = DOMAIN segs /\ names' = names
          /\ \A s \in DOMAIN segs : segs'[s] = IF s \in Range(mgr.headerVec)
                 THEN [segs[s] EXCEPT !.numBuffers = L] ELSE segs[s]
      BY <1>6, <1>b DEF Publish
    <2>2. \A s \in DOMAIN segs : segs'[s].numBuffers = IF s \in Range(mgr.headerVec) THEN L
                                                       ELSE segs[s].numBuffers
      BY <2>1 DEF SegsOK, SegState
    <2>3. \A k : <<k, 0>> \in Range(mgr.headerVec) => k = mgr.start /\ L > 0
      <3>1. ASSUME NEW k, <<k, 0>> \in Range(mgr.headerVec)
            PROVE  k = mgr.start /\ L > 0
        <4>1. PICK i \in 1..L : <<k, 0>> = mgr.headerVec[i]
          BY <3>1, AppendSeg DEF Range
        <4>2. <<k, 0>> = <<mgr.start, i - 1>>
          BY <4>1 DEF SegsOK
        <4>. QED BY <4>1, <4>2
      <3>. QED BY <3>1
    <2>4. L > 0 => segs[<<mgr.start, 0>>].numBuffers = L - 1
      BY <2>1 DEF SegsOK
    <2>5. KnownOK(names', segs')
      BY <1>b, <2>1, <2>2 DEF KnownOK
    <2>6. ASSUME NEW k, <<k, 0>> \in DOMAIN segs
          PROVE  segs'[<<k, 0>>].numBuffers >= segs[<<k, 0>>].numBuffers
      <3>1. CASE <<k, 0>> \in Range(mgr.headerVec)
        BY <1>b, <2>2, <2>3, <2>4, <2>6, <3>1
      <3>2. CASE <<k, 0>> \notin Range(mgr.headerVec)
        BY <1>a, <2>2, <2>6, <3>2
      <3>. QED BY <3>1, <3>2
    <2>. QED BY <2>1, <2>5, <2>6
  <1>7. ASSUME OpenShm, UNCHANGED segs
        PROVE  Goal
    <2>1. CASE Throw(names, mgr.headerVec)
      <3>1. \A b \in Buffers : names'[b] = names[b] \/ names'[b] = NoSeg
        BY <2>1 DEF Throw
      <3>. QED BY <1>1, <1>7, <3>1
    <2>2. CASE names' = [names EXCEPT ![L] = new] /\ segs' = FnWith(segs, new, NewSeg)
      <3>1. new \in DOMAIN segs
        BY <1>7, <2>2 DEF FnWith
      <3>2. \A b \in Buffers : names'[b] = names[b] \/ names'[b] = new
        BY <2>2
      <3> HIDE DEF new
      <3>3. KnownOK(names', segs')
        BY <1>7, <3>1, <3>2 DEF KnownOK
      <3>. QED BY <1>7, <1>a, <3>3
    <2>. QED BY <1>7, <1>b, <2>1, <2>2 DEF OpenShm
  <1>8. CASE Lock
    <2>1. segs' = segs /\ (names' = names \/ \E m : Throw(names, m))
      BY <1>8, Zenon DEF Lock, Announce
    <2>2. \A b \in Buffers : names'[b] = names[b] \/ names'[b] = NoSeg
      BY <2>1 DEF Throw
    <2>. QED BY <1>1, <2>1, <2>2
  <1>9. CASE Stop
    <2>1. segs' = segs /\ \A b \in Buffers : names'[b] = names[b] \/ names'[b] = NoSeg
      BY <1>9 DEF Stop, Unlinked
    <2>. QED BY <1>1, <2>1
  <1>10. CASE UNCHANGED <<segs, names>>
    BY <1>1, <1>10
  <1>11. ASSUME NEW c \in Clients, Readable(c) \/ Accept(c)
         PROVE  UNCHANGED <<segs, names>>
    BY <1>11 DEF Readable, Accept
  <1>12. CASE Start \/ Reserve \/ Killed
    BY <1>10, <1>12 DEF Start, Reserve, Killed
  <1>13. ASSUME NEW c \in Clients, Runs(c)
         PROVE  UNCHANGED <<segs, names>>
    BY <1>13, RunsBecome DEF Become
  <1>. QED
    BY <1>2, <1>4, <1>5, <1>6, <1>7, <1>8, <1>9, <1>10, <1>11, <1>12, <1>13
    DEF Next, Manages, vars

-----------------------------------------------------------------------------
\* The invariant of the manager, the names and the segments.
ManagerOK == /\ MgrOK(mgr) /\ NamesOK(mgr, names) /\ SegsOK(mgr, segs) /\ ServingOK(mgr)
             /\ KnownOK(names, segs) /\ ParamsOK(params)

\* More buffers hold all that fewer do.
LEMMA InBuffersMono ==
  ASSUME NEW p, ParamsOK(p), NEW y, NEW k \in Nat, NEW l \in Nat, k <= l, InBuffers(p, y, k)
  PROVE  InBuffers(p, y, l)
  <1>1. PerBuffer(p, y) \in Nat
    BY DEF PerBuffer, ParamsOK
  <1> DEFINE n == PerBuffer(p, y)
  <1>2. y.id \in Nat /\ y.id < k * n
    BY DEF InBuffers
  <1> HIDE DEF n
  <1>3. k * n <= l * n /\ k * n \in Nat /\ l * n \in Nat
    BY <1>1, TimesMono DEF n
  <1>. QED BY <1>2, <1>3 DEF InBuffers, n

\* what a connected client sees of its manager
LEMMA LiveManager ==
  ASSUME ManagerOK, NEW c, NEW x, IsLive(mgr, c, x)
  PROVE  /\ Serving(mgr) /\ Len(mgr.headerVec) > 0 /\ mgr.slabBuffers \in Nat
         /\ mgr.start \in Nat /\ mgr.start >= 1
         /\ <<mgr.start, 0>> \in DOMAIN segs /\ segs[<<mgr.start, 0>>].numBuffers \in Nat
         /\ segs[<<mgr.start, 0>>].sized /\ segs[<<mgr.start, 0>>].fields
         /\ segs[<<mgr.start, 0>>].numBuffers > 0
         /\ mgr.slabBuffers <= segs[<<mgr.start, 0>>].numBuffers
         /\ segs[<<mgr.start, 0>>].numBuffers <= Len(mgr.headerVec)
         /\ \A b \in 0..(Len(mgr.headerVec) - 1) : b \in Buffers /\ names[b] = <<mgr.start, b>>
  <1> USE MgrFacts, Constants
  <1>1. Serving(mgr) /\ Len(mgr.headerVec) > 0 /\ MgrOK(mgr) /\ mgr.pc # "down"
    BY DEF IsLive, ServingOK, ManagerOK
  <1>2. 1 \in 1..Len(mgr.headerVec) /\ 1 - 1 = 0
    BY <1>1
  <1>3. <<mgr.start, 0>> \in DOMAIN segs /\ segs[<<mgr.start, 0>>].sized
        /\ segs[<<mgr.start, 0>>].fields /\ segs[<<mgr.start, 0>>] \in SegState
    BY <1>1, <1>2 DEF ManagerOK, SegsOK
  <1>4. segs[<<mgr.start, 0>>].numBuffers = IF mgr.pc = "publish" THEN Len(mgr.headerVec) - 1
                                            ELSE Len(mgr.headerVec)
    BY <1>1 DEF ManagerOK, SegsOK
  <1>5. ASSUME NEW b \in 0..(Len(mgr.headerVec) - 1)
        PROVE  b \in Buffers /\ names[b] = <<mgr.start, b>>
    <2>1. b \in Buffers /\ b < Len(mgr.headerVec)
      BY <1>1, <1>5 DEF Buffers, MgrOK
    <2>. QED BY <2>1 DEF ManagerOK, NamesOK, NameOK
  <1>6. mgr.slabBuffers \in Nat /\ mgr.start >= 1
    BY <1>1 DEF MgrOK, MgrState
  <1>. QED BY <1>1, <1>3, <1>4, <1>5, <1>6 DEF SegState, ManagerOK, ServingOK

(***************************************************************************)
(* Steps of a client.                                                      *)
(***************************************************************************)
LEMMA ClosedOK ==
  ASSUME ManagerOK, NEW c \in Clients, clt[c] \in CltState, NEW how \in Closed
  PROVE  CltOK(params, mgr, segs, c, [NoShm(c) EXCEPT !.pc = how])
  <1> DEFINE r == [NoShm(c) EXCEPT !.pc = how]
  <1>1. <<>> \in Msgs
    BY DEF Msgs
  <1>2. /\ r \in CltState /\ r.start = 0 /\ r.pc = how /\ r.headerVec = <<>> /\ r.toMgr = <<>>
        /\ r.ids = {} /\ r.hdr = NoSeg
    <2> DEFINE n == NoShm(c)
    <2>1. /\ n.start = 0 /\ n.headerVec = <<>> /\ n.toMgr = <<>> /\ n.inbox = <<>>
          /\ n.ids = {} /\ n.hdr = NoSeg
      BY DEF NoShm, CltState
    <2>2. n \in CltState
      <3>1. /\ "idle" \in Closed /\ 0 \in Nat /\ 0 \in Int /\ FALSE \in BOOLEAN
            /\ {} \in SUBSET Gift /\ NoSeg \in Segment \cup {NoSeg}
            /\ <<>> \in SegList /\ <<>> \in Msgs
        BY <1>1, EmptyList DEF Closed
      <3>. QED BY <3>1 DEF NoShm, CltState
    <2> HIDE DEF n
    <2>3. r = [n EXCEPT !.pc = how]
      BY DEF n
    <2> HIDE DEF r
    <2>. QED BY <2>1, <2>2, <2>3 DEF CltState
  <1> HIDE DEF r
  <1>3. mgr.start \in Nat /\ (mgr.pc # "down" => mgr.start >= 1)
    BY MgrFacts DEF ManagerOK, MgrOK
  <1>4. ~IsLive(mgr, c, r) /\ StartOK(mgr, r)
    BY <1>2, <1>3 DEF IsLive, StartOK
  <1>5. PcOK(r) /\ ProxyOK(mgr, c, r) /\ SegsKnown(segs, r) /\ InboxOK(params, segs, r)
    BY <1>2, EmptyList DEF PcOK, ProxyOK, SegsKnown, InboxOK, Closed, Mapping
  <1>. QED BY <1>2, <1>4, <1>5 DEF CltOK, LiveOK, r

\* The client goes on with the same messages and the same mappings.  It may leave
\* MapBuffers when it has mapped as many buffers as the header says.
LEMMA GoesOn ==
  ASSUME ManagerOK, NEW c \in Clients, NEW x, CltOK(params, mgr, segs, c, x), NEW r \in CltState,
         r.start = x.start, r.inbox = x.inbox, r.toMgr = x.toMgr, r.headerVec = x.headerVec,
         r.ids = x.ids, x.pc \notin Closed, x.pc # "numSlabs", r.pc \notin Closed, PcOK(r),
         r.pc = "numSlabs" => Len(x.headerVec) = segs[x.headerVec[1]].numBuffers,
         IsLive(mgr, c, x) => /\ r.pc = "valid" => r.hdr = <<mgr.start, 0>>
                              /\ r.pc = "map" => r.avail <= segs[<<mgr.start, 0>>].numBuffers
  PROVE  CltOK(params, mgr, segs, c, r)
  <1>1. StartOK(mgr, r) /\ ProxyOK(mgr, c, r) /\ SegsKnown(segs, r)
    BY DEF CltOK, StartOK, ProxyOK, SegsKnown
  <1>2. CASE r.pc # "numSlabs"
    <2>1. \A j : IsShm(x, j) => IsShm(r, j)
      BY <1>2 DEF IsShm
    <2>2. InboxOK(params, segs, r)
      BY <2>1 DEF CltOK, InboxOK
    <2>3. LiveOK(params, mgr, segs, c, r)
      BY <2>1 DEF CltOK, LiveOK, IsLive
    <2>. QED BY <1>1, <2>2, <2>3 DEF CltOK
  <1>3. CASE r.pc = "numSlabs"
    <2>1. InboxOK(params, segs, r)
      BY <1>3 DEF CltOK, InboxOK
    <2>2. Len(x.headerVec) > 0 /\ Len(x.headerVec) \in Nat
      BY <1>3, AppendSeg DEF PcOK, Mapping, CltState
    <2>3. ASSUME IsLive(mgr, c, x)
          PROVE  mgr.slabBuffers <= Len(x.headerVec)
      <3>1. 1 \in 1..Len(x.headerVec) /\ 1 - 1 = 0
        BY <2>2
      <3>2. x.headerVec[1] = <<mgr.start, 0>>
        BY <2>3, <3>1 DEF CltOK, LiveOK
      <3>. QED BY <1>3, <2>3, <3>2, LiveManager
    <2>4. LiveOK(params, mgr, segs, c, r)
      BY <1>3, <2>3 DEF CltOK, LiveOK, IsLive
    <2>. QED BY <1>1, <2>1, <2>4 DEF CltOK
  <1>. QED BY <1>2, <1>3

\* The client is done with the message at the head of its inbox; it was given ids.
LEMMA NextMessage ==
  ASSUME ManagerOK, NEW c \in Clients, NEW x, CltOK(params, mgr, segs, c, x), NEW r \in CltState,
         x.pc \in {"poll", "numSlabs"}, r.pc = "poll", Len(x.inbox) > 0, Len(x.headerVec) > 0,
         r.start = x.start, r.inbox = Tail(x.inbox), r.toMgr = x.toMgr, r.headerVec = x.headerVec,
         r.hdr = x.hdr,
         x.pc = "poll" => x.inbox[1].type # "ShmName",
         \A y \in r.ids : \/ y \in x.ids
                          \/ /\ GivesIDs(x.inbox[1]) /\ y = GivenBy(x.inbox[1]) /\ x.pc = "poll"
  PROVE  CltOK(params, mgr, segs, c, r)
  <1>1. /\ Len(r.inbox) = Len(x.inbox) - 1 /\ Len(x.inbox) \in Nat
        /\ \A i \in 1..(Len(x.inbox) - 1) : r.inbox[i] = x.inbox[i + 1]
    BY DEF CltOK, CltState, Msgs
  <1>2. StartOK(mgr, r) /\ ProxyOK(mgr, c, r) /\ SegsKnown(segs, r)
    BY DEF CltOK, StartOK, ProxyOK, SegsKnown, Closed
  <1>3. PcOK(r)
    BY <1>1 DEF CltOK, PcOK, Closed, Mapping
  \* a ShmName that is still to come for x is so for r
  <1>4. ASSUME NEW j \in 1..Len(x.inbox), IsShm(x, j)
        PROVE  j > 1 /\ j - 1 \in 1..Len(r.inbox) /\ IsShm(r, j - 1)
    <2>1. j > 1
      BY <1>4 DEF IsShm
    <2>2. j - 1 \in 1..(Len(x.inbox) - 1) /\ (j - 1) + 1 = j
      BY <1>1, <2>1
    <2>3. r.inbox[j - 1] = x.inbox[j]
      BY <1>1, <2>2
    <2>. QED BY <1>1, <1>4, <2>1, <2>2, <2>3 DEF IsShm
  <1>5. InboxOK(params, segs, r)
    <2> SUFFICES ASSUME NEW i \in 1..Len(r.inbox), GivesIDs(r.inbox[i]),
                        ~InBuffers(params, GivenBy(r.inbox[i]), Len(r.headerVec))
                 PROVE  /\ r.headerVec[1] = <<r.start, 0>>
                        /\ InBuffers(params, GivenBy(r.inbox[i]), segs[<<r.start, 0>>].numBuffers)
                        /\ \E j \in 1..(i - 1) : IsShm(r, j)
      BY DEF InboxOK
    <2>1. i + 1 \in 1..Len(x.inbox) /\ r.inbox[i] = x.inbox[i + 1] /\ x.pc \notin Closed
      BY <1>1 DEF Closed
    <2>2. /\ x.headerVec[1] = <<x.start, 0>>
          /\ InBuffers(params, GivenBy(x.inbox[i + 1]), segs[<<x.start, 0>>].numBuffers)
          /\ \E j \in 1..((i + 1) - 1) : IsShm(x, j)
      BY <2>1 DEF CltOK, InboxOK
    <2>3. PICK j \in 1..((i + 1) - 1) : IsShm(x, j)
      BY <2>2
    <2>4. j \in 1..Len(x.inbox) /\ j \in Nat /\ j <= i
      BY <2>1, <2>3, <1>1
    <2>5. j - 1 \in 1..(i - 1) /\ IsShm(r, j - 1)
      BY <1>4, <2>3, <2>4
    <2>. QED BY <2>1, <2>2, <2>5
  <1>6. LiveOK(params, mgr, segs, c, r)
    <2> SUFFICES ASSUME IsLive(mgr, c, r)
                 PROVE  LiveOK(params, mgr, segs, c, r)
      BY DEF LiveOK
    <2>1. IsLive(mgr, c, x) /\ LiveOK(params, mgr, segs, c, x) /\ x.start = mgr.start
      BY DEF IsLive, CltOK
    <2>2. /\ mgr.slabBuffers \in Nat /\ mgr.slabBuffers <= segs[<<mgr.start, 0>>].numBuffers
          /\ segs[<<mgr.start, 0>>].numBuffers \in Nat
      BY <2>1, LiveManager
    <2>3. mgr.slabBuffers <= Len(r.headerVec) \/ \E j \in 1..Len(r.inbox) : IsShm(r, j)
      BY <1>4, <2>1 DEF LiveOK
    <2>4. ASSUME NEW i \in 1..Len(r.inbox), GivesIDs(r.inbox[i])
          PROVE  InBuffers(params, GivenBy(r.inbox[i]), mgr.slabBuffers)
      <3>1. i + 1 \in 1..Len(x.inbox) /\ r.inbox[i] = x.inbox[i + 1]
        BY <1>1
      <3>. QED BY <2>1, <2>4, <3>1 DEF LiveOK
    <2>5. ASSUME GivesIDs(x.inbox[1]), x.pc = "poll"
          PROVE  InBuffers(params, GivenBy(x.inbox[1]), Len(x.headerVec))
      <3>1. 1 \in 1..Len(x.inbox) /\ 1..(1 - 1) = {}
        BY <1>1
      <3>. QED BY <2>5, <3>1 DEF CltOK, InboxOK, Closed
    <2>6. ASSUME GivesIDs(x.inbox[1])
          PROVE  InBuffers(params, GivenBy(x.inbox[1]), mgr.slabBuffers)
      <3>1. 1 \in 1..Len(x.inbox)
        BY <1>1
      <3>. QED BY <2>1, <2>6, <3>1 DEF LiveOK
    <2>7. \A y \in r.ids : /\ InBuffers(params, y, Len(r.headerVec))
                           /\ InBuffers(params, y, mgr.slabBuffers)
      BY <2>1, <2>5, <2>6 DEF LiveOK
    <2>. QED BY <2>1, <2>3, <2>4, <2>7 DEF LiveOK
  <1>. QED BY <1>2, <1>3, <1>5, <1>6 DEF CltOK

\* The next buffer is mapped; r is x but for that and pc.
LEMMA MapsBuffer ==
  ASSUME ManagerOK, NEW c \in Clients, NEW x, CltOK(params, mgr, segs, c, x), NEW r \in CltState,
         x.pc \in {"map0", "map"}, r.pc \in {"mapBuffers", "map", "assert"},
         Len(x.headerVec) \in Buffers, names[Len(x.headerVec)] # NoSeg,
         r.start = x.start, r.inbox = x.inbox, r.toMgr = x.toMgr, r.ids = x.ids, r.hdr = x.hdr,
         r.avail = x.avail, r.headerVec = Append(x.headerVec, names[Len(x.headerVec)]),
         x.pc = "map0" => r.pc = "mapBuffers",
         x.pc = "map" => r.pc = IF Len(x.headerVec) + 1 = x.avail THEN "assert" ELSE "map"
  PROVE  CltOK(params, mgr, segs, c, r)
  <1> DEFINE b == Len(x.headerVec)
             s == names[b]
  <1>1. s \in Segment /\ s \in DOMAIN segs /\ x.headerVec \in SegList
    <2>1. b \in Nat /\ NameOK(mgr, names, b)
      BY DEF ManagerOK, NamesOK, Buffers
    <2>2. PICK k \in Int : s = <<k, b>>
      BY <2>1 DEF NameOK
    <2>3. s \in Segment
      BY <2>1, <2>2 DEF Segment
    <2>. QED BY <2>3 DEF ManagerOK, KnownOK, CltOK, CltState
  <1>2. /\ Len(r.headerVec) = b + 1 /\ b \in Nat /\ r.headerVec[b + 1] = s
        /\ \A i \in 1..b : r.headerVec[i] = x.headerVec[i]
    BY <1>1, AppendSeg
  <1>3. x.pc = "map" => b < x.avail /\ x.avail \in Nat /\ x.avail <= maxNumBuffers
    BY DEF CltOK, PcOK, CltState
  <1>4. /\ Len(x.inbox) > 0 /\ x.inbox[1].type = "ShmName" /\ x.start >= 1
        /\ x.pc = "map0" => b = 0
        /\ x.hdr = NoSeg
    BY DEF CltOK, PcOK, Mapping, Closed
  <1> HIDE DEF b, s
  <1>5. PcOK(r)
    BY <1>2, <1>3, <1>4 DEF PcOK, Mapping, Closed, b
  <1>6. StartOK(mgr, r) /\ ProxyOK(mgr, c, r)
    BY DEF CltOK, StartOK, ProxyOK, Closed
  <1>7. SegsKnown(segs, r)
    BY <1>1, <1>2 DEF CltOK, SegsKnown, b
  <1>8. \A j : IsShm(x, j) => IsShm(r, j)
    BY DEF IsShm
  <1>9. InboxOK(params, segs, r)
    <2> SUFFICES ASSUME NEW i \in 1..Len(r.inbox), GivesIDs(r.inbox[i]),
                        ~InBuffers(params, GivenBy(r.inbox[i]), Len(r.headerVec))
                 PROVE  /\ r.headerVec[1] = <<r.start, 0>>
                        /\ InBuffers(params, GivenBy(r.inbox[i]), segs[<<r.start, 0>>].numBuffers)
                        /\ \E j \in 1..(i - 1) : IsShm(r, j)
      BY <1>2 DEF InboxOK
    <2>1. ~InBuffers(params, GivenBy(x.inbox[i]), Len(x.headerVec))
      BY <1>2, InBuffersMono DEF ManagerOK, b
    <2>2. /\ Len(x.headerVec) > 0 /\ x.headerVec[1] = <<x.start, 0>>
          /\ InBuffers(params, GivenBy(x.inbox[i]), segs[<<x.start, 0>>].numBuffers)
          /\ \E j \in 1..(i - 1) : IsShm(x, j)
      BY <2>1 DEF CltOK, InboxOK, Closed
    <2>3. r.headerVec[1] = x.headerVec[1]
      BY <1>2, <2>2 DEF b
    <2>. QED BY <1>8, <2>2, <2>3
  <1>10. LiveOK(params, mgr, segs, c, r)
    <2> SUFFICES ASSUME IsLive(mgr, c, r)
                 PROVE  LiveOK(params, mgr, segs, c, r)
      BY DEF LiveOK
    <2>1. IsLive(mgr, c, x) /\ LiveOK(params, mgr, segs, c, x) /\ x.start = mgr.start
      BY DEF IsLive, CltOK
    <2> DEFINE n == segs[<<mgr.start, 0>>].numBuffers
    <2>2. /\ mgr.slabBuffers \in Nat /\ mgr.slabBuffers <= n /\ n \in Nat
          /\ n <= Len(mgr.headerVec) /\ Len(mgr.headerVec) > 0 /\ Len(mgr.headerVec) \in Nat
          /\ \A d \in 0..(Len(mgr.headerVec) - 1) : names[d] = <<mgr.start, d>>
          /\ n > 0
      BY <2>1, LiveManager, MgrFacts DEF ManagerOK
    <2> HIDE DEF n
    <2>3. b < n
      <3>1. CASE x.pc = "map"
        BY <1>2, <1>3, <2>1, <2>2, <3>1 DEF LiveOK, n
      <3>2. CASE x.pc = "map0"
        BY <1>4, <2>2, <3>2
      <3>. QED BY <3>1, <3>2
    <2>4. s = <<mgr.start, b>>
      BY <1>2, <2>2, <2>3 DEF s
    <2>5. \A i \in 1..Len(r.headerVec) : r.headerVec[i] = <<mgr.start, i - 1>>
      <3> SUFFICES ASSUME NEW i \in 1..(b + 1)
                   PROVE  r.headerVec[i] = <<mgr.start, i - 1>>
        BY <1>2
      <3>1. CASE i \in 1..b
        BY <1>2, <2>1, <3>1 DEF LiveOK, b
      <3>2. CASE i = b + 1
        <4>1. i - 1 = b
          BY <1>2, <3>2
        <4>. QED BY <1>2, <2>4, <3>2, <4>1
      <3>. QED BY <1>2, <3>1, <3>2
    <2>6. mgr.slabBuffers <= Len(r.headerVec) \/ \E j \in 1..Len(r.inbox) : IsShm(r, j)
      BY <1>2, <1>8, <2>1, <2>2 DEF LiveOK, b
    <2>7. \A y \in r.ids : /\ InBuffers(params, y, Len(r.headerVec))
                           /\ InBuffers(params, y, mgr.slabBuffers)
      BY <1>2, <2>1, InBuffersMono DEF LiveOK, ManagerOK, b
    <2>8. Len(r.headerVec) <= n /\ (r.pc = "map" => r.avail <= n)
      BY <1>2, <2>1, <2>2, <2>3 DEF LiveOK, n
    <2>9. Len(r.headerVec) # 0
      BY <1>2
    <2>. QED BY <2>1, <2>5, <2>6, <2>7, <2>8, <2>9 DEF LiveOK, n
  <1>. QED BY <1>5, <1>6, <1>7, <1>9, <1>10 DEF CltOK

\* The client sends to its manager: the number of slabs it needs, or a block.
LEMMA SendsToManager ==
  ASSUME ManagerOK, NEW c \in Clients, NEW x, CltOK(params, mgr, segs, c, x), NEW r \in CltState,
         IsLive(mgr, c, x), x.pc = "poll", r.pc = "poll", Len(x.headerVec) > 0,
         r.start = x.start, r.inbox = x.inbox, r.headerVec = x.headerVec, r.hdr = x.hdr,
         \A i \in 1..Len(r.toMgr) : GivesIDs(r.toMgr[i]) =>
           InBuffers(params, GivenBy(r.toMgr[i]), mgr.slabBuffers),
         \A y \in r.ids : /\ InBuffers(params, y, Len(x.headerVec))
                          /\ InBuffers(params, y, mgr.slabBuffers)
  PROVE  CltOK(params, mgr, segs, c, r)
  <1>1. StartOK(mgr, r) /\ ProxyOK(mgr, c, r) /\ SegsKnown(segs, r) /\ PcOK(r)
    BY DEF CltOK, StartOK, ProxyOK, SegsKnown, PcOK, Closed, Mapping
  <1>2. \A j : IsShm(x, j) => IsShm(r, j)
    BY DEF IsShm
  <1>3. InboxOK(params, segs, r)
    BY <1>2 DEF CltOK, InboxOK, Closed
  <1>4. LiveOK(params, mgr, segs, c, r)
    BY <1>2 DEF CltOK, LiveOK, IsLive
  <1>. QED BY <1>1, <1>3, <1>4 DEF CltOK

\* the last block of a slab is in the buffer of the slab
LEMMA LastBlock ==
  ASSUME NEW p, ParamsOK(p), NEW id \in Nat, NEW k \in Nat, id < k * p.slabsPerBuffer,
         NEW b, b = p.slabSize \div p.blockSize
  PROVE  (id + 1) * b - 1 \in Nat /\ (id + 1) * b - 1 < k * p.numBlocks
  <1> DEFINE n == p.slabsPerBuffer
  <1>1. n \in Nat /\ b \in Nat \ {0} /\ p.numBlocks = b * n
    BY DEF ParamsOK
  <1> HIDE DEF n
  <1>2. k * n \in Nat /\ id + 1 <= k * n
    BY <1>1 DEF n
  <1>3. (id + 1) * b <= (k * n) * b
    BY <1>1, <1>2, TimesMono
  <1>4. (k * n) * b = k * p.numBlocks
    BY <1>1
  <1>5. (id + 1) * b = id * b + b /\ id * b \in Nat
    BY <1>1
  <1>. QED BY <1>1, <1>3, <1>4, <1>5

\* A name that exists is that of a segment.
LEMMA NamedSegment ==
  ASSUME NamesOK(mgr, names), NEW b \in Buffers, names[b] # NoSeg
  PROVE  names[b] \in Segment
  <1>1. b \in Nat /\ NameOK(mgr, names, b)
    BY DEF NamesOK, Buffers
  <1>2. PICK k \in Int : names[b] = <<k, b>>
    BY <1>1 DEF NameOK
  <1>. QED BY <1>1, <1>2 DEF Segment

\* Every step of a client keeps its invariant.
LEMMA RunsOK ==
  ASSUME ManagerOK, NEW c \in Clients, clt[c] \in CltState, CltOK(params, mgr, segs, c, clt[c]),
         Runs(c), InitialBuffers
  PROVE  \E r : Become(c, r) /\ CltOK(params, mgr, segs, c, r)
  <1> DEFINE x == clt[c]
             Goal == \E r : Become(c, r) /\ CltOK(params, mgr, segs, c, r)
  <1>0. /\ x \in CltState /\ CltOK(params, mgr, segs, c, x) /\ PcOK(x)
        /\ x.headerVec \in SegList /\ Len(x.headerVec) \in Nat /\ Len(x.inbox) \in Nat
        /\ x.inbox \in Msgs
    BY DEF CltOK, CltState, SegList, Msgs
  <1>1. ASSUME Close(c) \/ (\E how \in Closed : Dies(c, how))
        PROVE  Goal
    <2>1. CASE Close(c)
      <3>1. NoShm(c) = [NoShm(c) EXCEPT !.pc = "idle"]
        BY DEF NoShm, CltState
      <3>2. CltOK(params, mgr, segs, c, NoShm(c))
        BY <3>1, ClosedOK DEF Closed
      <3>. QED BY <2>1, <3>2 DEF Close
    <2>2. ASSUME NEW how \in Closed, Dies(c, how)
          PROVE  Goal
      BY <2>2, ClosedOK DEF Dies
    <2>. QED BY <1>1, <2>1, <2>2
  <1>2. ASSUME NEW r, Become(c, r), CltOK(params, mgr, segs, c, r)
        PROVE  Goal
    BY <1>2
  <1>3. ASSUME Returns(c), x.pc \in {"mapBuffers", "assert"},
               Len(x.headerVec) = segs[x.headerVec[1]].numBuffers
        PROVE  Goal
    <2> DEFINE pc == IF x.todo = 1 THEN "numSlabs" ELSE "mapBuffers"
               td == x.todo - 1
               r  == [x EXCEPT !.pc = pc, !.todo = td]
    <2>1. Become(c, r)
      BY <1>3 DEF Returns
    <2>2. pc \in {"numSlabs", "mapBuffers"} /\ td \in Int
      BY DEF CltState
    <2> HIDE DEF pc, td
    <2>3. /\ r \in CltState /\ r.pc = pc /\ r.start = x.start /\ r.inbox = x.inbox
          /\ r.toMgr = x.toMgr /\ r.headerVec = x.headerVec /\ r.ids = x.ids /\ r.hdr = x.hdr
      BY <2>2 DEF CltState, Mapping
    <2> HIDE DEF r, x
    <2>4. PcOK(r)
      BY <1>0, <1>3, <2>2, <2>3 DEF PcOK, Closed, Mapping
    <2>5. CltOK(params, mgr, segs, c, r)
      BY <1>0, <1>3, <2>2, <2>3, <2>4, GoesOn DEF Closed
    <2>. QED BY <1>2, <2>1, <2>5
  <1> HIDE DEF Goal
  <1>. SUFFICES Goal
    BY DEF Goal
  <1>4. CASE CloseCall(c)
    BY <1>1, <1>4 DEF CloseCall
  <1>5. CASE ValidHeader(c)
    <2>1. CASE Become(c, [x EXCEPT !.pc = "map0", !.hdr = NoSeg])
      <3> DEFINE r == [x EXCEPT !.pc = "map0", !.hdr = NoSeg]
      <3>1. /\ r \in CltState /\ r.pc = "map0" /\ r.start = x.start /\ r.inbox = x.inbox
            /\ r.toMgr = x.toMgr /\ r.headerVec = x.headerVec /\ r.ids = x.ids /\ r.hdr = NoSeg
        BY DEF CltState
      <3>2. x.pc = "valid"
        BY <1>5 DEF ValidHeader
      <3>3. Become(c, r)
        BY <2>1
      <3> HIDE DEF r, x
      <3>4. PcOK(r)
        BY <1>0, <3>1, <3>2 DEF PcOK, Closed, Mapping
      <3>5. CltOK(params, mgr, segs, c, r)
        BY <1>0, <3>1, <3>2, <3>4, GoesOn DEF Closed
      <3>. QED BY <1>2, <3>3, <3>5
    <2>. QED BY <1>1, <1>5, <2>1 DEF ValidHeader, Closed
  <1>6. CASE MapFirst(c)
    <2>1. CASE names[0] # NoSeg /\ Become(c, [x EXCEPT !.pc = "mapBuffers", !.todo = 2, !.headerVec = <<names[0]>>])
      <3> DEFINE hv == <<names[0]>>
                 td == 2
                 r  == [x EXCEPT !.pc = "mapBuffers", !.todo = td, !.headerVec = hv]
      <3>1. x.pc = "map0" /\ Len(x.headerVec) = 0 /\ 0 \in Buffers
        BY <1>0, <1>6, Constants DEF MapFirst, PcOK, InitialBuffers, Buffers
      <3>2. hv = Append(x.headerVec, names[Len(x.headerVec)])
        BY <1>0, <3>1 DEF SegList
      <3>3. names[0] \in Segment
        BY <2>1, <3>1, NamedSegment DEF ManagerOK
      <3>4. hv \in SegList
        BY <3>3 DEF SegList
      <3>5. Become(c, r) /\ td \in Int
        BY <2>1
      <3> HIDE DEF hv, td
      <3>6. /\ r \in CltState /\ r.pc = "mapBuffers" /\ r.start = x.start /\ r.inbox = x.inbox
            /\ r.toMgr = x.toMgr /\ r.headerVec = hv /\ r.ids = x.ids /\ r.hdr = x.hdr
            /\ r.avail = x.avail
        BY <3>4, <3>5 DEF CltState, Mapping
      <3> HIDE DEF r, x
      <3>7. CltOK(params, mgr, segs, c, r)
        BY <1>0, <2>1, <3>1, <3>2, <3>6, MapsBuffer
      <3>. QED BY <1>2, <3>5, <3>7
    <2>. QED BY <1>1, <1>6, <2>1 DEF MapFirst
  <1>7. CASE MapBuffers(c)
    <2> DEFINE n == segs[x.headerVec[1]].numBuffers
    <2>1. x.pc = "mapBuffers" /\ Len(x.headerVec) > 0
      BY <1>0, <1>7 DEF MapBuffers, PcOK, Mapping
    <2>2. x.headerVec[1] \in DOMAIN segs /\ 1 \in 1..Len(x.headerVec) /\ 1 - 1 = 0
      BY <1>0, <2>1 DEF CltOK, SegsKnown
    <2>3. n \in Nat /\ n <= maxNumBuffers
      BY <2>2 DEF ManagerOK, SegsOK, SegState, KnownOK
    <2>4. CASE Len(x.headerVec) < n /\ Become(c, [x EXCEPT !.pc = "map", !.avail = n])
      <3> DEFINE r == [x EXCEPT !.pc = "map", !.avail = n]
      <3>1. Become(c, r)
        BY <2>4
      <3>2. IsLive(mgr, c, x) => n = segs[<<mgr.start, 0>>].numBuffers
        BY <1>0, <2>2 DEF CltOK, LiveOK
      <3> HIDE DEF n
      <3>3. /\ r \in CltState /\ r.pc = "map" /\ r.start = x.start /\ r.inbox = x.inbox
            /\ r.toMgr = x.toMgr /\ r.headerVec = x.headerVec /\ r.ids = x.ids /\ r.hdr = x.hdr
            /\ r.avail = n
        BY <2>3 DEF CltState, Mapping
      <3> HIDE DEF r, x
      <3>4. PcOK(r)
        BY <1>0, <2>1, <2>3, <2>4, <3>3 DEF PcOK, Closed, Mapping
      <3>5. IsLive(mgr, c, x) => r.avail <= segs[<<mgr.start, 0>>].numBuffers
        BY <2>3, <3>2, <3>3
      <3>6. CltOK(params, mgr, segs, c, r)
        BY <1>0, <2>1, <3>3, <3>4, <3>5, GoesOn DEF Closed
      <3>. QED BY <1>2, <3>1, <3>6
    <2>5. CASE Returns(c) /\ Len(x.headerVec) = n
      BY <1>3, <2>1, <2>5
    <2>6. \/ Dies(c, "bus")
          \/ Close(c)
          \/ Returns(c) /\ Len(x.headerVec) = n
          \/ Len(x.headerVec) < n /\ Become(c, [x EXCEPT !.pc = "map", !.avail = n])
      <3>1. Len(x.headerVec) < n \/ Len(x.headerVec) = n \/ Len(x.headerVec) > n
        BY <1>0, <2>3
      <3>2. CASE ~segs[x.headerVec[1]].sized
        <4>1. Dies(c, "bus")
          BY <1>7, <3>2 DEF MapBuffers
        <4>. QED BY <4>1
      <3>3. CASE segs[x.headerVec[1]].sized /\ Len(x.headerVec) = n
        BY <1>7, <3>3 DEF MapBuffers
      <3>4. CASE segs[x.headerVec[1]].sized /\ Len(x.headerVec) < n
        <4>1. ~(Len(x.headerVec) > n) /\ Len(x.headerVec) # n
          BY <1>0, <2>3, <3>4
        <4>. QED BY <1>7, <3>4, <4>1 DEF MapBuffers
      <3>5. CASE segs[x.headerVec[1]].sized /\ Len(x.headerVec) > n
        <4>1. Len(x.headerVec) # n
          BY <1>0, <2>3, <3>5
        <4>2. Close(c)
          BY <1>7, <3>5, <4>1 DEF MapBuffers
        <4>. QED BY <4>2
      <3>. QED BY <3>1, <3>2, <3>3, <3>4, <3>5
    <2>. QED BY <1>1, <2>4, <2>5, <2>6 DEF Closed
  <1>8. CASE Map(c)
    <2> DEFINE b == Len(x.headerVec)
    <2>1. x.pc = "map" /\ b \in Buffers
      BY <1>0, <1>8, Constants DEF Map, PcOK, Buffers, CltState
    <2>2. CASE names[b] # NoSeg /\ Become(c, [x EXCEPT !.headerVec = Append(@, names[b]),
                                            !.pc = IF b + 1 = x.avail THEN "assert" ELSE @])
      <3> DEFINE hv == Append(x.headerVec, names[b])
                 pc == IF b + 1 = x.avail THEN "assert" ELSE "map"
                 r  == [x EXCEPT !.headerVec = hv, !.pc = pc]
      <3>1. Become(c, r)
        BY <2>1, <2>2 DEF CltState
      <3>2. names[b] \in Segment
        BY <2>1, <2>2, NamedSegment DEF ManagerOK
      <3>3. hv \in SegList /\ pc \in {"map", "assert"}
        BY <1>0, <3>2, AppendSeg
      <3> HIDE DEF hv, pc
      <3>4. /\ r \in CltState /\ r.pc = pc /\ r.start = x.start /\ r.inbox = x.inbox
            /\ r.toMgr = x.toMgr /\ r.headerVec = hv /\ r.ids = x.ids /\ r.hdr = x.hdr
            /\ r.avail = x.avail
        BY <3>3 DEF CltState, Mapping
      <3> HIDE DEF r, x
      <3>5. CltOK(params, mgr, segs, c, r)
        BY <1>0, <2>1, <2>2, <3>3, <3>4, MapsBuffer DEF hv, pc
      <3>. QED BY <1>2, <3>1, <3>5
    <2>. QED BY <1>1, <1>8, <2>2 DEF Map
  <1>9. CASE MapAsserts(c)
    <2>1. x.pc = "assert" /\ Len(x.headerVec) = x.avail
      BY <1>0, <1>9 DEF MapAsserts, PcOK
    <2>. QED BY <1>1, <1>3, <1>9, <2>1 DEF MapAsserts, Closed
  <1>10. CASE NumSlabs(c)
    <2>1. /\ x.pc = "numSlabs" /\ Len(x.inbox) > 0 /\ Len(x.headerVec) > 0
      BY <1>0, <1>10 DEF NumSlabs, PcOK, Mapping
    <2> DEFINE tl   == Tail(x.inbox)
               done == [x EXCEPT !.pc = "poll", !.inbox = tl, !.avail = 0]
    <2>2. tl \in Msgs
      BY <1>0, <2>1 DEF Msgs
    <2> HIDE DEF tl
    <2>3. /\ done \in CltState /\ done.pc = "poll" /\ done.start = x.start /\ done.inbox = tl
          /\ done.toMgr = x.toMgr /\ done.headerVec = x.headerVec /\ done.ids = x.ids
          /\ done.hdr = x.hdr /\ done.granted = x.granted
      BY <2>2 DEF CltState, Mapping
    <2>4. CltOK(params, mgr, segs, c, done)
      <3> HIDE DEF done, x
      <3>. QED BY <1>0, <2>1, <2>3, NextMessage DEF tl
    <2>5. CASE Become(c, done)
      BY <1>2, <2>4, <2>5
    <2>6. CASE Live(c) /\ Become(c, [done EXCEPT !.toMgr = Append(@, Msg("NumSlabs", 0))])
      <3> DEFINE msg == Msg("NumSlabs", 0)
                 tm  == Append(x.toMgr, msg)
                 r   == [done EXCEPT !.toMgr = tm]
      <3>1. msg \in Message /\ msg.type = "NumSlabs"
        BY DEF Msg, Message
      <3>2. x.toMgr \in Msgs
        BY DEF CltState
      <3> HIDE DEF msg
      <3>3. /\ tm \in Msgs
            /\ \A i \in 1..Len(tm) : tm[i] = msg \/ (i \in 1..Len(x.toMgr) /\ tm[i] = x.toMgr[i])
        BY <3>1, <3>2 DEF Msgs
      <3>4. Become(c, r)
        BY <2>3, <2>6 DEF msg
      <3> HIDE DEF tm
      <3>5. /\ r \in CltState /\ r.pc = "poll" /\ r.start = x.start /\ r.inbox = tl
            /\ r.toMgr = tm /\ r.headerVec = x.headerVec /\ r.ids = x.ids
            /\ r.hdr = x.hdr
        <4> HIDE DEF done
        <4>. QED BY <2>3, <3>3 DEF CltState
      <3> HIDE DEF r, done
      <3>6. IsLive(mgr, c, done)
        BY <2>3, <2>6 DEF Live, IsLive
      <3>7. LiveOK(params, mgr, segs, c, done)
        BY <2>4 DEF CltOK
      <3> HIDE DEF x
      <3>8. \A i \in 1..Len(r.toMgr) : GivesIDs(r.toMgr[i]) =>
              InBuffers(params, GivenBy(r.toMgr[i]), mgr.slabBuffers)
        BY <2>3, <3>1, <3>3, <3>5, <3>6, <3>7 DEF LiveOK, GivesIDs
      <3>9. \A y \in r.ids : /\ InBuffers(params, y, Len(done.headerVec))
                             /\ InBuffers(params, y, mgr.slabBuffers)
        BY <2>3, <3>5, <3>6, <3>7 DEF LiveOK
      <3>10. CltOK(params, mgr, segs, c, r)
        BY <2>1, <2>3, <2>4, <3>5, <3>6, <3>8, <3>9, SendsToManager
      <3>. QED BY <1>2, <3>4, <3>10
    <2>7. \/ Become(c, done)
          \/ Close(c)
          \/ Live(c) /\ Become(c, [done EXCEPT !.toMgr = Append(@, Msg("NumSlabs", 0))])
      <3>1. \/ Become(c, [x EXCEPT !.pc = "poll", !.inbox = Tail(@), !.avail = 0])
            \/ Close(c)
            \/ /\ Live(c)
               /\ Become(c, [[x EXCEPT !.pc = "poll", !.inbox = Tail(@), !.avail = 0]
                               EXCEPT !.toMgr = Append(@, Msg("NumSlabs", 0))])
        BY <1>10 DEF NumSlabs
      <3>2. [x EXCEPT !.pc = "poll", !.inbox = Tail(@), !.avail = 0] = done
        BY DEF tl
      <3> HIDE DEF done
      <3>. QED BY <3>1, <3>2
    <2>. QED BY <1>1, <2>5, <2>6, <2>7
  <1>11. CASE Poll(c)
    <2> DEFINE msg == Head(x.inbox)
               tl  == Tail(x.inbox)
    <2>1. x.pc = "poll"
      BY <1>11 DEF Poll
    <2>2. CASE x.inbox = <<>>
      BY <1>1, <1>11, <2>2 DEF Poll
    <2>3. CASE x.inbox # <<>>
      <3>1. /\ Len(x.inbox) > 0 /\ msg = x.inbox[1] /\ tl \in Msgs /\ msg \in Message
            /\ 1 \in 1..Len(x.inbox)
        BY <1>0, <2>3 DEF Msgs
      <3> HIDE DEF msg, tl
      <3>2. CASE msg.type = "ShmName"
        <4>1. CASE x.headerVec = <<>> /\ names[0] # NoSeg /\ FirstHeader(c)
          <5> DEFINE r == [x EXCEPT !.pc = "valid", !.hdr = names[0]]
          <5>1. Become(c, r) /\ 0 \in Buffers
            BY <4>1, Constants DEF FirstHeader, Buffers, InitialBuffers
          <5>2. names[0] \in Segment
            BY <4>1, <5>1, NamedSegment DEF ManagerOK
          <5>3. /\ r \in CltState /\ r.pc = "valid" /\ r.start = x.start /\ r.inbox = x.inbox
                /\ r.toMgr = x.toMgr /\ r.headerVec = x.headerVec /\ r.ids = x.ids
                /\ r.hdr = names[0]
            BY <5>2 DEF CltState
          <5>4. IsLive(mgr, c, x) => names[0] = <<mgr.start, 0>>
            <6>1. SUFFICES ASSUME IsLive(mgr, c, x)
                           PROVE  names[0] = <<mgr.start, 0>>
              OBVIOUS
            <6>2. Len(mgr.headerVec) > 0 /\ Len(mgr.headerVec) \in Nat
              BY <6>1, LiveManager, MgrFacts DEF ManagerOK
            <6>3. 0 \in 0..(Len(mgr.headerVec) - 1)
              BY <6>2
            <6>. QED BY <6>1, <6>3, LiveManager
          <5> HIDE DEF r, x
          <5>5. PcOK(r)
            BY <1>0, <2>1, <3>1, <3>2, <4>1, <5>3, EmptyList DEF PcOK, Closed, Mapping
          <5>6. CltOK(params, mgr, segs, c, r)
            BY <1>0, <2>1, <5>3, <5>4, <5>5, GoesOn DEF Closed
          <5>. QED BY <1>2, <5>1, <5>6
        <4>2. CASE x.headerVec # <<>> /\ Become(c, [x EXCEPT !.pc = "mapBuffers", !.todo = 1])
          <5> DEFINE td == 1
                     r  == [x EXCEPT !.pc = "mapBuffers", !.todo = td]
          <5>1. Become(c, r) /\ Len(x.headerVec) > 0 /\ td \in Int
            BY <1>0, <4>2 DEF SegList
          <5> HIDE DEF td
          <5>2. /\ r \in CltState /\ r.pc = "mapBuffers" /\ r.start = x.start /\ r.inbox = x.inbox
                /\ r.toMgr = x.toMgr /\ r.headerVec = x.headerVec /\ r.ids = x.ids
                /\ r.hdr = x.hdr
            BY <5>1 DEF CltState, Mapping
          <5> HIDE DEF r, x
          <5>3. PcOK(r)
            BY <1>0, <2>1, <3>1, <3>2, <5>1, <5>2 DEF PcOK, Closed, Mapping
          <5>4. CltOK(params, mgr, segs, c, r)
            BY <1>0, <2>1, <5>2, <5>3, GoesOn DEF Closed
          <5>. QED BY <1>2, <5>1, <5>4
        <4>3. \/ Close(c)
              \/ x.headerVec = <<>> /\ names[0] # NoSeg /\ FirstHeader(c)
              \/ x.headerVec # <<>> /\ Become(c, [x EXCEPT !.pc = "mapBuffers", !.todo = 1])
          BY <1>11, <2>3, <3>2 DEF Poll, FirstHeader, msg
        <4>. QED BY <1>1, <4>1, <4>2, <4>3
      <3>3. ASSUME msg.type # "ShmName", NEW r, Become(c, r), r \in CltState, r.pc = "poll",
                   r.start = x.start, r.inbox = tl, r.toMgr = x.toMgr,
                   r.headerVec = x.headerVec, r.hdr = x.hdr,
                   r.ids = x.ids \/ (GivesIDs(msg) /\ r.ids = x.ids \cup {GivenBy(msg)})
            PROVE  Goal
        <4>1. Len(x.headerVec) > 0
          BY <1>0, <2>1, <3>1, <3>3 DEF PcOK, Closed
        <4> HIDE DEF x
        <4>2. CltOK(params, mgr, segs, c, r)
          BY <1>0, <2>1, <3>1, <3>3, <4>1, NextMessage DEF tl
        <4>. QED BY <1>2, <3>3, <4>2
      <3>4. CASE msg.type = "NumSlabs" /\ Become(c, [x EXCEPT !.inbox = tl, !.granted = TRUE])
        <4> DEFINE r == [x EXCEPT !.inbox = tl, !.granted = TRUE]
        <4>1. /\ r \in CltState /\ r.pc = "poll" /\ r.start = x.start /\ r.inbox = tl
              /\ r.toMgr = x.toMgr /\ r.headerVec = x.headerVec /\ r.ids = x.ids
              /\ r.hdr = x.hdr
          BY <2>1, <3>1 DEF CltState
        <4>2. Become(c, r)
          BY <3>4
        <4> HIDE DEF r
        <4>. QED BY <3>3, <3>4, <4>1, <4>2
      <3>5. ASSUME NEW kind \in {"slab", "block"}, GivesIDs(msg),
                   GivenBy(msg) = [kind |-> kind, id |-> msg.arg],
                   msg.type # "ShmName", Become(c, Given(c, kind, msg.arg))
            PROVE  Goal
        <4> DEFINE g   == [kind |-> kind, id |-> msg.arg]
                   ids == x.ids \cup {g}
                   r   == [x EXCEPT !.inbox = tl, !.ids = ids]
        <4>1. Become(c, r)
          BY <3>5 DEF Given, tl
        <4>2. msg.arg \in Int \cup BOOLEAN
          BY <3>1 DEF Message
        <4>3. g \in Gift
          BY <4>2 DEF Gift
        <4>4. ids \in SUBSET Gift
          BY <4>3 DEF CltState
        <4>5. ids = x.ids \cup {GivenBy(msg)}
          BY <3>5
        <4> HIDE DEF ids, g
        <4>6. /\ r \in CltState /\ r.pc = "poll" /\ r.start = x.start /\ r.inbox = tl
              /\ r.toMgr = x.toMgr /\ r.headerVec = x.headerVec /\ r.ids = ids
              /\ r.hdr = x.hdr
          BY <2>1, <3>1, <4>4 DEF CltState
        <4> HIDE DEF r
        <4>. QED BY <3>3, <3>5, <4>1, <4>5, <4>6
      <3>6. \/ msg.type = "ShmName" \/ Close(c)
            \/ msg.type = "NumSlabs" /\ Become(c, [x EXCEPT !.inbox = tl, !.granted = TRUE])
            \/ msg.type = "SlabIDs" /\ Become(c, Given(c, "slab", msg.arg))
            \/ msg.type = "BlockIDs" /\ Become(c, Given(c, "block", msg.arg))
        BY <1>11, <2>3 DEF Poll, msg, tl
      <3>7. CASE msg.type = "SlabIDs" /\ Become(c, Given(c, "slab", msg.arg))
        BY <3>5, <3>7 DEF GivesIDs, GivenBy
      <3>8. CASE msg.type = "BlockIDs" /\ Become(c, Given(c, "block", msg.arg))
        BY <3>5, <3>8 DEF GivesIDs, GivenBy
      <3>. QED BY <1>1, <3>2, <3>4, <3>6, <3>7, <3>8
    <2>. QED BY <2>2, <2>3
  <1>12. CASE SendBlock(c)
    <2>1. /\ x.pc = "poll" /\ Live(c)
      BY <1>12 DEF SendBlock
    <2>2. PICK y \in x.ids :
            /\ y.kind = "slab"
            /\ Become(c, [x EXCEPT !.toMgr = <<Msg("BlockIDs", (y.id + 1) * BlocksPerSlab - 1)>>,
                                   !.ids = (x.ids \ {y}) \cup {[kind |-> "sent", id |-> y.id]}])
      BY <1>12 DEF SendBlock, CltState
    <2> DEFINE blk == (y.id + 1) * BlocksPerSlab - 1
               msg == Msg("BlockIDs", blk)
               tm  == <<msg>>
               g   == [kind |-> "sent", id |-> y.id]
               ids == (x.ids \ {y}) \cup {g}
               r   == [x EXCEPT !.toMgr = tm, !.ids = ids]
    <2>3. Become(c, r)
      BY <2>2
    <2>4. IsLive(mgr, c, x) /\ LiveOK(params, mgr, segs, c, x)
      BY <1>0, <2>1 DEF Live, IsLive, CltOK
    <2>5. Len(x.headerVec) > 0
      BY <1>0, <2>1, <2>2 DEF PcOK, Closed
    <2>6. mgr.slabBuffers \in Nat /\ ParamsOK(params)
      BY <2>4, LiveManager DEF ManagerOK
    <2>7. /\ InBuffers(params, y, Len(x.headerVec)) /\ InBuffers(params, y, mgr.slabBuffers)
          /\ y.id \in Nat /\ y.id < mgr.slabBuffers * params.slabsPerBuffer
      BY <2>2, <2>4 DEF LiveOK, InBuffers, PerBuffer
    <2>8. blk \in Nat /\ blk < mgr.slabBuffers * params.numBlocks
      BY <2>6, <2>7, LastBlock DEF BlocksPerSlab
    <2> HIDE DEF blk
    <2>9. /\ msg \in Message /\ InBuffers(params, GivenBy(msg), mgr.slabBuffers)
      BY <2>8 DEF Message, Msg, InBuffers, PerBuffer, GivenBy
    <2>10. /\ g \in Gift /\ InBuffers(params, g, Len(x.headerVec))
           /\ InBuffers(params, g, mgr.slabBuffers)
      BY <2>2, <2>7 DEF Gift, InBuffers, PerBuffer
    <2> HIDE DEF msg, g
    <2>11. tm \in Msgs /\ \A i \in 1..Len(tm) : tm[i] = msg
      BY <2>9 DEF Msgs
    <2>12. ids \in SUBSET Gift /\ \A z \in ids : z = g \/ z \in x.ids
      BY <2>10 DEF CltState
    <2> HIDE DEF tm, ids
    <2>13. /\ r \in CltState /\ r.pc = "poll" /\ r.start = x.start /\ r.inbox = x.inbox
           /\ r.toMgr = tm /\ r.headerVec = x.headerVec /\ r.ids = ids
           /\ r.hdr = x.hdr
      BY <2>1, <2>11, <2>12 DEF CltState
    <2> HIDE DEF r, x
    <2>14. \A i \in 1..Len(r.toMgr) : GivesIDs(r.toMgr[i]) =>
              InBuffers(params, GivenBy(r.toMgr[i]), mgr.slabBuffers)
      BY <2>9, <2>11, <2>13
    <2>15. \A z \in r.ids : /\ InBuffers(params, z, Len(x.headerVec))
                            /\ InBuffers(params, z, mgr.slabBuffers)
      BY <2>4, <2>10, <2>12, <2>13 DEF LiveOK
    <2>16. CltOK(params, mgr, segs, c, r)
      BY <1>0, <2>1, <2>4, <2>5, <2>13, <2>14, <2>15, SendsToManager
    <2>. QED BY <1>2, <2>3, <2>16
  <1>. QED BY <1>4, <1>5, <1>6, <1>7, <1>8, <1>9, <1>10, <1>11, <1>12 DEF Runs, Goal

(***************************************************************************)
(* Steps of the manager, as one client sees them.                          *)
(***************************************************************************)
\* The segments of a step that follows: they stay, and gain buffers.
Grown(sg) ==
  /\ DOMAIN segs \subseteq DOMAIN sg
  /\ \A s \in DOMAIN sg : sg[s].numBuffers \in Nat
  /\ \A t : (t = mgr.start /\ mgr.pc # "down" => Len(mgr.headerVec) > 0) /\ <<t, 0>> \in DOMAIN segs
               => sg[<<t, 0>>].numBuffers >= segs[<<t, 0>>].numBuffers

\* A manager m after mgr has no new connection with c, and no reservation for it
\* before it has mapped a buffer.
Follows(m, c, x) ==
  /\ StartOK(m, x)
  /\ c \in DOMAIN m.proxies =>
       /\ m.start = mgr.start /\ c \in DOMAIN mgr.proxies
       /\ m.slabBuffers \in Nat /\ mgr.slabBuffers <= m.slabBuffers
       /\ IsLive(mgr, c, x) /\ Len(x.headerVec) = 0 => m.proxies[c].reserved = 0 /\ m.for # c

\* The client keeps what it has.  Messages may be added to its inbox, and taken
\* from what it sent; the manager may hang up, or have more buffers, which it
\* then announces.
LEMMA CltKept ==
  ASSUME ManagerOK, NEW c \in Clients, NEW x, CltOK(params, mgr, segs, c, x), NEW r \in CltState,
         r.pc = x.pc, r.start = x.start, r.headerVec = x.headerVec, r.hdr = x.hdr,
         r.avail = x.avail, r.ids = x.ids,
         NEW k \in Nat, Len(x.inbox) \in Nat, Len(r.inbox) = Len(x.inbox) + k,
         \A i \in 1..Len(x.inbox) : r.inbox[i] = x.inbox[i],
         x.pc \notin Closed =>
           \A i \in (Len(x.inbox) + 1)..Len(r.inbox) :
             /\ Len(x.headerVec) = 0 => r.inbox[i].type = "ShmName"
             /\ GivesIDs(r.inbox[i]) =>
                  /\ IsLive(mgr, c, x) /\ Len(x.headerVec) > 0
                  /\ InBuffers(params, GivenBy(r.inbox[i]), mgr.slabBuffers),
         x.toMgr = <<>> => r.toMgr = <<>>,
         \A i \in 1..Len(r.toMgr) : \E j \in 1..Len(x.toMgr) : r.toMgr[i] = x.toMgr[j],
         NEW m, Follows(m, c, x),
         \/ m.slabBuffers = mgr.slabBuffers
         \/ IsLive(mgr, c, x) =>
              \E j \in (Len(x.inbox) + 1)..Len(r.inbox) : r.inbox[j].type = "ShmName",
         NEW sg, Grown(sg)
  PROVE  CltOK(params, m, sg, c, r)
  <1>. /\ StartOK(m, x)
       /\ c \in DOMAIN m.proxies =>
           /\ m.start = mgr.start /\ c \in DOMAIN mgr.proxies
           /\ m.slabBuffers \in Nat /\ mgr.slabBuffers <= m.slabBuffers
           /\ IsLive(mgr, c, x) /\ Len(x.headerVec) = 0 => m.proxies[c].reserved = 0 /\ m.for # c
       /\ DOMAIN segs \subseteq DOMAIN sg
       /\ \A s \in DOMAIN sg : sg[s].numBuffers \in Nat
       /\ \A t : (t = mgr.start /\ mgr.pc # "down" => Len(mgr.headerVec) > 0) /\ <<t, 0>> \in DOMAIN segs
                   => sg[<<t, 0>>].numBuffers >= segs[<<t, 0>>].numBuffers
    BY DEF Follows, Grown
  <1>1. StartOK(m, r) /\ SegsKnown(sg, r)
    BY DEF CltOK, SegsKnown, StartOK
  <1>2. ProxyOK(m, c, r)
    BY DEF CltOK, ProxyOK
  <1>3. ASSUME NEW i \in 1..Len(r.inbox)
        PROVE  \/ i \in 1..Len(x.inbox) /\ r.inbox[i] = x.inbox[i]
               \/ i \in (Len(x.inbox) + 1)..Len(r.inbox)
    OBVIOUS
  <1>4. PcOK(r)
    <2>1. Len(x.inbox) > 0 => Len(r.inbox) > 0 /\ r.inbox[1] = x.inbox[1]
      <3>1. Len(x.inbox) > 0 => 1 \in 1..Len(x.inbox)
        OBVIOUS
      <3>. QED BY <3>1
    <2>2. (r.pc \notin Closed /\ Len(r.headerVec) = 0) =>
            \A i \in 1..Len(r.inbox) : r.inbox[i].type = "ShmName"
      BY <1>3 DEF CltOK, PcOK
    <2>. QED BY <2>1, <2>2 DEF CltOK, PcOK
  <1>5. \A j \in 1..Len(x.inbox) : IsShm(x, j) => IsShm(r, j)
    BY DEF IsShm
  <1>6. ASSUME x.pc \notin Closed, Len(x.headerVec) > 0, x.headerVec[1] = <<x.start, 0>>
        PROVE  /\ sg[<<x.start, 0>>].numBuffers >= segs[<<x.start, 0>>].numBuffers
               /\ sg[<<x.start, 0>>].numBuffers \in Nat /\ segs[<<x.start, 0>>].numBuffers \in Nat
               /\ <<x.start, 0>> \in DOMAIN segs
    <2>1. <<x.start, 0>> \in DOMAIN segs
      <3>1. Len(x.headerVec) \in Nat
        BY DEF CltOK, CltState, SegList
      <3>2. 1 \in 1..Len(x.headerVec)
        BY <1>6, <3>1
      <3>. QED BY <1>6, <3>2 DEF CltOK, SegsKnown
    <2>2. (x.start = mgr.start /\ mgr.pc # "down") => Len(mgr.headerVec) > 0
      <3>1. SUFFICES ASSUME x.start = mgr.start, mgr.pc # "down"
                     PROVE  Len(mgr.headerVec) > 0
        OBVIOUS
      <3>2. mgr.start \in Nat /\ Len(mgr.headerVec) \in Nat
        BY MgrFacts DEF ManagerOK
      <3>3. Serving(mgr)
        BY <3>1, <3>2 DEF CltOK, StartOK
      <3>. QED BY <3>2, <3>3 DEF ManagerOK, ServingOK
    <2>3. segs[<<x.start, 0>>].numBuffers \in Nat
      BY <2>1 DEF ManagerOK, SegsOK, SegState
    <2>. QED BY <2>1, <2>2, <2>3
  <1>7. ASSUME IsLive(m, c, r)
        PROVE  /\ IsLive(mgr, c, x) /\ LiveOK(params, mgr, segs, c, x) /\ x.pc \notin Closed
               /\ m.start = mgr.start /\ x.start = mgr.start
    <2>1. /\ c \in DOMAIN mgr.proxies /\ m.start = mgr.start /\ x.start = mgr.start
      BY <1>7 DEF IsLive
    <2>2. mgr.pc # "down"
      BY <2>1 DEF ManagerOK, MgrOK
    <2>3. IsLive(mgr, c, x)
      BY <2>1, <2>2 DEF IsLive
    <2>4. x.start >= 1
      BY <2>1, <2>3, LiveManager
    <2>5. x.pc \notin Closed
      BY <2>4 DEF CltOK, PcOK
    <2>. QED BY <2>1, <2>3, <2>5 DEF CltOK
  <1>8. InboxOK(params, sg, r)
    <2> SUFFICES ASSUME x.pc \notin Closed, NEW i \in 1..Len(r.inbox), GivesIDs(r.inbox[i]),
                        ~InBuffers(params, GivenBy(r.inbox[i]), Len(r.headerVec))
                 PROVE  /\ Len(r.headerVec) > 0 /\ r.headerVec[1] = <<r.start, 0>>
                        /\ InBuffers(params, GivenBy(r.inbox[i]), sg[<<r.start, 0>>].numBuffers)
                        /\ \E j \in 1..(i - 1) : IsShm(r, j)
      BY DEF InboxOK
    <2>1. CASE i \in 1..Len(x.inbox)
      <3>1. r.inbox[i] = x.inbox[i]
        BY <2>1
      <3>2. /\ Len(x.headerVec) > 0 /\ x.headerVec[1] = <<x.start, 0>>
            /\ InBuffers(params, GivenBy(x.inbox[i]), segs[<<x.start, 0>>].numBuffers)
            /\ \E j \in 1..(i - 1) : IsShm(x, j)
        BY <2>1, <3>1 DEF CltOK, InboxOK
      <3>3. InBuffers(params, GivenBy(r.inbox[i]), sg[<<r.start, 0>>].numBuffers)
        BY <1>6, <3>1, <3>2, InBuffersMono DEF ManagerOK
      <3>4. \E j \in 1..(i - 1) : IsShm(r, j)
        BY <1>5, <2>1, <3>2
      <3>. QED BY <3>2, <3>3, <3>4
    <2>2. CASE i \in (Len(x.inbox) + 1)..Len(r.inbox)
      <3>1. /\ IsLive(mgr, c, x) /\ Len(x.headerVec) > 0 /\ LiveOK(params, mgr, segs, c, x)
            /\ InBuffers(params, GivenBy(r.inbox[i]), mgr.slabBuffers)
        BY <2>2 DEF CltOK
      <3>2. /\ mgr.slabBuffers \in Nat /\ mgr.slabBuffers <= segs[<<mgr.start, 0>>].numBuffers
            /\ segs[<<mgr.start, 0>>].numBuffers \in Nat /\ x.start = mgr.start
        BY <3>1, LiveManager DEF IsLive
      <3>3. Len(x.headerVec) \in Nat
        BY DEF CltOK, CltState, SegList
      <3>4. x.headerVec[1] = <<x.start, 0>>
        <4>1. 1 \in 1..Len(x.headerVec) /\ 1 - 1 = 0
          BY <3>1, <3>3
        <4>. QED BY <3>1, <3>2, <4>1 DEF LiveOK
      <3>5. InBuffers(params, GivenBy(r.inbox[i]), sg[<<r.start, 0>>].numBuffers)
        <4>1. /\ sg[<<x.start, 0>>].numBuffers \in Nat
              /\ mgr.slabBuffers <= sg[<<x.start, 0>>].numBuffers
          BY <1>6, <3>1, <3>2, <3>4
        <4>. QED BY <3>1, <3>2, <4>1, InBuffersMono DEF ManagerOK
      <3>6. ~(mgr.slabBuffers <= Len(x.headerVec))
        BY <3>1, <3>2, <3>3, InBuffersMono DEF ManagerOK
      <3>7. PICK j \in 1..Len(x.inbox) : IsShm(x, j)
        BY <3>1, <3>6 DEF LiveOK
      <3>8. j \in 1..(i - 1) /\ IsShm(r, j)
        BY <1>5, <2>2, <3>7
      <3>. QED BY <3>1, <3>4, <3>5, <3>8
    <2>. QED BY <1>3, <2>1, <2>2
  <1>9. LiveOK(params, m, sg, c, r)
    <2> SUFFICES ASSUME IsLive(m, c, r)
                 PROVE  LiveOK(params, m, sg, c, r)
      BY DEF LiveOK
    <2>1. /\ IsLive(mgr, c, x) /\ LiveOK(params, mgr, segs, c, x) /\ x.pc \notin Closed
          /\ m.start = mgr.start /\ x.start = mgr.start
      BY <1>7
    <2>2. c \in DOMAIN m.proxies
      BY DEF IsLive
    <2>3. /\ mgr.slabBuffers \in Nat /\ m.slabBuffers \in Nat /\ mgr.slabBuffers <= m.slabBuffers
          /\ <<mgr.start, 0>> \in DOMAIN segs
          /\ segs[<<mgr.start, 0>>].numBuffers \in Nat /\ sg[<<mgr.start, 0>>].numBuffers \in Nat
          /\ Len(mgr.headerVec) > 0
      BY <2>1, <2>2, LiveManager
    <2>4. sg[<<mgr.start, 0>>].numBuffers >= segs[<<mgr.start, 0>>].numBuffers
      BY <2>3
    <2>5. Len(x.headerVec) \in Nat /\ x.avail \in Nat
      BY DEF CltOK, CltState, SegList
    <2>6. \A y : InBuffers(params, y, mgr.slabBuffers) => InBuffers(params, y, m.slabBuffers)
      BY <2>3, InBuffersMono DEF ManagerOK
    <2>7. Len(r.headerVec) = 0 => m.proxies[c].reserved = 0 /\ m.for # c
      BY <2>1, <2>2
    <2>8. /\ Len(r.headerVec) <= sg[<<m.start, 0>>].numBuffers
          /\ r.pc = "map" => r.avail <= sg[<<m.start, 0>>].numBuffers
          /\ r.pc = "valid" => r.hdr = <<m.start, 0>>
          /\ \A i \in 1..Len(r.headerVec) : r.headerVec[i] = <<m.start, i - 1>>
      <3> DEFINE n == segs[<<mgr.start, 0>>].numBuffers
                 o == sg[<<mgr.start, 0>>].numBuffers
      <3>1. n \in Nat /\ o \in Nat /\ n <= o
        BY <2>3, <2>4
      <3>2. /\ Len(x.headerVec) <= n
            /\ x.pc = "map" => x.avail <= n
            /\ x.pc = "valid" => x.hdr = <<mgr.start, 0>>
            /\ \A i \in 1..Len(x.headerVec) : x.headerVec[i] = <<mgr.start, i - 1>>
        BY <2>1 DEF LiveOK
      <3>3. sg[<<m.start, 0>>].numBuffers = o /\ m.start = mgr.start
        BY <2>1
      <3> HIDE DEF n, o
      <3>4. Len(x.headerVec) <= o /\ (x.pc = "map" => x.avail <= o)
        BY <2>5, <3>1, <3>2
      <3>. QED BY <3>2, <3>3, <3>4
    <2>9. m.slabBuffers <= Len(r.headerVec) \/ \E j \in 1..Len(r.inbox) : IsShm(r, j)
      <3>1. CASE m.slabBuffers = mgr.slabBuffers
        <4>1. mgr.slabBuffers <= Len(x.headerVec) \/ \E j \in 1..Len(x.inbox) : IsShm(x, j)
          BY <2>1 DEF LiveOK
        <4>2. \A j \in 1..Len(x.inbox) : j \in 1..Len(r.inbox)
          OBVIOUS
        <4>. QED BY <1>5, <3>1, <4>1, <4>2
      <3>2. CASE \E j \in (Len(x.inbox) + 1)..Len(r.inbox) : r.inbox[j].type = "ShmName"
        <4>1. PICK j \in (Len(x.inbox) + 1)..Len(r.inbox) : r.inbox[j].type = "ShmName"
          BY <3>2
        <4>2. r.pc = "numSlabs" => Len(x.inbox) > 0
          BY DEF CltOK, PcOK, Mapping
        <4>3. j \in 1..Len(r.inbox) /\ (r.pc = "numSlabs" => j > 1)
          BY <4>1, <4>2
        <4>. QED BY <4>1, <4>3 DEF IsShm
      <3>. QED BY <2>1, <2>2, <3>1, <3>2
    <2>10. \A y \in r.ids : InBuffers(params, y, Len(r.headerVec)) /\ InBuffers(params, y, m.slabBuffers)
      BY <2>1, <2>6 DEF LiveOK
    <2>11. ASSUME NEW i \in 1..Len(r.toMgr), GivesIDs(r.toMgr[i])
           PROVE  InBuffers(params, GivenBy(r.toMgr[i]), m.slabBuffers)
      BY <2>1, <2>6, <2>11 DEF LiveOK
    <2>12. ASSUME NEW i \in 1..Len(r.inbox), GivesIDs(r.inbox[i])
           PROVE  InBuffers(params, GivenBy(r.inbox[i]), m.slabBuffers)
      <3>1. InBuffers(params, GivenBy(r.inbox[i]), mgr.slabBuffers)
        BY <1>3, <2>1, <2>12 DEF LiveOK
      <3>. QED BY <2>6, <3>1
    <2>. QED BY <2>7, <2>8, <2>9, <2>10, <2>11, <2>12 DEF LiveOK
  <1>. QED BY <1>1, <1>2, <1>4, <1>8, <1>9 DEF CltOK

\* The invariant of all clients.
ClientsOK == clt \in [Clients -> CltState] /\ \A c \in Clients : CltOK(params, mgr, segs, c, clt[c])

\* q is the inbox of x and messages that the manager may add to it.
Longer(c, x, q) ==
  /\ \E k \in Nat : Len(q) = Len(x.inbox) + k
  /\ \A i \in 1..Len(x.inbox) : q[i] = x.inbox[i]
  /\ x.pc \notin Closed =>
       \A i \in (Len(x.inbox) + 1)..Len(q) :
         /\ Len(x.headerVec) = 0 => q[i].type = "ShmName"
         /\ GivesIDs(q[i]) => /\ IsLive(mgr, c, x) /\ Len(x.headerVec) > 0
                              /\ InBuffers(params, GivenBy(q[i]), mgr.slabBuffers)

\* The inbox q of x got a ShmName.
Announced(x, q) == \E j \in (Len(x.inbox) + 1)..Len(q) : q[j].type = "ShmName"

\* tm is what x sent and the manager has not read.
Unread(x, tm) == tm = x.toMgr \/ tm = <<>> \/ (x.toMgr # <<>> /\ tm = Tail(x.toMgr))

\* CltKept, for a client whose inbox becomes q and whose messages the manager has read.
LEMMA CltGets ==
  ASSUME ManagerOK, NEW c \in Clients, NEW x \in CltState, CltOK(params, mgr, segs, c, x),
         NEW m, Follows(m, c, x), NEW sg, Grown(sg),
         NEW q \in Msgs, Longer(c, x, q),
         m.slabBuffers = mgr.slabBuffers \/ (IsLive(mgr, c, x) => Announced(x, q)),
         NEW tm, Unread(x, tm),
         NEW r, r = [x EXCEPT !.inbox = q, !.toMgr = tm]
  PROVE  r \in CltState /\ CltOK(params, m, sg, c, r)
  <1>1. x.toMgr \in Msgs /\ Len(x.inbox) \in Nat
    BY DEF CltState, Msgs
  <1>2. /\ tm \in Msgs /\ (x.toMgr = <<>> => tm = <<>>)
        /\ \A i \in 1..Len(tm) : \E j \in 1..Len(x.toMgr) : tm[i] = x.toMgr[j]
    <2>1. CASE tm = x.toMgr
      BY <1>1, <2>1
    <2>2. CASE tm = <<>>
      BY <2>2 DEF Msgs
    <2>3. CASE x.toMgr # <<>> /\ tm = Tail(x.toMgr)
      <3>1. /\ tm \in Msgs /\ Len(tm) = Len(x.toMgr) - 1 /\ Len(x.toMgr) \in Nat
            /\ \A i \in 1..Len(tm) : tm[i] = x.toMgr[i + 1]
        BY <1>1, <2>3 DEF Msgs
      <3>2. \A i \in 1..Len(tm) : i + 1 \in 1..Len(x.toMgr)
        BY <3>1
      <3>. QED BY <2>3, <3>1, <3>2
    <2>. QED BY <2>1, <2>2, <2>3 DEF Unread
  <1>3. /\ r \in CltState /\ r.pc = x.pc /\ r.start = x.start /\ r.headerVec = x.headerVec
        /\ r.hdr = x.hdr /\ r.avail = x.avail /\ r.ids = x.ids /\ r.inbox = q /\ r.toMgr = tm
    BY <1>2 DEF CltState
  <1>a. PICK k \in Nat : Len(q) = Len(x.inbox) + k
    BY DEF Longer
  <1>4. /\ Len(r.inbox) = Len(x.inbox) + k
        /\ \A i \in 1..Len(x.inbox) : r.inbox[i] = x.inbox[i]
        /\ x.pc \notin Closed =>
             \A i \in (Len(x.inbox) + 1)..Len(r.inbox) :
               /\ Len(x.headerVec) = 0 => r.inbox[i].type = "ShmName"
               /\ GivesIDs(r.inbox[i]) => /\ IsLive(mgr, c, x) /\ Len(x.headerVec) > 0
                                          /\ InBuffers(params, GivenBy(r.inbox[i]), mgr.slabBuffers)
        /\ \/ m.slabBuffers = mgr.slabBuffers
           \/ IsLive(mgr, c, x) =>
                \E j \in (Len(x.inbox) + 1)..Len(r.inbox) : r.inbox[j].type = "ShmName"
        /\ x.toMgr = <<>> => r.toMgr = <<>>
        /\ \A i \in 1..Len(r.toMgr) : \E j \in 1..Len(x.toMgr) : r.toMgr[i] = x.toMgr[j]
    BY <1>a, <1>2, <1>3 DEF Longer, Announced
  <1>. QED BY <1>1, <1>3, <1>4, CltKept

\* The client is not concerned, or its manager hung up.
LEMMA CltSame ==
  ASSUME ManagerOK, NEW c \in Clients, NEW x \in CltState, CltOK(params, mgr, segs, c, x),
         NEW m, Follows(m, c, x), m.slabBuffers = mgr.slabBuffers \/ ~IsLive(mgr, c, x),
         NEW sg, Grown(sg),
         NEW r, r = x \/ r = [x EXCEPT !.toMgr = <<>>] \/ (x.toMgr # <<>> /\ r = [x EXCEPT !.toMgr = Tail(@)])
  PROVE  r \in CltState /\ CltOK(params, m, sg, c, r)
  <1>1. PICK tm : Unread(x, tm) /\ r = [x EXCEPT !.inbox = x.inbox, !.toMgr = tm]
    <2>1. CASE r = x
      <3>1. r = [x EXCEPT !.inbox = x.inbox, !.toMgr = x.toMgr]
        BY <2>1 DEF CltState
      <3>. QED BY <3>1 DEF Unread
    <2>2. CASE r = [x EXCEPT !.toMgr = <<>>]
      <3>1. r = [x EXCEPT !.inbox = x.inbox, !.toMgr = <<>>]
        BY <2>2 DEF CltState
      <3>. QED BY <3>1 DEF Unread
    <2>3. CASE x.toMgr # <<>> /\ r = [x EXCEPT !.toMgr = Tail(@)]
      <3>1. r = [x EXCEPT !.inbox = x.inbox, !.toMgr = Tail(x.toMgr)]
        BY <2>3 DEF CltState
      <3>. QED BY <2>3, <3>1 DEF Unread
    <2>. QED BY <2>1, <2>2, <2>3
  <1>2. x.inbox \in Msgs /\ Len(x.inbox) \in Nat /\ Len(x.inbox) = Len(x.inbox) + 0
    BY DEF CltState, Msgs
  <1>3. (Len(x.inbox) + 1)..Len(x.inbox) = {}
    BY <1>2
  <1>4. Longer(c, x, x.inbox)
    BY <1>2, <1>3 DEF Longer
  <1>. QED BY <1>1, <1>2, <1>4, CltGets

\* A step of the manager that keeps what slabManager hands out.
LEMMA FollowsFrom ==
  ASSUME ManagerOK, NEW c \in Clients, NEW x, CltOK(params, mgr, segs, c, x), NEW m,
         m.start = mgr.start, m.slabBuffers = mgr.slabBuffers,
         (m.pc # "down" /\ ~Serving(m)) => (mgr.pc # "down" /\ ~Serving(mgr)),
         c \in DOMAIN m.proxies =>
           /\ c \in DOMAIN mgr.proxies /\ (c # mgr.for => m.proxies[c] = mgr.proxies[c])
           /\ m.for = c => mgr.for = c \/ (IsLive(mgr, c, x) => Len(x.headerVec) # 0)
  PROVE  Follows(m, c, x)
  <1>1. StartOK(m, x)
    BY DEF CltOK, StartOK
  <1>2. mgr.slabBuffers \in Nat /\ mgr.slabBuffers <= mgr.slabBuffers
    BY DEF ManagerOK, MgrOK, MgrState
  <1>. QED BY <1>1, <1>2 DEF Follows, CltOK, LiveOK

\* Every step keeps ManagerOK, and the segments as clients know them.
LEMMA ManagerStep ==
  ASSUME ManagerOK, [Next]_vars, InitialBuffers
  PROVE  ManagerOK' /\ params' = params /\ Grown(segs')
  <1>1. params' = params
    <2>1. ASSUME NEW c \in Clients, Runs(c)
          PROVE  params' = params
      BY <2>1, RunsBecome DEF Become
    <2>2. ASSUME NEW c \in Clients, Readable(c) \/ Accept(c)
          PROVE  params' = params
      BY <2>2 DEF Readable, Accept
    <2>3. CASE Manages
      BY <2>3 DEF Manages, Start, OpenShm, Truncate, CreateFails, WriteHeader, Publish, Lock, Reserve,
                  Stop, Killed
    <2>. QED BY <2>1, <2>2, <2>3 DEF Next, vars
  <1>2. ManagerOK'
    BY <1>1, MgrStep, NamesStep, SegsStep, ServingStep, KnownStep DEF ManagerOK, NamesOK
  <1>3. \A s \in DOMAIN segs' : segs'[s].numBuffers \in Nat
    BY <1>2 DEF ManagerOK, SegsOK, SegState
  <1>. QED BY <1>1, <1>2, <1>3, KnownStep DEF ManagerOK, NamesOK, Grown

\* Client c after a step of the manager.
Kept(c) == clt'[c] \in CltState /\ CltOK(params, mgr', segs', c, clt'[c])

\* An exception in IncreaseNumBuffers disconnects at most one client.
LEMMA ThrowKept ==
  ASSUME ManagerOK, ClientsOK, NEW nms, mgr.pc \in Growing \cup {"lock"},
         Throw(nms, mgr.headerVec), Grown(segs')
  PROVE  clt' \in [Clients -> CltState] /\ \A c \in Clients : Kept(c)
  <1>1. MgrOK(mgr)
    BY DEF ManagerOK
  <1>2. /\ mgr'.start = mgr.start /\ mgr'.slabBuffers = mgr.slabBuffers /\ mgr'.for = None
        /\ mgr'.pc = "down" \/ Serving(mgr')
        /\ \A d \in DOMAIN mgr'.proxies : d \in DOMAIN mgr.proxies /\ mgr'.proxies[d] = mgr.proxies[d]
    <2>1. CASE mgr.for = None
      <3>1. mgr' = Ended(TRUE)
        BY <2>1 DEF Throw
      <3>2. mgr'.slabBuffers = mgr.slabBuffers /\ mgr'.proxies = <<>>
        BY <1>1, <3>1 DEF Ended, MgrOK, MgrState
      <3>. QED BY <1>1, <3>1, <3>2, EndedFields, ProxiesEmpty
    <2>2. CASE mgr.for # None
      <3>1. /\ mgr' = [mgr EXCEPT !.pc = "loop", !.headerVec = mgr.headerVec, !.for = None,
                             !.proxies = FnWithout(mgr.proxies, mgr.for)]
        BY <2>2 DEF Throw
      <3>2. /\ mgr'.start = mgr.start /\ mgr'.slabBuffers = mgr.slabBuffers /\ mgr'.for = None
            /\ mgr'.pc = "loop" /\ mgr'.proxies = FnWithout(mgr.proxies, mgr.for)
        BY <1>1, <3>1 DEF MgrOK, MgrState
      <3>. QED BY <3>2 DEF FnWithout, Serving
    <2>. QED BY <2>1, <2>2
  <1>3. ASSUME NEW c \in Clients
        PROVE  Follows(mgr', c, clt[c]) /\ (clt'[c] = clt[c] \/ clt'[c] = [clt[c] EXCEPT !.toMgr = <<>>])
    <2>1. Follows(mgr', c, clt[c])
      BY <1>2, Constants, FollowsFrom DEF ClientsOK
    <2>2. clt'[c] = clt[c] \/ clt'[c] = [clt[c] EXCEPT !.toMgr = <<>>]
      BY DEF Throw, HangUp
    <2>. QED BY <2>1, <2>2
  <1>4. \A c \in Clients : Kept(c)
    BY <1>2, <1>3, CltSame DEF ClientsOK, Kept
  <1>5. DOMAIN clt' = Clients /\ clt' = [c \in Clients |-> clt'[c]]
    BY DEF Throw, HangUp, ClientsOK
  <1>. QED BY <1>4, <1>5 DEF Kept

\* Two lists of messages in one.
LEMMA ConcatMsgs ==
  ASSUME NEW a \in Msgs, NEW b \in Msgs
  PROVE  /\ a \o b \in Msgs /\ Len(a \o b) = Len(a) + Len(b) /\ Len(a) \in Nat /\ Len(b) \in Nat
         /\ \A i \in 1..Len(a) : (a \o b)[i] = a[i]
         /\ \A i \in 1..Len(b) : (a \o b)[Len(a) + i] = b[i]
  BY DEF Msgs

\* An inbox with a message and a list of messages added.
Adding(a, msg, t) == (a \o <<msg>>) \o t

\* q is a with messages added that are msg or in t.
Added(a, q, msg, t) ==
  /\ q \in Msgs /\ Len(a) \in Nat /\ \E k \in Nat : Len(q) = Len(a) + k
  /\ \A i \in 1..Len(a) : q[i] = a[i]
  /\ \A i \in (Len(a) + 1)..Len(q) : q[i] = msg \/ \E j \in 1..Len(t) : q[i] = t[j]

\* What Adding adds.
LEMMA AppendMsgs ==
  ASSUME NEW a \in Msgs, NEW msg \in Message, NEW t \in Msgs
  PROVE  Added(a, Adding(a, msg, t), msg, t)
  <1> DEFINE q == Adding(a, msg, t)
  <1> DEFINE b == a \o <<msg>>
  <1>1. /\ b \in Msgs /\ Len(b) = Len(a) + 1 /\ Len(a) \in Nat
        /\ \A i \in 1..Len(a) : b[i] = a[i]
        /\ b[Len(a) + 1] = msg
    BY DEF Msgs
  <1> HIDE DEF b
  <1>2. /\ q \in Msgs /\ Len(q) = Len(b) + Len(t) /\ Len(t) \in Nat
        /\ \A i \in 1..Len(b) : q[i] = b[i]
        /\ \A i \in 1..Len(t) : q[Len(b) + i] = t[i]
    <2>1. q = b \o t
      BY DEF b, Adding
    <2> HIDE DEF q
    <2>2. /\ b \o t \in Msgs /\ Len(b \o t) = Len(b) + Len(t) /\ Len(t) \in Nat
          /\ \A i \in 1..Len(b) : (b \o t)[i] = b[i]
          /\ \A i \in 1..Len(t) : (b \o t)[Len(b) + i] = t[i]
      BY <1>1, ConcatMsgs
    <2>. QED BY <2>1, <2>2
  <1> HIDE DEF q
  <1>3. Len(q) = Len(a) + (1 + Len(t))
    BY <1>1, <1>2
  <1>4. \A i \in 1..Len(a) : i \in 1..Len(b)
    BY <1>1
  <1>5. ASSUME NEW i \in (Len(a) + 1)..Len(q)
        PROVE  q[i] = msg \/ \E j \in 1..Len(t) : q[i] = t[j]
    <2>1. CASE i = Len(a) + 1
      BY <1>1, <1>2, <2>1
    <2>2. CASE i # Len(a) + 1
      <3>1. i - Len(b) \in 1..Len(t) /\ Len(b) + (i - Len(b)) = i
        BY <1>1, <1>2, <1>3, <2>2
      <3>. QED BY <1>2, <3>1
    <2>. QED BY <2>1, <2>2
  <1>6. 1 + Len(t) \in Nat
    BY <1>2
  <1>7. \A i \in 1..Len(a) : q[i] = a[i]
    BY <1>1, <1>2, <1>4
  <1>. QED BY <1>1, <1>2, <1>3, <1>5, <1>6, <1>7 DEF Added, q

\* Most steps of the manager: no client gets a message.
LEMMA MgrKept ==
  ASSUME ManagerOK, ClientsOK, Grown(segs'),
         mgr'.start = mgr.start, mgr'.slabBuffers = mgr.slabBuffers,
         (mgr'.pc # "down" /\ ~Serving(mgr')) => (mgr.pc # "down" /\ ~Serving(mgr)),
         \A d \in DOMAIN mgr'.proxies : /\ d \in DOMAIN mgr.proxies
                                        /\ d # mgr.for => mgr'.proxies[d] = mgr.proxies[d],
         \A c \in Clients : mgr'.for = c =>
           mgr.for = c \/ (IsLive(mgr, c, clt[c]) => Len(clt[c].headerVec) # 0),
         \A c \in Clients : \/ clt'[c] = clt[c]
                            \/ clt'[c] = [clt[c] EXCEPT !.toMgr = <<>>]
                            \/ clt[c].toMgr # <<>> /\ clt'[c] = [clt[c] EXCEPT !.toMgr = Tail(@)],
         clt' = [c \in Clients |-> clt'[c]]
  PROVE  clt' \in [Clients -> CltState] /\ \A c \in Clients : Kept(c)
  <1>1. ASSUME NEW c \in Clients
        PROVE  Kept(c)
    <2>1. Follows(mgr', c, clt[c])
      BY FollowsFrom DEF ClientsOK
    <2>. QED BY <2>1, CltSame DEF ClientsOK, Kept
  <1>. QED BY <1>1 DEF Kept

\* The clients after a step of the manager: Announce tells all that are connected before
\* a slab of the new buffer can be given to one; Reserve gives one.
LEMMA ManagesKept ==
  ASSUME ManagerOK, ClientsOK, Grown(segs'), Manages
  PROVE  clt' \in [Clients -> CltState] /\ \A c \in Clients : Kept(c)
  <1> DEFINE Goal == clt' \in [Clients -> CltState] /\ \A c \in Clients : Kept(c)
  <1>. SUFFICES Goal
    OBVIOUS
  <1>a. MgrOK(mgr) /\ clt = [c \in Clients |-> clt[c]] /\ mgr.start \in Nat /\ None \notin Clients
    BY MgrFacts, Constants DEF ManagerOK, ClientsOK
  <1>b. ASSUME clt' = clt, mgr'.start = mgr.start, mgr'.slabBuffers = mgr.slabBuffers,
               mgr'.for = mgr.for, mgr'.proxies = mgr.proxies,
               (mgr'.pc # "down" /\ ~Serving(mgr')) => (mgr.pc # "down" /\ ~Serving(mgr))
        PROVE  Goal
    BY <1>a, <1>b, MgrKept
  <1> HIDE DEF Goal
  <1>1. CASE Start
    <2>1. /\ mgr'.start = mgr.start + 1 /\ mgr.pc = "down" /\ mgr'.proxies = mgr.proxies /\ clt' = clt
      BY <1>1, <1>a DEF Start, MgrOK, MgrState
    <2>2. DOMAIN mgr'.proxies = {}
      BY <1>a, <2>1 DEF MgrOK
    <2>3. ASSUME NEW c \in Clients
          PROVE  Kept(c)
      <3>1. clt[c].start \in Nat /\ clt[c].start <= mgr.start
        BY DEF ClientsOK, CltOK, StartOK, CltState
      <3>2. Follows(mgr', c, clt[c])
        BY <1>a, <2>1, <2>2, <3>1 DEF Follows, StartOK
      <3>3. ~IsLive(mgr, c, clt[c])
        BY <2>1 DEF IsLive
      <3>. QED BY <2>1, <3>2, <3>3, CltSame DEF ClientsOK, Kept
    <2>. QED BY <2>1, <2>3 DEF ClientsOK, Goal
  <1>2. CASE OpenShm
    <2>1. CASE mgr' = [mgr EXCEPT !.pc = "truncate"] /\ clt' = clt
      BY <1>2, <1>a, <1>b, <2>1 DEF OpenShm, MgrOK, MgrState, Serving
    <2>2. CASE Throw(names, mgr.headerVec)
      BY <1>2, <2>2, ThrowKept DEF OpenShm, Growing, Goal
    <2>. QED BY <1>2, <2>1, <2>2 DEF OpenShm
  <1>3. CASE Truncate
    <2>1. CASE mgr' = [mgr EXCEPT !.pc = "header"] /\ clt' = clt
      BY <1>3, <1>a, <1>b, <2>1 DEF Truncate, MgrOK, MgrState, Serving
    <2>2. CASE CreateFails
      BY <1>3, <2>2, ThrowKept DEF Truncate, CreateFails, Growing, Made, Goal
    <2>. QED BY <1>3, <2>1, <2>2 DEF Truncate
  <1>4. CASE WriteHeader \/ Publish
    <2>1. /\ mgr'.start = mgr.start /\ mgr'.slabBuffers = mgr.slabBuffers
          /\ mgr'.for = mgr.for /\ mgr'.proxies = mgr.proxies
          /\ mgr'.pc \in {"fields", "publish", "lock"} /\ mgr.pc \in {"header", "fields", "publish"}
          /\ clt' = clt
      BY <1>4, <1>a DEF WriteHeader, Publish, MgrOK, MgrState
    <2>. QED BY <1>b, <2>1 DEF Serving
  <1>5. CASE Lock
    <2>1. PICK fails \in BOOLEAN :
            LET m == [mgr EXCEPT !.lockErrors = @ \/ fails]
            IN  IF NextBuffer < m.target
                THEN mgr' = [m EXCEPT !.pc = "open"] /\ UNCHANGED <<names, clt>>
                ELSE IF m.lockErrors /\ ~allowUnlockedMemory THEN Throw(names, m.headerVec)
                ELSE Announce(m)
      BY <1>5 DEF Lock
    <2> DEFINE m == [mgr EXCEPT !.lockErrors = @ \/ fails]
    <2>2. /\ m \in MgrState /\ m.headerVec = mgr.headerVec /\ m.for = mgr.for /\ m.start = mgr.start
          /\ m.proxies = mgr.proxies /\ m.slabBuffers = mgr.slabBuffers /\ m.target = mgr.target
      BY <1>a, <2>1 DEF MgrOK, MgrState
    <2>3. mgr.pc = "lock" /\ Len(mgr.headerVec) \in 1..mgr.target
      BY <1>5, <1>a DEF Lock, MgrOK
    <2> HIDE DEF m
    <2>4. CASE mgr' = [m EXCEPT !.pc = "open"] /\ clt' = clt
      BY <1>b, <2>2, <2>3, <2>4 DEF MgrState, Serving
    <2>5. CASE Throw(names, m.headerVec)
      BY <2>2, <2>3, <2>5, ThrowKept DEF Goal
    <2>6. CASE Announce(m) /\ ~(NextBuffer < m.target)
      <3>1. /\ mgr'.start = mgr.start /\ mgr'.for = mgr.for /\ mgr'.proxies = mgr.proxies
            /\ mgr'.slabBuffers = mgr.target /\ Serving(mgr')
            /\ clt' = SendTo(Connected, Msg("ShmName", 0))
        BY <2>2, <2>6 DEF Announce, MgrState, Serving
      <3>2. mgr.target = Len(mgr.headerVec) /\ mgr.target \in Nat /\ mgr.slabBuffers \in Nat
        BY <1>a, <2>2, <2>3, <2>6, MgrFacts DEF MgrOK, MgrState
      <3> DEFINE msg == Msg("ShmName", 0)
      <3>3. msg \in Message /\ msg.type = "ShmName" /\ ~GivesIDs(msg)
        BY DEF Msg, Message, GivesIDs
      <3> HIDE DEF msg
      <3>4. ASSUME NEW c \in Clients
            PROVE  Kept(c)
        <4> DEFINE x == clt[c]
        <4>1. x \in CltState /\ CltOK(params, mgr, segs, c, x) /\ StartOK(mgr, x)
          BY DEF ClientsOK, CltOK
        <4>2. c \in DOMAIN mgr.proxies => mgr.slabBuffers <= mgr.target
          BY <2>3, <3>2 DEF ManagerOK, ServingOK
        <4>3. Follows(mgr', c, x)
          BY <3>1, <3>2, <4>1, <4>2 DEF Follows, StartOK, CltOK, LiveOK
        <4>4. CASE c \in Connected
          <5> DEFINE q == Append(x.inbox, msg)
          <5>1. x.inbox \in Msgs /\ x.toMgr \in Msgs
            BY <4>1 DEF CltState
          <5>2. /\ q \in Msgs /\ Len(q) = Len(x.inbox) + 1 /\ Len(x.inbox) \in Nat
                /\ \A i \in 1..Len(x.inbox) : q[i] = x.inbox[i]
                /\ q[Len(x.inbox) + 1] = msg
            BY <3>3, <5>1 DEF Msgs
          <5>3. \A i \in (Len(x.inbox) + 1)..Len(q) : i = Len(x.inbox) + 1
            BY <5>2
          <5>4. clt'[c] = [x EXCEPT !.inbox = q, !.toMgr = x.toMgr]
            BY <3>1, <4>1, <4>4 DEF SendTo, CltState, msg
          <5> HIDE DEF q, x
          <5>5. Longer(c, x, q)
            BY <3>3, <5>2, <5>3 DEF Longer
          <5>6. Announced(x, q)
            <6>1. Len(x.inbox) + 1 \in (Len(x.inbox) + 1)..Len(q)
              BY <5>2
            <6>. QED BY <3>3, <5>2, <6>1 DEF Announced
          <5>7. Unread(x, x.toMgr)
            BY DEF Unread
          <5> DEFINE r == clt'[c]
          <5>8. q \in Msgs /\ r = [x EXCEPT !.inbox = q, !.toMgr = x.toMgr]
            BY <5>2, <5>4
          <5>9. mgr'.slabBuffers = mgr.slabBuffers \/ (IsLive(mgr, c, x) => Announced(x, q))
            BY <5>6
          <5> HIDE DEF r
          <5>10. r \in CltState /\ CltOK(params, mgr', segs', c, r)
            BY <4>1, <4>3, <5>5, <5>7, <5>8, <5>9, CltGets
          <5>. QED BY <5>10 DEF Kept, r
        <4>5. CASE c \notin Connected
          <5>1. clt'[c] = x
            BY <3>1, <4>5 DEF SendTo
          <5>2. ~IsLive(mgr, c, x)
            BY <4>5 DEF Connected, IsLive
          <5> HIDE DEF x
          <5>. QED BY <4>1, <4>3, <5>1, <5>2, CltSame DEF Kept
        <4>. QED BY <4>4, <4>5
      <3>. QED BY <3>1, <3>4 DEF Goal, Kept, SendTo
    <2>. QED BY <2>1, <2>4, <2>5, <2>6 DEF m
  <1>6. CASE Stop \/ Killed
    <2>1. /\ \E clean \in BOOLEAN : mgr' = Ended(clean)
          /\ clt' = HangUp(Connected)
      BY <1>6 DEF Stop, Killed
    <2>2. /\ mgr'.pc = "down" /\ mgr'.start = mgr.start /\ mgr'.proxies = <<>> /\ mgr'.for = None
      BY <1>a, <2>1, EndedFields
    <2>3. mgr'.slabBuffers = mgr.slabBuffers
      BY <1>a, <2>1 DEF Ended, MgrOK, MgrState
    <2>4. /\ \A c \in Clients : clt'[c] = clt[c] \/ clt'[c] = [clt[c] EXCEPT !.toMgr = <<>>]
          /\ clt' = [c \in Clients |-> clt'[c]]
      BY <2>1 DEF HangUp
    <2>. QED BY <1>a, <2>2, <2>3, <2>4, ProxiesEmpty, MgrKept DEF Goal
  <1>7. CASE Reserve
    <2> DEFINE c    == mgr.for
               x    == clt[c]
               more == Need - mgr.proxies[c].reserved
               OnlyFor(p) == /\ mgr' = [mgr EXCEPT !.pc = "loop", !.for = None, !.proxies = p]
                             /\ \A d \in DOMAIN p : /\ d \in DOMAIN mgr.proxies
                                                    /\ d # c => p[d] = mgr.proxies[d]
               AllIn(t)   == \A j \in 1..Len(t) : InBuffers(params, GivenBy(t[j]), mgr.slabBuffers)
               Others     == /\ \A d \in Clients : d # c => clt'[d] = clt[d]
                             /\ clt' = [d \in Clients |-> clt'[d]]
    <2>1. /\ mgr.pc = "reserve" /\ c \in DOMAIN mgr.proxies /\ c \in Clients
          /\ mgr.proxies \in Proxies /\ mgr.slabBuffers \in Nat
      BY <1>7, <1>a DEF Reserve, MgrOK, MgrState
    <2>2. /\ x \in CltState /\ CltOK(params, mgr, segs, c, x) /\ x.inbox \in Msgs /\ x.toMgr \in Msgs
          /\ Len(x.headerVec) \in Nat
      BY <2>1 DEF ClientsOK, CltState, SegList
    <2>3. x.pc \notin Closed => IsLive(mgr, c, x) /\ Len(x.headerVec) > 0
      BY <2>1, <2>2 DEF CltOK, ProxyOK, IsLive, LiveOK
    <2>4. CASE /\ Len(mgr.headerVec) + 1 <= maxNumBuffers
               /\ mgr' = [mgr EXCEPT !.pc = "open", !.target = Len(mgr.headerVec) + 1]
               /\ clt' = clt
      BY <1>a, <1>b, <2>1, <2>4 DEF MgrOK, MgrState, Serving
    <2>5. ASSUME NEW p, OnlyFor(p), NEW t \in Msgs, AllIn(t), NEW msg \in Message, ~GivesIDs(msg),
                 NEW q, q = Adding(x.inbox, msg, t), NEW tm, Unread(x, tm),
                 clt'[c] = [x EXCEPT !.inbox = q, !.toMgr = tm], Others
          PROVE  Goal
      <3>1. /\ mgr'.pc = "loop" /\ mgr'.for = None /\ mgr'.proxies = p /\ mgr'.start = mgr.start
            /\ mgr'.slabBuffers = mgr.slabBuffers
        BY <1>a, <2>5 DEF MgrOK, MgrState
      <3>2. ASSUME NEW d \in Clients
            PROVE  Follows(mgr', d, clt[d])
        BY <1>a, <2>5, <3>1, FollowsFrom DEF ClientsOK, Serving
      <3>3. ASSUME NEW d \in Clients, d # c
            PROVE  Kept(d)
        BY <2>5, <3>1, <3>2, <3>3, CltSame DEF ClientsOK, Kept
      <3>4. Kept(c)
        <4>1. /\ q \in Msgs /\ \E k \in Nat : Len(q) = Len(x.inbox) + k
              /\ \A i \in 1..Len(x.inbox) : q[i] = x.inbox[i]
              /\ \A i \in (Len(x.inbox) + 1)..Len(q) : q[i] = msg \/ \E j \in 1..Len(t) : q[i] = t[j]
          <5> DEFINE a == x.inbox
          <5>1. a \in Msgs /\ q = Adding(a, msg, t) /\ t \in Msgs /\ msg \in Message
            BY <2>2, <2>5
          <5> HIDE DEF a
          <5>2. Added(a, q, msg, t)
            BY <5>1, AppendMsgs
          <5>. QED BY <5>2 DEF a, Added
        <4>2. Longer(c, x, q)
          <5>1. ASSUME x.pc \notin Closed, NEW i \in (Len(x.inbox) + 1)..Len(q)
                PROVE  /\ Len(x.headerVec) > 0 /\ IsLive(mgr, c, x)
                       /\ GivesIDs(q[i]) => InBuffers(params, GivenBy(q[i]), mgr.slabBuffers)
            <6> HIDE DEF x
            <6>1. q[i] = msg \/ \E j \in 1..Len(t) : q[i] = t[j]
              BY <4>1, <5>1
            <6>. QED BY <2>3, <2>5, <5>1, <6>1
          <5> HIDE DEF x
          <5>2. x.pc \notin Closed => Len(x.headerVec) # 0
            BY <2>2, <2>3
          <5>. QED BY <4>1, <5>1, <5>2 DEF Longer
        <4> DEFINE r == clt'[c]
        <4>3. r = [x EXCEPT !.inbox = q, !.toMgr = tm] /\ Follows(mgr', c, x)
          BY <2>1, <2>5, <3>2
        <4>4. /\ q \in Msgs /\ Unread(x, tm) /\ c \in Clients /\ x \in CltState
              /\ CltOK(params, mgr, segs, c, x) /\ mgr'.slabBuffers = mgr.slabBuffers
          BY <2>1, <2>2, <2>5, <3>1, <4>1
        <4> HIDE DEF r, x, c
        <4>5. r \in CltState /\ CltOK(params, mgr', segs', c, r)
          BY <4>2, <4>3, <4>4, CltGets
        <4>. QED BY <4>5 DEF Kept, r
      <3>. QED BY <2>5, <3>3, <3>4 DEF Goal, Kept
    <2> HIDE DEF OnlyFor, AllIn, Others
    <2>6. ASSUME NEW slab \in Int, more # 0 => slab \in FreeSlabs,
                 mgr' = [mgr EXCEPT !.pc = "loop", !.for = None,
                             !.proxies[c] = [reserved |-> Need, slab |-> slab]],
                 clt' = [clt EXCEPT ![c].inbox = @ \o <<Msg("NumSlabs", TRUE)>> \o
                             IF more = 0 THEN <<>> ELSE <<Msg("SlabIDs", slab)>>]
          PROVE  Goal
      <3> DEFINE p   == [mgr.proxies EXCEPT ![c] = [reserved |-> Need, slab |-> slab]]
                 t   == IF more = 0 THEN <<>> ELSE <<Msg("SlabIDs", slab)>>
                 msg == Msg("NumSlabs", TRUE)
                 q   == (x.inbox \o <<msg>>) \o t
      <3>1. OnlyFor(p)
        BY <1>a, <2>6 DEF MgrOK, MgrState, OnlyFor
      <3>2. msg \in Message /\ ~GivesIDs(msg)
        BY DEF Msg, Message, GivesIDs
      <3>3. t \in Msgs /\ AllIn(t)
        <4> USE DEF AllIn
        <4>1. CASE more = 0
          BY <4>1 DEF Msgs
        <4>2. CASE more # 0
          <5> DEFINE sm == Msg("SlabIDs", slab)
          <5>1. slab \in Slabs
            BY <2>6, <4>2 DEF FreeSlabs
          <5>2. params.slabsPerBuffer \in Nat
            BY DEF ManagerOK, ParamsOK
          <5>3. mgr.slabBuffers * params.slabsPerBuffer \in Nat
            BY <2>1, <5>2
          <5>4. slab \in Nat /\ slab < mgr.slabBuffers * params.slabsPerBuffer
            BY <5>1, <5>3 DEF Slabs
          <5>5. sm \in Message /\ InBuffers(params, GivenBy(sm), mgr.slabBuffers)
            BY <5>4 DEF Msg, Message, InBuffers, PerBuffer, GivenBy
          <5> HIDE DEF sm
          <5>6. <<sm>> \in Msgs /\ \A j \in 1..Len(<<sm>>) : <<sm>>[j] = sm
            BY <5>5 DEF Msgs
          <5>. QED BY <4>2, <5>5, <5>6 DEF sm
        <4>. QED BY <4>1, <4>2
      <3>4. clt'[c] = [x EXCEPT !.inbox = q]
        BY <1>a, <2>1, <2>6
      <3> HIDE DEF q, t, msg, p
      <3>5. clt'[c] = [x EXCEPT !.inbox = q, !.toMgr = x.toMgr]
        BY <2>2, <3>4 DEF CltState
      <3>6. Unread(x, x.toMgr)
        BY DEF Unread
      <3>7. Others
        BY <1>a, <2>6 DEF Others
      <3>8. q = Adding(x.inbox, msg, t)
        BY DEF q, Adding
      <3>9. \E u : Unread(x, u) /\ clt'[c] = [x EXCEPT !.inbox = q, !.toMgr = u]
        BY <3>5, <3>6
      <3> HIDE DEF x, c, more
      <3>. QED BY <2>5, <3>1, <3>2, <3>3, <3>7, <3>8, <3>9
    <2>7. CASE /\ mgr' = [mgr EXCEPT !.pc = "loop", !.for = None, !.proxies = FnWithout(@, c)]
               /\ clt' = [clt EXCEPT ![c].inbox = Append(@, Msg("NumSlabs", FALSE)),
                                    ![c].toMgr = <<>>]
      <3> DEFINE p   == FnWithout(mgr.proxies, c)
                 t   == <<>>
                 msg == Msg("NumSlabs", FALSE)
                 q   == (x.inbox \o <<msg>>) \o t
                 tm  == <<>>
      <3>1. OnlyFor(p)
        BY <1>a, <2>7 DEF MgrOK, MgrState, FnWithout, OnlyFor
      <3>2. msg \in Message /\ ~GivesIDs(msg)
        BY DEF Msg, Message, GivesIDs
      <3>3. t \in Msgs /\ AllIn(t)
        BY DEF Msgs, AllIn
      <3>4. /\ clt'[c] = [x EXCEPT !.inbox = Append(x.inbox, msg), !.toMgr = tm]
            /\ Others
        BY <1>a, <2>1, <2>7 DEF Others
      <3>5. Append(x.inbox, msg) = q
        <4> HIDE DEF msg
        <4> DEFINE a == x.inbox
        <4>1. a \in Seq(Message) /\ msg \in Message
          BY <2>2, <3>2 DEF Msgs
        <4> HIDE DEF a
        <4>2. /\ Append(a, msg) \in Seq(Message) /\ a \o <<msg>> \in Seq(Message)
              /\ Len(Append(a, msg)) = Len(a) + 1 /\ Len(a \o <<msg>>) = Len(a) + 1
              /\ \A i \in 1..(Len(a) + 1) : Append(a, msg)[i] = (a \o <<msg>>)[i]
          BY <4>1
        <4>3. Append(a, msg) = a \o <<msg>>
          BY <4>1, <4>2
        <4>4. (a \o <<msg>>) \o <<>> = a \o <<msg>>
          BY <4>2
        <4>. QED BY <4>3, <4>4 DEF a
      <3>6. Unread(x, tm) /\ q = Adding(x.inbox, msg, t)
        BY DEF Unread, Adding
      <3>7. \E u : Unread(x, u) /\ clt'[c] = [x EXCEPT !.inbox = q, !.toMgr = u]
        BY <3>4, <3>5, <3>6
      <3>8. Others /\ q = Adding(x.inbox, msg, t)
        BY <3>4, <3>6
      <3> HIDE DEF q, t, msg, p, tm
      <3> HIDE DEF x, c, more
      <3>. QED BY <2>5, <3>1, <3>2, <3>3, <3>7, <3>8
    <2>8. \A d \in DOMAIN mgr.proxies : mgr.proxies[d].slab \in Int
      BY <2>1 DEF Proxies, Proxy
    <2>9. FreeSlabs \subseteq Int
      BY DEF FreeSlabs, Slabs
    <2>. QED BY <1>7, <2>1, <2>4, <2>6, <2>7, <2>8, <2>9 DEF Reserve
  <1>. QED BY <1>1, <1>2, <1>3, <1>4, <1>5, <1>6, <1>7 DEF Manages

\* The clients after the manager has read a message: a block is sent on to clients that
\* have a reservation, hence a mapping.
LEMMA ReadableKept ==
  ASSUME ManagerOK, ClientsOK, Grown(segs'), NEW c \in Clients, Readable(c)
  PROVE  clt' \in [Clients -> CltState] /\ \A d \in Clients : Kept(d)
  <1> DEFINE Goal == clt' \in [Clients -> CltState] /\ \A d \in Clients : Kept(d)
             msg  == Head(clt[c].toMgr)
  <1>. SUFFICES Goal
    OBVIOUS
  <1>a. /\ MgrOK(mgr) /\ clt = [d \in Clients |-> clt[d]] /\ mgr.start \in Nat /\ None \notin Clients
        /\ mgr.pc = "loop" /\ mgr.for = None /\ c \in DOMAIN mgr.proxies /\ Serving(mgr)
    BY MgrFacts, Constants DEF ManagerOK, ClientsOK, Readable, MgrOK, Serving
  <1>b. ASSUME mgr' = [mgr EXCEPT !.proxies = FnWithout(@, c)],
               \A d \in Clients : clt'[d] = clt[d] \/ clt'[d] = [clt[d] EXCEPT !.toMgr = <<>>],
               clt' = [d \in Clients |-> clt'[d]]
        PROVE  Goal
    <2>1. /\ mgr'.start = mgr.start /\ mgr'.slabBuffers = mgr.slabBuffers /\ mgr'.for = None
          /\ mgr'.pc = "loop" /\ mgr'.proxies = FnWithout(mgr.proxies, c)
      BY <1>a, <1>b DEF MgrOK, MgrState
    <2>2. \A d \in DOMAIN mgr'.proxies : d \in DOMAIN mgr.proxies /\ mgr'.proxies[d] = mgr.proxies[d]
      BY <2>1 DEF FnWithout
    <2>. QED BY <1>a, <1>b, <2>1, <2>2, MgrKept DEF Serving
  <1>c. clt[c] \in CltState /\ CltOK(params, mgr, segs, c, clt[c]) /\ clt[c].toMgr \in Msgs
    BY DEF ClientsOK, CltState
  <1> HIDE DEF Goal
  <1>1. CASE clt[c].start # mgr.start
    <2>1. mgr' = [mgr EXCEPT !.proxies = FnWithout(@, c)] /\ clt' = clt
      BY <1>1 DEF Readable
    <2>. QED BY <1>a, <1>b, <2>1
  <1>2. CASE clt[c].start = mgr.start /\ msg.type = "NumSlabs"
    <2>1. /\ mgr' = [mgr EXCEPT !.pc = "reserve", !.for = c] /\ clt[c].toMgr # <<>>
          /\ clt' = [clt EXCEPT ![c].toMgr = Tail(@)]
      BY <1>2 DEF Readable
    <2>2. /\ mgr'.start = mgr.start /\ mgr'.slabBuffers = mgr.slabBuffers /\ mgr'.for = c
          /\ mgr'.pc = "reserve" /\ mgr'.proxies = mgr.proxies
      BY <1>a, <2>1 DEF MgrOK, MgrState
    <2>3. /\ \A d \in Clients : \/ clt'[d] = clt[d]
                                \/ clt[d].toMgr # <<>> /\ clt'[d] = [clt[d] EXCEPT !.toMgr = Tail(@)]
          /\ clt' = [d \in Clients |-> clt'[d]]
      BY <1>a, <2>1
    <2>4. IsLive(mgr, c, clt[c]) => Len(clt[c].headerVec) # 0
      <3>1. SUFFICES ASSUME IsLive(mgr, c, clt[c])
                     PROVE  Len(clt[c].headerVec) # 0
        OBVIOUS
      <3>2. clt[c].start >= 1
        BY <1>2, <3>1, LiveManager
      <3>. QED BY <1>c, <2>1, <3>2 DEF CltOK, PcOK
    <2>5. \A d \in Clients : mgr'.for = d =>
            mgr.for = d \/ (IsLive(mgr, d, clt[d]) => Len(clt[d].headerVec) # 0)
      BY <2>2, <2>4
    <2>6. (mgr'.pc # "down" /\ ~Serving(mgr')) => (mgr.pc # "down" /\ ~Serving(mgr))
      BY <2>2 DEF Serving
    <2>. QED BY <2>2, <2>3, <2>5, <2>6, MgrKept DEF Goal
  <1>3. CASE mgr' = [mgr EXCEPT !.proxies = FnWithout(@, c)] /\ clt' = HangUp({c})
    <2>1. /\ \A d \in Clients : clt'[d] = clt[d] \/ clt'[d] = [clt[d] EXCEPT !.toMgr = <<>>]
          /\ clt' = [d \in Clients |-> clt'[d]]
      BY <1>3 DEF HangUp
    <2>. QED BY <1>b, <1>3, <2>1
  <1>4. ASSUME clt[c].start = mgr.start, clt[c].toMgr # <<>>, UNCHANGED mgr,
               clt' = [SendTo({d \in Connected \ {c} : mgr.proxies[d].reserved > 0}, msg)
                                   EXCEPT ![c].toMgr = Tail(@)]
        PROVE  Goal
    <2> DEFINE To == {d \in Connected \ {c} : mgr.proxies[d].reserved > 0}
    <2>1. /\ \A d \in Clients : d # c => clt'[d] = IF d \in To THEN [clt[d] EXCEPT !.inbox = Append(@, msg)]
                                                     ELSE clt[d]
          /\ clt'[c] = [clt[c] EXCEPT !.toMgr = Tail(@)]
          /\ clt' = [d \in Clients |-> clt'[d]]
      BY <1>4 DEF SendTo
    <2>2. /\ msg \in Message
          /\ GivesIDs(msg) => InBuffers(params, GivenBy(msg), mgr.slabBuffers)
      <3>1. msg = clt[c].toMgr[1] /\ Len(clt[c].toMgr) > 0 /\ Len(clt[c].toMgr) \in Nat /\ msg \in Message
        BY <1>4, <1>c DEF Msgs
      <3>2. IsLive(mgr, c, clt[c]) /\ 1 \in 1..Len(clt[c].toMgr)
        BY <1>4, <1>a, <3>1 DEF IsLive
      <3>. QED BY <1>c, <3>1, <3>2 DEF CltOK, LiveOK
    <2> HIDE DEF msg
    <2>3. ASSUME NEW d \in Clients
          PROVE  Follows(mgr', d, clt[d])
      BY <1>4, <1>a, FollowsFrom DEF ClientsOK
    <2>4. ASSUME NEW d \in Clients, d = c \/ d \notin To
          PROVE  Kept(d)
      <3>1. \/ clt'[d] = clt[d]
            \/ clt[d].toMgr # <<>> /\ clt'[d] = [clt[d] EXCEPT !.toMgr = Tail(@)]
        BY <1>4, <2>1, <2>4
      <3>. QED BY <1>4, <2>3, <3>1, CltSame DEF ClientsOK, Kept
    <2>5. ASSUME NEW d \in Clients, d # c, d \in To
          PROVE  Kept(d)
      <3> DEFINE x == clt[d]
                 q == Append(x.inbox, msg)
                 r == clt'[d]
      <3>1. /\ x \in CltState /\ CltOK(params, mgr, segs, d, x) /\ x.inbox \in Msgs
            /\ Len(x.headerVec) \in Nat
        BY DEF ClientsOK, CltState, SegList
      <3>2. IsLive(mgr, d, x) /\ mgr.proxies[d].reserved > 0
        BY <1>a, <2>5 DEF Connected, IsLive
      <3>3. mgr.proxies[d].reserved \in Nat
        BY <1>a, <3>2 DEF IsLive, MgrOK, MgrState, Proxies, Proxy
      <3>4. Len(x.headerVec) > 0
        BY <3>1, <3>2, <3>3 DEF CltOK, LiveOK
      <3>5. /\ q \in Msgs /\ Len(q) = Len(x.inbox) + 1 /\ Len(x.inbox) \in Nat
            /\ \A i \in 1..Len(x.inbox) : q[i] = x.inbox[i]
            /\ q[Len(x.inbox) + 1] = msg
        BY <2>2, <3>1 DEF Msgs
      <3>6. \A i \in (Len(x.inbox) + 1)..Len(q) : i = Len(x.inbox) + 1
        BY <3>5
      <3>7. r = [x EXCEPT !.inbox = q, !.toMgr = x.toMgr]
        BY <2>1, <2>5, <3>1 DEF CltState
      <3> HIDE DEF q, x, r
      <3>8. Longer(d, x, q)
        BY <2>2, <3>2, <3>4, <3>5, <3>6 DEF Longer
      <3>9. Unread(x, x.toMgr) /\ mgr'.slabBuffers = mgr.slabBuffers /\ q \in Msgs
        BY <1>4, <3>5 DEF Unread
      <3>10. Follows(mgr', d, x)
        BY <2>3 DEF x
      <3>11. r \in CltState /\ CltOK(params, mgr', segs', d, r)
        BY <3>1, <3>7, <3>8, <3>9, <3>10, CltGets
      <3>. QED BY <3>11 DEF Kept, r
    <2>6. \A d \in Clients : Kept(d)
      BY <2>4, <2>5
    <2>. QED BY <2>1, <2>6 DEF Goal, Kept
  <1>. QED BY <1>1, <1>2, <1>3, <1>4 DEF Readable

\* The clients after a connection: the first message of the new one is ShmName.
LEMMA AcceptKept ==
  ASSUME ManagerOK, ClientsOK, Grown(segs'), NEW c \in Clients, Accept(c)
  PROVE  clt' \in [Clients -> CltState] /\ \A d \in Clients : Kept(d)
  <1> DEFINE x == clt[c]
             r == clt'[c]
             new == [reserved |-> 0, slab |-> -1]
             msg == Msg("ShmName", 0)
             q   == <<msg>>
  <1>1. /\ MgrOK(mgr) /\ clt = [d \in Clients |-> clt[d]] /\ mgr.start \in Nat /\ None \notin Clients
        /\ mgr.pc = "loop" /\ mgr.for = None /\ Serving(mgr) /\ mgr.start >= 1 /\ x.pc = "idle"
        /\ mgr.slabBuffers \in Nat
    BY MgrFacts, Constants DEF ManagerOK, ClientsOK, Accept, MgrOK, Serving, MgrState
  <1>2. /\ mgr'.start = mgr.start /\ mgr'.slabBuffers = mgr.slabBuffers /\ mgr'.for = None
        /\ mgr'.pc = "loop" /\ mgr'.proxies = FnWith(mgr.proxies, c, new)
    BY <1>1 DEF Accept, MgrOK, MgrState
  <1>3. /\ DOMAIN mgr'.proxies = DOMAIN mgr.proxies \cup {c} /\ mgr'.proxies[c] = new
        /\ \A d \in DOMAIN mgr.proxies : d # c => mgr'.proxies[d] = mgr.proxies[d]
    BY <1>2 DEF FnWith
  <1>4. /\ \A d \in Clients : d # c => clt'[d] = clt[d]
        /\ r = [x EXCEPT !.pc = "poll", !.start = mgr.start, !.inbox = q]
        /\ clt' = [d \in Clients |-> clt'[d]]
    BY <1>1 DEF Accept
  <1>5. ASSUME NEW d \in Clients, d # c
        PROVE  Kept(d)
    <2>1. Follows(mgr', d, clt[d])
      BY <1>1, <1>2, <1>3, <1>5, FollowsFrom DEF ClientsOK, Serving
    <2>. QED BY <1>2, <1>4, <1>5, <2>1, CltSame DEF ClientsOK, Kept
  <1>6. x \in CltState /\ CltOK(params, mgr, segs, c, x) /\ PcOK(x)
    BY DEF ClientsOK, CltOK
  <1>7. msg \in Message /\ msg.type = "ShmName"
    BY DEF Msg, Message
  <1> HIDE DEF msg
  <1>8. q \in Msgs /\ Len(q) = 1 /\ q[1] = msg
    BY <1>7 DEF Msgs
  <1> HIDE DEF q, x, r
  <1>9. /\ r \in CltState /\ r.pc = "poll" /\ r.start = mgr.start /\ r.inbox = q
        /\ r.toMgr = x.toMgr /\ r.headerVec = x.headerVec /\ r.ids = x.ids /\ r.hdr = x.hdr
    BY <1>1, <1>4, <1>6, <1>8 DEF CltState
  <1>10. /\ x.headerVec = <<>> /\ x.toMgr = <<>> /\ x.ids = {} /\ x.hdr = NoSeg
    BY <1>1, <1>6 DEF PcOK
  <1>11. \A i \in 1..Len(q) : i = 1 /\ q[i].type = "ShmName" /\ ~GivesIDs(q[i])
    BY <1>7, <1>8 DEF GivesIDs
  <1>12. StartOK(mgr', r) /\ ProxyOK(mgr', c, r) /\ SegsKnown(segs', r) /\ InboxOK(params, segs', r)
    BY <1>1, <1>2, <1>9, <1>10, <1>11, EmptyList DEF StartOK, Serving, ProxyOK, SegsKnown, InboxOK
  <1>13. PcOK(r)
    BY <1>1, <1>9, <1>10, <1>11, EmptyList DEF PcOK, Closed, Mapping
  <1>14. LiveOK(params, mgr', segs', c, r)
    <2>1. \E j \in 1..Len(r.inbox) : IsShm(r, j)
      <3>1. 1 \in 1..Len(r.inbox)
        <4>1. r.inbox = q
          BY <1>9
        <4>. QED BY <1>8, <4>1
      <3>. QED BY <1>7, <1>8, <1>9, <3>1 DEF IsShm
    <2>2. Len(r.headerVec) <= segs'[<<mgr'.start, 0>>].numBuffers
      <3>1. segs' = segs /\ Len(mgr.headerVec) > 0 /\ Len(mgr.headerVec) \in Nat
        BY <1>1, MgrFacts DEF Accept, ManagerOK, ServingOK
      <3>2. 1 \in 1..Len(mgr.headerVec) /\ 1 - 1 = 0
        BY <3>1
      <3>3. segs[<<mgr.start, 0>>].numBuffers \in Nat
        BY <3>2 DEF ManagerOK, SegsOK, SegState
      <3>. QED BY <1>2, <1>9, <1>10, <3>1, <3>3, EmptyList
    <2>3. mgr'.proxies[c].reserved = 0 /\ mgr'.for # c
      BY <1>1, <1>2, <1>3
    <2>4. Len(r.headerVec) = 0 /\ Len(r.toMgr) = 0
      BY <1>9, <1>10, EmptyList
    <2>. QED BY <1>9, <1>10, <1>11, <2>1, <2>2, <2>3, <2>4 DEF LiveOK
  <1>15. Kept(c)
    BY <1>9, <1>12, <1>13, <1>14 DEF Kept, CltOK, r
  <1>. QED BY <1>4, <1>5, <1>15 DEF Kept

(***************************************************************************)
(* Arithmetic, and the first state.                                        *)
(***************************************************************************)
\* Quotient and remainder are the only ones.
LEMMA DivUnique ==
  ASSUME NEW u \in Nat \ {0}, NEW k \in Nat, NEW r \in Nat, r < u
  PROVE  /\ (k * u + r) \div u = k
         /\ (k * u + r) % u = r
  <1> DEFINE a == k * u + r
             d == a \div u
             m == a % u
  <1>1. a \in Nat
    OBVIOUS
  <1>2. d \in Nat /\ m \in Nat /\ m < u /\ a = d * u + m
    <2> HIDE DEF a
    <2>. QED BY <1>1, DivMod
  <1>3. k * u + r = d * u + m
    BY <1>2
  <1> HIDE DEF d, m, a
  <1>4. ASSUME k + 1 <= d
        PROVE  FALSE
    <2>1. (k + 1) * u <= d * u
      BY <1>2, <1>4, TimesMono
    <2>2. (k + 1) * u = k * u + u /\ k * u \in Nat /\ d * u \in Nat
      BY <1>2
    <2>. QED BY <1>2, <1>3, <2>1, <2>2
  <1>5. ASSUME d + 1 <= k
        PROVE  FALSE
    <2>1. (d + 1) * u <= k * u
      BY <1>2, <1>5, TimesMono
    <2>2. (d + 1) * u = d * u + u /\ k * u \in Nat /\ d * u \in Nat
      BY <1>2
    <2>. QED BY <1>2, <1>3, <2>1, <2>2
  <1>6. d = k
    BY <1>2, <1>4, <1>5
  <1>7. m = r
    BY <1>2, <1>3, <1>6
  <1>. QED BY <1>6, <1>7 DEF d, m, a

\* RoundUp gives the least multiple of the unit that is large enough.
LEMMA RoundUpOK ==
  ASSUME NEW x \in Nat, NEW u \in Nat \ {0}
  PROVE  /\ RoundUp(x, u) \in Nat /\ RoundUp(x, u) >= x
         /\ RoundUp(x, u) % u = 0 /\ RoundUp(x, u) < x + u
         /\ RoundUp(x, u) = (RoundUp(x, u) \div u) * u
         /\ RoundUp(x, u) \div u \in Nat
         /\ x > 0 => RoundUp(x, u) \div u > 0
  <1> DEFINE a == x + u - 1
             k == a \div u
  <1>1. a \in Nat
    OBVIOUS
  <1> HIDE DEF a
  <1>2. k \in Nat /\ a % u \in Nat /\ a % u < u /\ a = k * u + (a % u)
    BY <1>1, DivMod
  <1>3. RoundUp(x, u) = k * u + 0
    BY <1>2 DEF RoundUp, a
  <1> HIDE DEF k
  <1>4. (k * u + 0) \div u = k /\ (k * u + 0) % u = 0
    <2> DEFINE z == 0
    <2>1. z \in Nat /\ z < u
      OBVIOUS
    <2> HIDE DEF z
    <2>2. (k * u + z) \div u = k /\ (k * u + z) % u = z
      BY <1>2, <2>1, DivUnique
    <2>. QED BY <2>2 DEF z
  <1>5. k * u \in Nat /\ k * u >= x /\ k * u < x + u
    <2>1. k * u \in Nat
      BY <1>2
    <2> DEFINE p == k * u
    <2>2. p \in Nat /\ a = p + (a % u) /\ a = x + u - 1
      BY <1>2, <2>1 DEF a
    <2> HIDE DEF p
    <2>3. p >= x /\ p < x + u
      BY <1>2, <2>2
    <2>. QED BY <2>2, <2>3 DEF p
  <1>6. x > 0 => k > 0
    <2>1. SUFFICES ASSUME x > 0, k = 0
                   PROVE  FALSE
      BY <1>2
    <2>2. k * u = 0
      BY <2>1
    <2>. QED BY <1>5, <2>1, <2>2
  <1>7. k * u + 0 = k * u
    BY <1>5
  <1>. QED BY <1>2, <1>3, <1>4, <1>5, <1>6, <1>7

\* ParamCheck makes a layout of whole pages, blocks and slabs of any sizes.
LEMMA InitParams == Init => ParamsOK(params)
  <1> SUFFICES ASSUME Init
               PROVE  ParamsOK(params)
    OBVIOUS
  <1>1. PICK raw \in RawParams : params = ParamCheck(raw)
    BY DEF Init
  <1> DEFINE Default(f) == IF raw[f] = 0 THEN kDefaultSize[f] ELSE raw[f]
             d1   == Default("blockSize")
             d2   == Default("slabSize")
             d3   == Default("bufferSize")
             blk  == RoundUp(d1, pageSize)
             slab == RoundUp(d2, blk)
             buf  == RoundUp(d3, slab)
             k2   == slab \div blk
             k3   == buf \div slab
  <1>2. d1 \in Nat \ {0} /\ d2 \in Nat \ {0} /\ d3 \in Nat \ {0} /\ pageSize \in Nat \ {0}
    BY ShmAssumption
  <1>3. /\ params.blockSize = blk /\ params.slabSize = slab
        /\ params.numBlocks = k2 * k3 /\ params.slabsPerBuffer = k3
    BY <1>1 DEF ParamCheck
  <1> HIDE DEF d1, d2, d3
  <1>4. blk \in Nat \ {0}
    BY <1>2, RoundUpOK
  <1> HIDE DEF blk
  <1>5. slab \in Nat \ {0} /\ slab = k2 * blk /\ k2 \in Nat /\ k2 > 0
    BY <1>2, <1>4, RoundUpOK
  <1> HIDE DEF slab, k2
  <1>6. buf \in Nat \ {0} /\ buf = k3 * slab /\ k3 \in Nat /\ k3 > 0
    <2>1. slab \in Nat \ {0} /\ d3 \in Nat /\ d3 > 0
      BY <1>2, <1>5
    <2>. QED BY <2>1, RoundUpOK
  <1> HIDE DEF buf, k3
  <1>7. k2 * k3 \in Nat \ {0}
    BY <1>5, <1>6
  <1>. QED BY <1>3, <1>4, <1>5, <1>6, <1>7 DEF ParamsOK, k2

\* The first state.
LEMMA InitOK == Init /\ InitialBuffers => ManagerOK /\ ClientsOK
  <1> SUFFICES ASSUME Init, InitialBuffers
               PROVE  ManagerOK /\ ClientsOK
    OBVIOUS
  <1>1. MgrOK(mgr) /\ NamesOK(mgr, names) /\ ParamsOK(params)
    BY InitMgr, InitParams
  <1>2. /\ mgr.pc = "down" /\ mgr.start = 0 /\ mgr.headerVec = <<>> /\ mgr.for = None
        /\ mgr.proxies = <<>>
    BY DEF Init
  <1>3. PICK old \in StaleNames :
          /\ segs = [s \in {<<-1, b>> : b \in old} |-> OldSeg]
          /\ names = [b \in Buffers |-> IF b \in old THEN <<-1, b>> ELSE NoSeg]
    BY DEF Init
  <1>4. OldSeg \in SegState /\ OldSeg.numBuffers = 1
    BY DEF OldSeg, SegState
  <1>5. SegsOK(mgr, segs)
    BY <1>2, <1>3, <1>4, EmptyList DEF SegsOK, Made
  <1>6. ServingOK(mgr)
    BY <1>2 DEF ServingOK, Serving
  <1>7. KnownOK(names, segs)
    BY <1>3, <1>4, Constants DEF KnownOK, InitialBuffers
  <1>8. ManagerOK
    BY <1>1, <1>5, <1>6, <1>7 DEF ManagerOK
  <1>9. clt \in [Clients -> CltState] /\ \A c \in Clients :
          /\ clt[c].pc = "idle" /\ clt[c].start = 0 /\ clt[c].headerVec = <<>>
          /\ clt[c].toMgr = <<>> /\ clt[c].ids = {} /\ clt[c].hdr = NoSeg
    <2> DEFINE r == [pc |-> "idle", start |-> 0, inbox |-> <<>>, toMgr |-> <<>>,
                     headerVec |-> <<>>, hdr |-> NoSeg, avail |-> 0, todo |-> 0,
                     granted |-> FALSE, ids |-> {}]
    <2>1. /\ r.pc = "idle" /\ r.start = 0 /\ r.headerVec = <<>> /\ r.toMgr = <<>> /\ r.ids = {}
          /\ r.hdr = NoSeg
      OBVIOUS
    <2>2. r \in CltState
      <3>1. /\ "idle" \in Closed /\ 0 \in Nat /\ 0 \in Int /\ FALSE \in BOOLEAN
            /\ {} \in SUBSET Gift /\ NoSeg \in Segment \cup {NoSeg}
            /\ <<>> \in SegList /\ <<>> \in Msgs
        BY EmptyList DEF Closed, Msgs
      <3>. QED BY <3>1 DEF CltState
    <2>3. clt = [c \in Clients |-> r]
      BY DEF Init
    <2> HIDE DEF r
    <2>. QED BY <2>1, <2>2, <2>3
  <1>10. ASSUME NEW c \in Clients
         PROVE  CltOK(params, mgr, segs, c, clt[c])
    <2> DEFINE x == clt[c]
    <2>1. /\ x \in CltState /\ x.pc = "idle" /\ x.start = 0 /\ x.headerVec = <<>>
          /\ x.toMgr = <<>> /\ x.ids = {} /\ x.hdr = NoSeg
      BY <1>9
    <2> HIDE DEF x
    <2>2. ~IsLive(mgr, c, x) /\ StartOK(mgr, x)
      BY <1>2, <2>1 DEF IsLive, StartOK
    <2>3. PcOK(x) /\ ProxyOK(mgr, c, x) /\ SegsKnown(segs, x) /\ InboxOK(params, segs, x)
      BY <2>1, EmptyList DEF PcOK, ProxyOK, SegsKnown, InboxOK, Closed, Mapping
    <2>. QED BY <2>1, <2>2, <2>3 DEF CltOK, LiveOK, x
  <1>. QED BY <1>8, <1>9, <1>10 DEF ClientsOK

\* Every step keeps the invariant.
LEMMA InvStep ==
  ASSUME ManagerOK, ClientsOK, [Next]_vars, InitialBuffers
  PROVE  ManagerOK' /\ ClientsOK'
  <1>1. ManagerOK' /\ params' = params /\ Grown(segs')
    BY ManagerStep
  <1>2. ASSUME clt' \in [Clients -> CltState], \A c \in Clients : Kept(c)
        PROVE  ClientsOK'
    BY <1>1, <1>2 DEF ClientsOK, Kept
  <1>3. CASE Manages
    BY <1>1, <1>2, <1>3, ManagesKept
  <1>4. ASSUME NEW c \in Clients, Readable(c)
        PROVE  ClientsOK'
    BY <1>1, <1>2, <1>4, ReadableKept
  <1>5. ASSUME NEW c \in Clients, Accept(c)
        PROVE  ClientsOK'
    BY <1>1, <1>2, <1>5, AcceptKept
  <1>6. ASSUME NEW c \in Clients, Runs(c)
        PROVE  ClientsOK'
    <2>1. clt[c] \in CltState /\ CltOK(params, mgr, segs, c, clt[c])
      BY DEF ClientsOK
    <2>2. PICK r : Become(c, r) /\ CltOK(params, mgr, segs, c, r)
      BY <1>6, <2>1, RunsOK
    <2>3. r \in CltState
      BY <2>2 DEF CltOK
    <2>4. mgr' = mgr /\ segs' = segs /\ clt' = [clt EXCEPT ![c] = r]
      BY <2>2 DEF Become
    <2>5. clt' \in [Clients -> CltState]
      BY <2>3, <2>4 DEF ClientsOK
    <2>6. ASSUME NEW d \in Clients
          PROVE  CltOK(params, mgr, segs, d, clt'[d])
      <3>1. CASE d = c
        BY <2>2, <2>4, <3>1 DEF ClientsOK
      <3>2. CASE d # c
        <4>1. clt'[d] = clt[d]
          BY <2>4, <3>2 DEF ClientsOK
        <4>. QED BY <4>1 DEF ClientsOK
      <3>. QED BY <3>1, <3>2
    <2>. QED BY <1>1, <2>4, <2>5, <2>6 DEF ClientsOK
  <1>7. CASE UNCHANGED vars
    <2>1. params' = params /\ mgr' = mgr /\ segs' = segs /\ clt' = clt
      BY <1>7 DEF vars
    <2>. QED BY <1>1, <2>1 DEF ClientsOK
  <1>. QED BY <1>1, <1>3, <1>4, <1>5, <1>6, <1>7 DEF Next

-----------------------------------------------------------------------------
\* The blocks that an ID stands for are in the buffers that the ID is in.
LEMMA BlocksWithin ==
  ASSUME ParamsOK(params), NEW y, NEW k \in Nat, InBuffers(params, y, k), NEW blk \in BlocksOf(y)
  PROVE  blk \in Nat /\ BufferOf(blk) \in Nat /\ BufferOf(blk) < k
  <1> DEFINE n == params.numBlocks
             b == params.slabSize \div params.blockSize
  <1>1. n \in Nat \ {0} /\ b \in Nat \ {0} /\ y.id \in Nat
    BY DEF ParamsOK, InBuffers
  <1>2. blk \in Nat /\ blk < k * n
    <2>1. CASE y.kind = "block"
      <3>1. y.id < k * n
        BY <2>1 DEF InBuffers, PerBuffer
      <3>2. blk \in y.id..(y.id + 1 - 1)
        BY <2>1 DEF BlocksOf, FirstBlock, NumBlocks
      <3> HIDE DEF n, b
      <3>. QED BY <1>1, <3>1, <3>2
    <2>2. CASE y.kind # "block"
      <3>1. y.id < k * params.slabsPerBuffer
        BY <2>2 DEF InBuffers, PerBuffer
      <3>2. blk \in (y.id * b)..(y.id * b + b - 1)
        BY <2>2 DEF BlocksOf, FirstBlock, NumBlocks, BlocksPerSlab
      <3>3. (y.id + 1) * b - 1 < k * n
        BY <1>1, <3>1, LastBlock
      <3> HIDE DEF n, b
      <3>4. (y.id + 1) * b = y.id * b + b /\ y.id * b \in Nat
        BY <1>1
      <3>5. k * n \in Nat
        BY <1>1
      <3>. QED BY <1>1, <3>2, <3>3, <3>4, <3>5
    <2>. QED BY <2>1, <2>2
  <1> HIDE DEF n, b
  <1>3. blk \div n \in Nat /\ blk \div n < k
    BY <1>1, <1>2, DivBelow
  <1>. QED BY <1>2, <1>3 DEF BufferOf, n

-----------------------------------------------------------------------------
(***************************************************************************)
(* What the clients of the last start look into, also when it has ended.   *)
(***************************************************************************)
\* The segment whose header clients read.
First(m) == <<m.start, 0>>

\* The buffers that this header counts are complete, and their names lead nowhere else.
Complete(m, nm, sg) ==
  First(m) \in DOMAIN sg =>
    \A b \in Buffers : b < sg[First(m)].numBuffers =>
      /\ <<m.start, b>> \in DOMAIN sg
      /\ sg[<<m.start, b>>].sized /\ sg[<<m.start, b>>].fields
      /\ nm[b] = NoSeg \/ nm[b] = <<m.start, b>>

\* No segment is of a later start, and a start begins without one.
Fresh(m, sg) ==
  /\ \A k \in Int, b \in Nat : <<k, b>> \in DOMAIN sg => k <= m.start
  /\ m.pc = "open" /\ Len(m.headerVec) = 0 => First(m) \notin DOMAIN sg

\* While the manager runs, the header counts no more than headerVec has.
LEMMA RunningComplete ==
  ASSUME NEW m, NEW nm, NEW sg, MgrOK(m), NamesOK(m, nm), SegsOK(m, sg), ServingOK(m),
         Fresh(m, sg), m.pc # "down"
  PROVE  Complete(m, nm, sg)
  <1>1. SUFFICES ASSUME First(m) \in DOMAIN sg, NEW b \in Buffers, b < sg[First(m)].numBuffers
                 PROVE  /\ <<m.start, b>> \in DOMAIN sg
                        /\ sg[<<m.start, b>>].sized /\ sg[<<m.start, b>>].fields
                        /\ nm[b] = NoSeg \/ nm[b] = <<m.start, b>>
    BY DEF Complete
  <1>2. Len(m.headerVec) \in Nat /\ b \in Nat
    BY DEF MgrOK, MgrState, SegList, Buffers
  <1>3. Len(m.headerVec) > 0
    <2>1. CASE m.pc \in Made
      <3>1. Len(m.headerVec) = 0 => sg[First(m)].numBuffers = 0
        BY <2>1 DEF SegsOK, First
      <3>. QED BY <1>1, <1>2, <3>1
    <2>2. CASE m.pc = "open"
      BY <1>1, <1>2, <2>2 DEF Fresh
    <2>3. CASE m.pc \in {"publish", "lock"}
      BY <1>2, <2>3 DEF MgrOK
    <2>4. CASE m.pc \in {"loop", "reserve"}
      BY <1>2, <2>4 DEF ServingOK, Serving
    <2>. QED BY <2>1, <2>2, <2>3, <2>4 DEF MgrOK, MgrState, Growing
  <1>4. b < Len(m.headerVec)
    BY <1>1, <1>2, <1>3 DEF SegsOK, First
  <1>5. b + 1 \in 1..Len(m.headerVec) /\ (b + 1) - 1 = b
    BY <1>2, <1>4
  <1>6. /\ <<m.start, b>> \in DOMAIN sg
        /\ sg[<<m.start, b>>].sized /\ sg[<<m.start, b>>].fields
    BY <1>5 DEF SegsOK
  <1>. QED BY <1>4, <1>6 DEF NamesOK, NameOK

\* Every step keeps Fresh: OpenShm makes a segment of the present start only.
LEMMA FreshStep ==
  ASSUME ManagerOK, ManagerOK', Fresh(mgr, segs), [Next]_vars
  PROVE  Fresh(mgr', segs')
  <1> USE Constants
  <1>0. /\ mgr.start \in Nat /\ NextBuffer = Len(mgr.headerVec) /\ NextBuffer \in Nat
        /\ MgrOK(mgr)
    BY MgrFacts DEF ManagerOK
  <1>1. ASSUME DOMAIN segs' = DOMAIN segs, mgr'.start = mgr.start, mgr'.pc # "open"
        PROVE  Fresh(mgr', segs')
    BY <1>1 DEF Fresh
  <1>2. CASE Start
    <2>1. segs' = segs /\ mgr'.start = mgr.start + 1
      BY <1>0, <1>2 DEF Start, MgrOK, MgrState
    <2>2. \A k \in Int, b \in Nat : <<k, b>> \in DOMAIN segs => k <= mgr.start
      BY DEF Fresh
    <2>3. <<mgr.start + 1, 0>> \notin DOMAIN segs
      <3>1. mgr.start + 1 \in Int /\ 0 \in Nat /\ ~(mgr.start + 1 <= mgr.start)
        BY <1>0
      <3>. QED BY <2>2, <3>1
    <2>4. \A k \in Int : k <= mgr.start => k <= mgr.start + 1
      BY <1>0
    <2>. QED BY <2>1, <2>2, <2>3, <2>4 DEF Fresh, First
  <1>3. CASE OpenShm
    <2>1. CASE /\ segs' = FnWith(segs, <<mgr.start, NextBuffer>>, NewSeg)
               /\ mgr' = [mgr EXCEPT !.pc = "truncate"]
      <3>1. mgr'.start = mgr.start /\ mgr'.pc = "truncate"
        BY <1>0, <2>1 DEF MgrOK, MgrState
      <3>2. ASSUME NEW k \in Int, NEW b \in Nat, <<k, b>> \in DOMAIN segs'
            PROVE  k <= mgr.start
        <4>1. <<k, b>> \in DOMAIN segs \/ <<k, b>> = <<mgr.start, NextBuffer>>
          BY <2>1, <3>2 DEF FnWith
        <4>2. <<k, b>> = <<mgr.start, NextBuffer>> => k = mgr.start
          OBVIOUS
        <4>. QED BY <1>0, <4>1, <4>2 DEF Fresh
      <3>. QED BY <3>1, <3>2 DEF Fresh
    <2>2. CASE Throw(names, mgr.headerVec) /\ UNCHANGED segs
      <3>1. mgr'.start = mgr.start /\ mgr'.pc # "open"
        BY <1>0, <2>2, EndedFields DEF Throw, MgrOK, MgrState
      <3>. QED BY <1>1, <2>2, <3>1
    <2>. QED BY <1>3, <2>1, <2>2 DEF OpenShm
  <1>4. CASE Truncate
    <2>1. DOMAIN segs' = DOMAIN segs
      BY <1>4 DEF Truncate, CreateFails
    <2>2. mgr'.start = mgr.start /\ mgr'.pc # "open"
      BY <1>0, <1>4, EndedFields DEF Truncate, CreateFails, Throw, MgrOK, MgrState
    <2>. QED BY <1>1, <2>1, <2>2
  <1>5. CASE WriteHeader \/ Publish
    <2>1. DOMAIN segs' = DOMAIN segs
      BY <1>5 DEF WriteHeader, Publish
    <2>2. mgr'.start = mgr.start /\ mgr'.pc # "open"
      BY <1>0, <1>5 DEF WriteHeader, Publish, MgrOK, MgrState
    <2>. QED BY <1>1, <2>1, <2>2
  <1>6. CASE Lock
    <2>1. PICK fails \in BOOLEAN :
            LET m == [mgr EXCEPT !.lockErrors = @ \/ fails]
            IN  IF NextBuffer < m.target
                THEN mgr' = [m EXCEPT !.pc = "open"] /\ UNCHANGED <<names, clt>>
                ELSE IF m.lockErrors /\ ~allowUnlockedMemory THEN Throw(names, m.headerVec)
                ELSE Announce(m)
      BY <1>6 DEF Lock
    <2> DEFINE m == [mgr EXCEPT !.lockErrors = @ \/ fails]
    <2>2. m \in MgrState /\ m.headerVec = mgr.headerVec /\ m.start = mgr.start
      BY <1>0, <2>1 DEF MgrOK, MgrState
    <2>3. segs' = segs /\ Len(mgr.headerVec) > 0
      BY <1>0, <1>6 DEF Lock, MgrOK
    <2> HIDE DEF m
    <2>4. CASE mgr' = [m EXCEPT !.pc = "open"]
      <3>1. mgr'.start = mgr.start /\ Len(mgr'.headerVec) > 0
        BY <2>2, <2>3, <2>4 DEF MgrState
      <3>. QED BY <1>0, <2>3, <3>1 DEF Fresh
    <2>5. CASE Throw(names, m.headerVec)
      <3>1. mgr'.start = mgr.start /\ mgr'.pc # "open"
        BY <1>0, <2>5, EndedFields DEF Throw, MgrOK, MgrState
      <3>. QED BY <1>1, <2>3, <3>1
    <2>6. CASE Announce(m)
      <3>1. mgr'.start = mgr.start /\ mgr'.pc # "open"
        BY <2>2, <2>6 DEF Announce, MgrState
      <3>. QED BY <1>1, <2>3, <3>1
    <2>. QED BY <2>1, <2>4, <2>5, <2>6 DEF m
  <1>7. CASE Reserve
    <2>1. mgr'.start = mgr.start /\ mgr'.headerVec = mgr.headerVec /\ segs' = segs
      BY <1>0, <1>7 DEF Reserve, MgrOK, MgrState
    <2>2. Len(mgr.headerVec) > 0
      BY <1>0, <1>7 DEF Reserve, ManagerOK, ServingOK, Serving
    <2>. QED BY <1>0, <2>1, <2>2 DEF Fresh
  <1>8. CASE Stop \/ Killed
    BY <1>0, <1>1, <1>8, EndedFields DEF Stop, Killed
  <1>9. ASSUME NEW c \in Clients, Readable(c) \/ Accept(c)
        PROVE  Fresh(mgr', segs')
    <2>1. mgr'.start = mgr.start /\ mgr'.pc # "open" /\ segs' = segs
      BY <1>0, <1>9 DEF Readable, Accept, MgrOK, MgrState
    <2>. QED BY <1>1, <2>1
  <1>10. CASE UNCHANGED <<mgr, segs>>
    BY <1>10
  <1>11. ASSUME NEW c \in Clients, Runs(c)
         PROVE  UNCHANGED <<mgr, segs>>
    BY <1>11, RunsBecome DEF Become
  <1>. QED
    BY <1>2, <1>3, <1>4, <1>5, <1>6, <1>7, <1>8, <1>9, <1>10, <1>11 DEF Next, Manages, vars

\* A manager that ends changes no segment, and only takes names away.
LEMMA EndKeeps ==
  ASSUME MgrOK(mgr), NamesOK(mgr, names), [Next]_vars, mgr'.pc = "down"
  PROVE  /\ mgr'.start = mgr.start /\ segs' = segs
         /\ \A b \in Buffers : names'[b] = names[b] \/ names'[b] = NoSeg
  <1> DEFINE Goal == /\ mgr'.start = mgr.start /\ segs' = segs
                     /\ \A b \in Buffers : names'[b] = names[b] \/ names'[b] = NoSeg
  <1>. SUFFICES Goal
    OBVIOUS
  <1>0. mgr \in MgrState /\ DOMAIN names = Buffers /\ NextBuffer = Len(mgr.headerVec)
    BY MgrFacts DEF MgrOK, NamesOK
  <1>1. ASSUME NEW nms, NEW hv, Throw(nms, hv), segs' = segs,
               \A b \in Buffers : nms[b] = names[b] \/ nms[b] = NoSeg
        PROVE  Goal
    <2>1. mgr'.start = mgr.start
      BY <1>0, <1>1, EndedFields DEF Throw, MgrState
    <2>2. \A b \in Buffers : names'[b] = nms[b] \/ names'[b] = NoSeg
      BY <1>1 DEF Throw
    <2>. QED BY <1>1, <2>1, <2>2
  <1>2. CASE Start
    BY <1>0, <1>2 DEF Start, MgrState
  <1>3. CASE OpenShm
    <2>1. CASE mgr' = [mgr EXCEPT !.pc = "truncate"]
      BY <1>0, <2>1 DEF MgrState
    <2>2. CASE Throw(names, mgr.headerVec) /\ UNCHANGED segs
      BY <1>1, <2>2
    <2>. QED BY <1>3, <2>1, <2>2 DEF OpenShm
  <1>4. CASE Truncate
    <2>1. CASE mgr' = [mgr EXCEPT !.pc = "header"]
      BY <1>0, <2>1 DEF MgrState
    <2>2. CASE CreateFails
      <3> DEFINE nms == [names EXCEPT ![NextBuffer] = NoSeg]
      <3>1. \A b \in Buffers : nms[b] = names[b] \/ nms[b] = NoSeg
        BY <1>0
      <3>2. Throw(nms, mgr.headerVec) /\ segs' = segs
        BY <2>2 DEF CreateFails
      <3> HIDE DEF nms
      <3>. QED BY <1>1, <3>1, <3>2
    <2>. QED BY <1>4, <2>1, <2>2 DEF Truncate
  <1>5. CASE WriteHeader \/ Publish
    BY <1>0, <1>5 DEF WriteHeader, Publish, MgrState
  <1>6. CASE Lock
    <2>1. PICK fails \in BOOLEAN :
            LET m == [mgr EXCEPT !.lockErrors = @ \/ fails]
            IN  IF NextBuffer < m.target
                THEN mgr' = [m EXCEPT !.pc = "open"] /\ UNCHANGED <<names, clt>>
                ELSE IF m.lockErrors /\ ~allowUnlockedMemory THEN Throw(names, m.headerVec)
                ELSE Announce(m)
      BY <1>6 DEF Lock
    <2> DEFINE m == [mgr EXCEPT !.lockErrors = @ \/ fails]
    <2>2. m \in MgrState /\ segs' = segs
      BY <1>0, <1>6, <2>1 DEF Lock, MgrState
    <2> HIDE DEF m
    <2>3. CASE mgr' = [m EXCEPT !.pc = "open"]
      BY <2>2, <2>3 DEF MgrState
    <2>4. CASE Throw(names, m.headerVec)
      BY <1>1, <2>2, <2>4
    <2>5. CASE Announce(m)
      BY <2>2, <2>5 DEF Announce, MgrState
    <2>. QED BY <2>1, <2>3, <2>4, <2>5 DEF m
  <1>7. CASE Reserve
    BY <1>0, <1>7 DEF Reserve, MgrState
  <1>8. CASE Stop \/ Killed
    <2>1. mgr'.start = mgr.start /\ segs' = segs
      BY <1>8, EndedFields DEF Stop, Killed
    <2>2. \A b \in Buffers : names'[b] = names[b] \/ names'[b] = NoSeg
      BY <1>8 DEF Stop, Killed, Unlinked
    <2>. QED BY <2>1, <2>2
  <1>9. ASSUME NEW c \in Clients, Readable(c) \/ Accept(c)
        PROVE  Goal
    BY <1>0, <1>9 DEF Readable, Accept, MgrState
  <1>10. CASE UNCHANGED <<mgr, segs, names>>
    BY <1>10
  <1>11. ASSUME NEW c \in Clients, Runs(c)
         PROVE  UNCHANGED <<mgr, segs, names>>
    BY <1>11, RunsBecome DEF Become
  <1> HIDE DEF Goal
  <1>. QED
    BY <1>2, <1>3, <1>4, <1>5, <1>6, <1>7, <1>8, <1>9, <1>10, <1>11 DEF Next, Manages, vars

\* Every step keeps Complete: a manager that ends leaves what its header counts.
LEMMA CompleteStep ==
  ASSUME ManagerOK, ManagerOK', Fresh(mgr, segs), Complete(mgr, names, segs), [Next]_vars
  PROVE  Fresh(mgr', segs') /\ Complete(mgr', names', segs')
  <1>1. Fresh(mgr', segs')
    BY FreshStep
  <1>2. CASE mgr'.pc # "down"
    BY <1>1, <1>2, RunningComplete DEF ManagerOK
  <1>3. CASE mgr'.pc = "down"
    <2>1. /\ mgr'.start = mgr.start /\ segs' = segs
          /\ \A b \in Buffers : names'[b] = names[b] \/ names'[b] = NoSeg
      BY <1>3, EndKeeps DEF ManagerOK
    <2>. QED BY <1>1, <2>1 DEF Complete, First
  <1>. QED BY <1>2, <1>3, <1>1

\* A client of the last start has mapped the first buffers of this start, in order, and no
\* more than the header counts; it looks into no other header.
MappedOK(m, sg, x) ==
  /\ x.pc \in Closed => Len(x.headerVec) = 0
  /\ (x.pc \notin Closed /\ x.start = m.start) =>
       /\ First(m) \in DOMAIN sg /\ sg[First(m)].numBuffers >= 1
       /\ \A i \in 1..Len(x.headerVec) : x.headerVec[i] = <<m.start, i - 1>>
       /\ Len(x.headerVec) <= sg[First(m)].numBuffers
       /\ x.pc = "valid" => x.hdr = First(m)
       /\ x.pc = "map" => x.avail <= sg[First(m)].numBuffers

\* What MappedOK says of a client, when its start is the last.
Mapped(x) ==
  /\ First(mgr) \in DOMAIN segs /\ segs[First(mgr)].numBuffers >= 1
  /\ segs[First(mgr)].numBuffers \in Nat /\ segs[First(mgr)].numBuffers <= maxNumBuffers
  /\ \A i \in 1..Len(x.headerVec) : x.headerVec[i] = <<mgr.start, i - 1>>
  /\ Len(x.headerVec) <= segs[First(mgr)].numBuffers
  /\ x.pc = "valid" => x.hdr = First(mgr)
  /\ x.pc = "map" => x.avail <= segs[First(mgr)].numBuffers

LEMMA MappedFacts ==
  ASSUME ManagerOK, NEW x, MappedOK(mgr, segs, x), x.pc \notin Closed, x.start = mgr.start
  PROVE  Mapped(x)
  BY DEF MappedOK, Mapped, ManagerOK, KnownOK, SegsOK, SegState

\* A header, and a mapping, of such a client is complete.
LEMMA LooksComplete ==
  ASSUME ManagerOK, Complete(mgr, names, segs), NEW x \in CltState, PcOK(x),
         MappedOK(mgr, segs, x), x.start = mgr.start
  PROVE  /\ x.hdr # NoSeg => segs[x.hdr].sized /\ segs[x.hdr].fields
         /\ \A i \in 1..Len(x.headerVec) : segs[x.headerVec[i]].sized /\ segs[x.headerVec[i]].fields
  <1>1. CASE x.pc \in Closed
    BY <1>1 DEF MappedOK, PcOK, Closed
  <1>2. CASE x.pc \notin Closed
    <2>1. Mapped(x)
      BY <1>2, MappedFacts
    <2>2. ASSUME NEW b \in Nat, b < segs[First(mgr)].numBuffers
          PROVE  segs[<<mgr.start, b>>].sized /\ segs[<<mgr.start, b>>].fields
      <3>1. b \in Buffers
        BY <2>1, <2>2, Constants DEF Mapped, Buffers
      <3>. QED BY <2>1, <2>2, <3>1 DEF Mapped, Complete
    <2>3. x.hdr # NoSeg => segs[x.hdr].sized /\ segs[x.hdr].fields
      <3>1. x.hdr # NoSeg => x.hdr = <<mgr.start, 0>>
        BY <2>1 DEF Mapped, PcOK, First
      <3>2. 0 \in Nat /\ 0 < segs[First(mgr)].numBuffers
        BY <2>1 DEF Mapped
      <3>. QED BY <2>2, <3>1, <3>2
    <2>4. ASSUME NEW i \in 1..Len(x.headerVec)
          PROVE  segs[x.headerVec[i]].sized /\ segs[x.headerVec[i]].fields
      <3>1. Len(x.headerVec) \in Nat
        BY DEF CltState, SegList
      <3>2. i - 1 \in Nat /\ i - 1 < segs[First(mgr)].numBuffers
        BY <2>1, <3>1 DEF Mapped
      <3>3. x.headerVec[i] = <<mgr.start, i - 1>>
        BY <2>1 DEF Mapped
      <3>. QED BY <2>2, <3>2, <3>3
    <2>. QED BY <2>3, <2>4
  <1>. QED BY <1>1, <1>2

\* A step of a client keeps MappedOK, and lets it die of SIGBUS only when its manager was
\* followed by another one.
LEMMA RunsMapped ==
  ASSUME ManagerOK, ClientsOK, Complete(mgr, names, segs), NEW c \in Clients,
         MappedOK(mgr, segs, clt[c]), Runs(c), InitialBuffers
  PROVE  /\ MappedOK(mgr, segs, clt'[c])
         /\ clt[c].pc # "bus" /\ clt'[c].pc = "bus" => clt[c].start < mgr.start
  <1> DEFINE x == clt[c]
             Goal == /\ MappedOK(mgr, segs, clt'[c])
                     /\ x.pc # "bus" /\ clt'[c].pc = "bus" => x.start < mgr.start
  <1>. SUFFICES Goal
    OBVIOUS
  <1>0. /\ x \in CltState /\ CltOK(params, mgr, segs, c, x) /\ PcOK(x) /\ StartOK(mgr, x)
        /\ x.headerVec \in SegList /\ Len(x.headerVec) \in Nat /\ x.start \in Nat
        /\ mgr.start \in Nat /\ x.start <= mgr.start /\ DOMAIN clt = Clients
    BY MgrFacts DEF ManagerOK, ClientsOK, CltOK, CltState, SegList, StartOK
  <1>1. ASSUME NEW r, Become(c, r)
        PROVE  clt'[c] = r
    BY <1>0, <1>1 DEF Become
  <1>2. ASSUME NEW how \in Closed, Dies(c, how), how # "bus" \/ x.start # mgr.start
        PROVE  Goal
    <2> DEFINE r == [NoShm(c) EXCEPT !.pc = how]
    <2>1. clt'[c] = r
      BY <1>1, <1>2 DEF Dies
    <2>2. r.pc = how /\ r.headerVec = <<>>
      BY DEF NoShm, CltState
    <2> HIDE DEF r
    <2>3. MappedOK(mgr, segs, r)
      BY <2>2, EmptyList DEF MappedOK
    <2>. QED BY <1>0, <1>2, <2>1, <2>2, <2>3
  <1>3. ASSUME Close(c)
        PROVE  Goal
    <2> DEFINE r == NoShm(c)
    <2>1. clt'[c] = r
      BY <1>1, <1>3 DEF Close
    <2>2. r.pc = "idle" /\ r.headerVec = <<>>
      BY DEF NoShm, CltState
    <2> HIDE DEF r
    <2>3. MappedOK(mgr, segs, r)
      BY <2>2, EmptyList DEF MappedOK, Closed
    <2>. QED BY <2>1, <2>2, <2>3
  <1>4. ASSUME NEW r, Become(c, r), x.pc \notin Closed, r.pc \notin Closed, r.start = x.start,
               x.start = mgr.start /\ Mapped(x) =>
                 /\ \A i \in 1..Len(r.headerVec) : r.headerVec[i] = <<mgr.start, i - 1>>
                 /\ Len(r.headerVec) <= segs[First(mgr)].numBuffers
                 /\ r.pc = "valid" => r.hdr = First(mgr)
                 /\ r.pc = "map" => r.avail <= segs[First(mgr)].numBuffers
        PROVE  Goal
    <2>1. clt'[c] = r
      BY <1>1, <1>4
    <2>2. x.start = mgr.start => Mapped(x)
      BY <1>4, MappedFacts
    <2>3. MappedOK(mgr, segs, r)
      BY <1>4, <2>2 DEF MappedOK, Mapped
    <2>. QED BY <1>4, <2>1, <2>3 DEF Closed
  <1>5. ASSUME NEW r, Become(c, r), x.pc \notin Closed, r.pc \notin Closed, r.start = x.start,
               r.headerVec = x.headerVec, r.pc \notin {"valid", "map"}
        PROVE  Goal
    BY <1>4, <1>5 DEF Mapped
  <1>6. ASSUME Returns(c), x.pc \notin Closed
        PROVE  Goal
    <2> DEFINE pc == IF x.todo = 1 THEN "numSlabs" ELSE "mapBuffers"
               td == x.todo - 1
               r  == [x EXCEPT !.pc = pc, !.todo = td]
    <2>1. Become(c, r)
      BY <1>6 DEF Returns
    <2>2. pc \in {"numSlabs", "mapBuffers"}
      OBVIOUS
    <2> HIDE DEF pc, td
    <2>3. r.pc = pc /\ r.start = x.start /\ r.headerVec = x.headerVec
      BY <1>0 DEF CltState
    <2> HIDE DEF r
    <2>. QED BY <1>5, <1>6, <2>1, <2>2, <2>3 DEF Closed
  <1>7. x.start = mgr.start =>
          /\ x.hdr # NoSeg => segs[x.hdr].sized
          /\ \A i \in 1..Len(x.headerVec) : segs[x.headerVec[i]].sized
    BY <1>0, LooksComplete
  <1>8. ASSUME NEW b \in Nat, x.start = mgr.start, Mapped(x), b < segs[First(mgr)].numBuffers,
               names[b] # NoSeg
        PROVE  names[b] = <<mgr.start, b>>
    <2>1. b \in Buffers
      BY <1>8, Constants DEF Mapped, Buffers
    <2>. QED BY <1>8, <2>1 DEF Mapped, Complete
  <1> HIDE DEF Goal
  <1>9. CASE CloseCall(c)
    BY <1>3, <1>9 DEF CloseCall
  <1>10. CASE ValidHeader(c)
    <2>1. x.pc = "valid"
      BY <1>10 DEF ValidHeader
    <2>2. CASE ~segs[x.hdr].sized /\ Dies(c, "bus")
      <3>1. x.start = mgr.start => segs[x.hdr].sized
        <4>1. x.start = mgr.start => x.hdr # NoSeg
          BY <2>1, MappedFacts, NotNoSeg DEF Mapped, First, Closed
        <4>. QED BY <1>7, <4>1
      <3>. QED BY <1>2, <2>2, <3>1 DEF Closed
    <2>3. CASE Become(c, [x EXCEPT !.pc = "map0", !.hdr = NoSeg])
      <3> DEFINE r == [x EXCEPT !.pc = "map0", !.hdr = NoSeg]
      <3>1. r.pc = "map0" /\ r.start = x.start /\ r.headerVec = x.headerVec
        BY <1>0 DEF CltState
      <3>2. Become(c, r)
        BY <2>3
      <3> HIDE DEF r
      <3>. QED BY <1>5, <2>1, <3>1, <3>2 DEF Closed
    <2>. QED BY <1>3, <1>10, <2>2, <2>3 DEF ValidHeader
  <1>11. CASE MapFirst(c)
    <2>1. CASE names[0] # NoSeg /\ Become(c, [x EXCEPT !.pc = "mapBuffers", !.todo = 2, !.headerVec = <<names[0]>>])
      <3> DEFINE hv == <<names[0]>>
                 td == 2
                 r  == [x EXCEPT !.pc = "mapBuffers", !.todo = td, !.headerVec = hv]
      <3>1. Become(c, r) /\ x.pc = "map0"
        BY <1>11, <2>1 DEF MapFirst
      <3>2. Len(hv) = 1 /\ hv[1] = names[0]
        OBVIOUS
      <3> HIDE DEF hv, td
      <3>3. r.pc = "mapBuffers" /\ r.start = x.start /\ r.headerVec = hv
        BY <1>0 DEF CltState
      <3> HIDE DEF r
      <3>4. ASSUME x.start = mgr.start, Mapped(x)
            PROVE  /\ \A i \in 1..Len(hv) : hv[i] = <<mgr.start, i - 1>>
                   /\ Len(hv) <= segs[First(mgr)].numBuffers
        <4>1. 0 \in Nat /\ 0 < segs[First(mgr)].numBuffers
          BY <3>4 DEF Mapped
        <4>2. names[0] = <<mgr.start, 0>>
          BY <1>8, <2>1, <3>4, <4>1
        <4>3. \A i \in 1..Len(hv) : i = 1 /\ i - 1 = 0
          BY <3>2
        <4>. QED BY <3>2, <3>4, <4>2, <4>3 DEF Mapped
      <3>. QED BY <1>4, <3>1, <3>3, <3>4 DEF Closed
    <2>. QED BY <1>3, <1>11, <2>1 DEF MapFirst
  <1>12. CASE MapBuffers(c)
    <2>1. x.pc = "mapBuffers" /\ 1 \in 1..Len(x.headerVec) /\ 1 - 1 = 0
      BY <1>0, <1>12 DEF MapBuffers, PcOK, Mapping
    <2>2. CASE ~segs[x.headerVec[1]].sized /\ Dies(c, "bus")
      <3>1. x.start # mgr.start
        BY <1>7, <2>1, <2>2
      <3>. QED BY <1>2, <2>2, <3>1 DEF Closed
    <2>3. CASE Returns(c)
      BY <1>6, <2>1, <2>3 DEF Closed
    <2>4. CASE Become(c, [x EXCEPT !.pc = "map", !.avail = segs[x.headerVec[1]].numBuffers])
      <3> DEFINE av == segs[x.headerVec[1]].numBuffers
                 r  == [x EXCEPT !.pc = "map", !.avail = av]
      <3>1. Become(c, r)
        BY <2>4
      <3> HIDE DEF av
      <3>2. r.pc = "map" /\ r.start = x.start /\ r.headerVec = x.headerVec /\ r.avail = av
        BY <1>0 DEF CltState
      <3> HIDE DEF r
      <3>3. ASSUME x.start = mgr.start, Mapped(x)
            PROVE  av <= segs[First(mgr)].numBuffers
        <4>1. x.headerVec[1] = First(mgr)
          BY <2>1, <3>3 DEF Mapped, First
        <4>2. av = segs[First(mgr)].numBuffers
          BY <4>1 DEF av
        <4>. QED BY <3>3, <4>2 DEF Mapped
      <3>. QED BY <1>4, <2>1, <3>1, <3>2, <3>3 DEF Closed, Mapped
    <2>. QED BY <1>3, <1>12, <2>2, <2>3, <2>4 DEF MapBuffers
  <1>13. CASE Map(c)
    <2> DEFINE L == Len(x.headerVec)
    <2>0. x.pc = "map" /\ L < x.avail /\ x.avail \in Nat
      BY <1>0, <1>13 DEF Map, PcOK, CltState
    <2>1. CASE names[L] # NoSeg /\ Become(c, [x EXCEPT !.headerVec = Append(@, names[L]),
                                         !.pc = IF L + 1 = x.avail THEN "assert" ELSE @])
      <3> DEFINE hv == Append(x.headerVec, names[L])
                 pc == IF L + 1 = x.avail THEN "assert" ELSE x.pc
                 r  == [x EXCEPT !.headerVec = hv, !.pc = pc]
      <3>1. Become(c, r)
        BY <2>1
      <3>2. pc \in {"assert", "map"}
        BY <2>0
      <3>3. L \in Buffers
        BY <1>0, <2>0, Constants DEF Buffers, PcOK
      <3>4. names[L] \in Segment
        BY <2>1, <3>3, NamedSegment DEF ManagerOK
      <3>5. /\ Len(hv) = L + 1 /\ hv[L + 1] = names[L]
            /\ \A i \in 1..L : hv[i] = x.headerVec[i]
        BY <1>0, <3>4, AppendSeg
      <3> HIDE DEF hv, pc
      <3>6. r.pc = pc /\ r.start = x.start /\ r.headerVec = hv /\ r.avail = x.avail
        BY <1>0 DEF CltState
      <3> HIDE DEF r
      <3>7. ASSUME x.start = mgr.start, Mapped(x)
            PROVE  /\ \A i \in 1..Len(hv) : hv[i] = <<mgr.start, i - 1>>
                   /\ Len(hv) <= segs[First(mgr)].numBuffers
                   /\ x.avail <= segs[First(mgr)].numBuffers
        <4>1. x.avail <= segs[First(mgr)].numBuffers /\ segs[First(mgr)].numBuffers \in Nat
          BY <2>0, <3>7 DEF Mapped
        <4>2. L \in Nat /\ L < segs[First(mgr)].numBuffers
          BY <1>0, <2>0, <4>1
        <4>3. names[L] = <<mgr.start, L>>
          BY <1>8, <2>1, <3>7, <4>2
        <4>4. ASSUME NEW i \in 1..Len(hv)
              PROVE  hv[i] = <<mgr.start, i - 1>>
          <5>1. CASE i \in 1..L
            BY <3>5, <3>7, <5>1 DEF Mapped
          <5>2. CASE i = L + 1
            <6>1. i - 1 = L
              BY <4>2, <5>2
            <6>. QED BY <3>5, <4>3, <5>2, <6>1
          <5>. QED BY <3>5, <4>2, <5>1, <5>2
        <4>. QED BY <3>5, <4>1, <4>2, <4>4
      <3>. QED BY <1>4, <2>0, <3>1, <3>2, <3>6, <3>7 DEF Closed
    <2>. QED BY <1>3, <1>13, <2>1 DEF Map
  <1>14. CASE MapAsserts(c)
    BY <1>2, <1>6, <1>14 DEF MapAsserts, Closed
  <1>15. CASE NumSlabs(c)
    <2> DEFINE ib == Tail(x.inbox)
               done == [x EXCEPT !.pc = "poll", !.inbox = ib, !.avail = 0]
               tm == Append(x.toMgr, Msg("NumSlabs", 0))
    <2>1. x.pc = "numSlabs"
      BY <1>15 DEF NumSlabs
    <2> HIDE DEF ib, tm
    <2>2. CASE Become(c, done)
      <3>1. done.pc = "poll" /\ done.start = x.start /\ done.headerVec = x.headerVec
        BY <1>0 DEF CltState
      <3> HIDE DEF done
      <3>. QED BY <1>5, <2>1, <2>2, <3>1 DEF Closed
    <2>3. CASE Become(c, [done EXCEPT !.toMgr = tm])
      <3> DEFINE r == [done EXCEPT !.toMgr = tm]
      <3>1. r.pc = "poll" /\ r.start = x.start /\ r.headerVec = x.headerVec
        BY <1>0 DEF CltState
      <3>2. Become(c, r)
        BY <2>3
      <3> HIDE DEF r
      <3>. QED BY <1>5, <2>1, <3>1, <3>2 DEF Closed
    <2>4. done.toMgr = x.toMgr
      BY <1>0 DEF CltState
    <2>. QED BY <1>3, <1>15, <2>2, <2>3, <2>4 DEF NumSlabs, ib, tm
  <1>16. CASE Poll(c)
    <2>1. x.pc = "poll"
      BY <1>16 DEF Poll
    <2>2. CASE FirstHeader(c)
      <3>1. CASE names[0] # NoSeg /\ Become(c, [x EXCEPT !.pc = "valid", !.hdr = names[0]])
        <4> DEFINE h == names[0]
                   r == [x EXCEPT !.pc = "valid", !.hdr = h]
        <4>1. Become(c, r) /\ h = names[0]
          BY <3>1
        <4> HIDE DEF h
        <4>2. r.pc = "valid" /\ r.start = x.start /\ r.headerVec = x.headerVec /\ r.hdr = h
          BY <1>0 DEF CltState
        <4> HIDE DEF r
        <4>3. ASSUME x.start = mgr.start, Mapped(x)
              PROVE  h = First(mgr)
          <5>1. 0 \in Nat /\ 0 < segs[First(mgr)].numBuffers
            BY <4>3 DEF Mapped
          <5>. QED BY <1>8, <3>1, <4>1, <4>3, <5>1 DEF First
        <4>. QED BY <1>4, <2>1, <4>1, <4>2, <4>3 DEF Closed, Mapped
      <3>. QED BY <1>3, <2>2, <3>1 DEF FirstHeader
    <2>3. ASSUME NEW r, Become(c, r), r.pc \in {"poll", "mapBuffers"}, r.start = x.start,
                 r.headerVec = x.headerVec
          PROVE  Goal
      BY <1>5, <2>1, <2>3 DEF Closed
    <2>4. CASE Become(c, [x EXCEPT !.pc = "mapBuffers", !.todo = 1])
      <3> DEFINE r == [x EXCEPT !.pc = "mapBuffers", !.todo = 1]
      <3>1. r.pc = "mapBuffers" /\ r.start = x.start /\ r.headerVec = x.headerVec
        BY <1>0 DEF CltState
      <3>2. Become(c, r)
        BY <2>4
      <3> HIDE DEF r
      <3>. QED BY <2>3, <3>1, <3>2
    <2>5. CASE Become(c, [x EXCEPT !.inbox = Tail(@), !.granted = TRUE])
      <3> DEFINE ib == Tail(x.inbox)
                 r  == [x EXCEPT !.inbox = ib, !.granted = TRUE]
      <3>1. Become(c, r)
        BY <2>5
      <3> HIDE DEF ib
      <3>2. r.pc = x.pc /\ r.start = x.start /\ r.headerVec = x.headerVec
        BY <1>0 DEF CltState
      <3> HIDE DEF r
      <3>. QED BY <2>1, <2>3, <3>1, <3>2
    <2>6. ASSUME NEW kind, NEW id, Become(c, Given(c, kind, id))
          PROVE  Goal
      <3> DEFINE ib == Tail(x.inbox)
                 is == x.ids \cup {[kind |-> kind, id |-> id]}
                 r  == [x EXCEPT !.inbox = ib, !.ids = is]
      <3>1. Become(c, r)
        BY <2>6 DEF Given
      <3> HIDE DEF ib, is
      <3>2. r.pc = x.pc /\ r.start = x.start /\ r.headerVec = x.headerVec
        BY <1>0 DEF CltState
      <3> HIDE DEF r
      <3>. QED BY <2>1, <2>3, <3>1, <3>2
    <2>. QED BY <1>3, <1>16, <2>2, <2>4, <2>5, <2>6 DEF Poll
  <1>17. CASE SendBlock(c)
    <2>1. PICK y \in x.ids :
            Become(c, [x EXCEPT !.toMgr = <<Msg("BlockIDs", (y.id + 1) * BlocksPerSlab - 1)>>,
                                !.ids = (x.ids \ {y}) \cup {[kind |-> "sent", id |-> y.id]}])
      BY <1>17 DEF SendBlock
    <2> DEFINE tm == <<Msg("BlockIDs", (y.id + 1) * BlocksPerSlab - 1)>>
               is == (x.ids \ {y}) \cup {[kind |-> "sent", id |-> y.id]}
               r  == [x EXCEPT !.toMgr = tm, !.ids = is]
    <2>2. Become(c, r) /\ x.pc = "poll"
      BY <1>17, <2>1 DEF SendBlock
    <2> HIDE DEF tm, is
    <2>3. r.pc = x.pc /\ r.start = x.start /\ r.headerVec = x.headerVec
      BY <1>0 DEF CltState
    <2> HIDE DEF r
    <2>. QED BY <1>5, <2>2, <2>3 DEF Closed
  <1>. QED
    BY <1>9, <1>10, <1>11, <1>12, <1>13, <1>14, <1>15, <1>16, <1>17 DEF Runs

\* A step of the manager changes the messages of a client, and nothing else.
SameMaps(x, y) ==
  /\ y.pc = x.pc /\ y.start = x.start /\ y.headerVec = x.headerVec
  /\ y.hdr = x.hdr /\ y.avail = x.avail

LEMMA SendsKeepMaps ==
  ASSUME ClientsOK, NEW c \in Clients, NEW cs, NEW msg
  PROVE  SendTo(cs, msg)[c] \in {clt[c], [clt[c] EXCEPT !.inbox = Append(clt[c].inbox, msg)]}
  BY DEF SendTo

LEMMA ManagerKeepsMaps ==
  ASSUME ManagerOK, ClientsOK, Manages \/ (\E d \in Clients : Readable(d)), NEW c \in Clients
  PROVE  SameMaps(clt[c], clt'[c])
  <1> DEFINE x == clt[c]
             Goal == SameMaps(x, clt'[c])
  <1>. SUFFICES Goal
    OBVIOUS
  <1>0. x \in CltState /\ DOMAIN clt = Clients
    BY DEF ClientsOK
  <1>1. ASSUME clt' = clt
        PROVE  Goal
    BY <1>1 DEF SameMaps
  <1> HIDE DEF Goal
  <1>3. ASSUME NEW cs, clt' = HangUp(cs)
        PROVE  Goal
    <2>1. clt'[c] = x \/ clt'[c] = [x EXCEPT !.toMgr = <<>>]
      BY <1>3 DEF HangUp
    <2>. QED BY <1>0, <2>1 DEF SameMaps, CltState, Goal
  <1>4. ASSUME NEW nms, NEW hv, Throw(nms, hv)
        PROVE  Goal
    BY <1>1, <1>3, <1>4 DEF Throw
  <1>5. CASE Start \/ WriteHeader \/ Publish
    BY <1>1, <1>5 DEF Start, WriteHeader, Publish
  <1>6. CASE OpenShm \/ Truncate
    BY <1>1, <1>4, <1>6 DEF OpenShm, Truncate, CreateFails
  <1>7. CASE Lock
    <2>1. PICK fails \in BOOLEAN :
            LET m == [mgr EXCEPT !.lockErrors = @ \/ fails]
            IN  IF NextBuffer < m.target
                THEN mgr' = [m EXCEPT !.pc = "open"] /\ UNCHANGED <<names, clt>>
                ELSE IF m.lockErrors /\ ~allowUnlockedMemory THEN Throw(names, m.headerVec)
                ELSE Announce(m)
      BY <1>7 DEF Lock
    <2>2. ASSUME NEW m, Announce(m)
          PROVE  Goal
      <3> DEFINE q == Append(x.inbox, Msg("ShmName", 0))
      <3>1. clt'[c] = x \/ clt'[c] = [x EXCEPT !.inbox = q]
        BY <2>2, SendsKeepMaps DEF Announce
      <3> HIDE DEF q
      <3>. QED BY <1>0, <3>1 DEF SameMaps, CltState, Goal
    <2>. QED BY <1>1, <1>4, <2>1, <2>2
  <1>8. CASE Stop \/ Killed
    BY <1>3, <1>8 DEF Stop, Killed
  <1>9. CASE Reserve
    <2> DEFINE d == mgr.for
    <2>1. \/ clt' = clt
          \/ \E q : clt' = [clt EXCEPT ![d].inbox = q]
          \/ \E q : clt' = [clt EXCEPT ![d].inbox = q, ![d].toMgr = <<>>]
      BY <1>9, Zenon DEF Reserve
    <2>2. ASSUME NEW q, clt' = [clt EXCEPT ![d].inbox = q]
          PROVE  Goal
      <3>1. clt'[c] = x \/ clt'[c] = [x EXCEPT !.inbox = q]
        BY <1>0, <2>2
      <3>. QED BY <1>0, <3>1 DEF SameMaps, CltState, Goal
    <2>3. ASSUME NEW q, clt' = [clt EXCEPT ![d].inbox = q, ![d].toMgr = <<>>]
          PROVE  Goal
      <3>1. clt'[c] = x \/ clt'[c] = [x EXCEPT !.inbox = q, !.toMgr = <<>>]
        BY <1>0, <2>3
      <3>. QED BY <1>0, <3>1 DEF SameMaps, CltState, Goal
    <2>. QED BY <1>1, <2>1, <2>2, <2>3
  <1>10. ASSUME NEW d \in Clients, Readable(d)
         PROVE  Goal
    <2>1. \/ clt' = clt
          \/ clt' = [clt EXCEPT ![d].toMgr = Tail(@)]
          \/ clt' = HangUp({d})
          \/ \E cs, msg : clt' = [SendTo(cs, msg) EXCEPT ![d].toMgr = Tail(@)]
      BY <1>10, Zenon DEF Readable
    <2>2. ASSUME clt' = [clt EXCEPT ![d].toMgr = Tail(@)]
          PROVE  Goal
      <3> DEFINE t == Tail(x.toMgr)
      <3>1. clt'[c] = x \/ clt'[c] = [x EXCEPT !.toMgr = t]
        BY <1>0, <2>2
      <3> HIDE DEF t
      <3>. QED BY <1>0, <3>1 DEF SameMaps, CltState, Goal
    <2>3. ASSUME NEW cs, NEW msg, clt' = [SendTo(cs, msg) EXCEPT ![d].toMgr = Tail(@)]
          PROVE  Goal
      <3> DEFINE y == SendTo(cs, msg)[c]
      <3>1. y \in {x, [x EXCEPT !.inbox = Append(x.inbox, msg)]}
        BY SendsKeepMaps
      <3>2. DOMAIN SendTo(cs, msg) = Clients
        BY DEF SendTo
      <3>3. clt'[c] \in {y, [y EXCEPT !.toMgr = Tail(y.toMgr)]}
        BY <2>3, <3>2
      <3> HIDE DEF y
      <3> DEFINE t == Tail(y.toMgr)
                 q == Append(x.inbox, msg)
      <3>4. clt'[c] \in {y, [y EXCEPT !.toMgr = t]} /\ y \in {x, [x EXCEPT !.inbox = q]}
        BY <3>1, <3>3
      <3> HIDE DEF t, q
      <3>5. SameMaps(x, y) /\ SameMaps(y, clt'[c])
        BY <1>0, <3>4 DEF SameMaps, CltState
      <3>. QED BY <3>5 DEF SameMaps, Goal
    <2>. QED BY <1>1, <1>3, <2>1, <2>2, <2>3
  <1>. QED
    BY <1>5, <1>6, <1>7, <1>8, <1>9, <1>10 DEF Manages

\* A step of the manager keeps MappedOK: the header counts no fewer buffers, and after a
\* start all clients are of an earlier one.
LEMMA GrownMapped ==
  ASSUME ManagerOK, NEW c \in Clients, NEW x, CltOK(params, mgr, segs, c, x),
         MappedOK(mgr, segs, x), NEW y, SameMaps(x, y), NEW m, NEW sg, Grown(sg),
         m.start = mgr.start \/ m.start > mgr.start
  PROVE  MappedOK(m, sg, y)
  <1>1. y.pc \in Closed => Len(y.headerVec) = 0
    BY DEF MappedOK, SameMaps
  <1>2. SUFFICES ASSUME x.pc \notin Closed, x.start = m.start
                 PROVE  /\ First(m) \in DOMAIN sg /\ sg[First(m)].numBuffers >= 1
                        /\ \A i \in 1..Len(x.headerVec) : x.headerVec[i] = <<m.start, i - 1>>
                        /\ Len(x.headerVec) <= sg[First(m)].numBuffers
                        /\ x.pc = "valid" => x.hdr = First(m)
                        /\ x.pc = "map" => x.avail <= sg[First(m)].numBuffers
    BY <1>1 DEF MappedOK, SameMaps
  <1>3. x.start \in Nat /\ x.start <= mgr.start /\ mgr.start \in Nat /\ x \in CltState
    BY MgrFacts DEF ManagerOK, CltOK, CltState, StartOK
  <1>4. m.start = mgr.start
    BY <1>2, <1>3
  <1>5. Mapped(x)
    BY <1>2, <1>4, MappedFacts
  <1>6. mgr.pc # "down" => Len(mgr.headerVec) > 0
    <2>1. mgr.pc # "down" => Serving(mgr)
      BY <1>2, <1>3, <1>4 DEF CltOK, StartOK
    <2>2. Len(mgr.headerVec) \in Nat
      BY MgrFacts DEF ManagerOK
    <2>. QED BY <2>1, <2>2 DEF ManagerOK, ServingOK
  <1>7. /\ First(mgr) \in DOMAIN sg /\ sg[First(mgr)].numBuffers \in Nat
        /\ sg[First(mgr)].numBuffers >= segs[First(mgr)].numBuffers
    BY <1>5, <1>6 DEF Grown, Mapped, First
  <1>8. Len(x.headerVec) \in Nat /\ x.avail \in Nat /\ segs[First(mgr)].numBuffers \in Nat
    BY <1>3, <1>5 DEF Mapped, CltState, SegList
  <1>9. First(m) = First(mgr)
    BY <1>4 DEF First
  <1>. QED BY <1>4, <1>5, <1>7, <1>8, <1>9 DEF Mapped

\* The clients and what they look into.
LooksOK == /\ Fresh(mgr, segs) /\ Complete(mgr, names, segs)
           /\ \A c \in Clients : MappedOK(mgr, segs, clt[c])

\* The starts are numbered.
LEMMA StartsGrow ==
  ASSUME ManagerOK, [Next]_vars
  PROVE  mgr'.start = mgr.start \/ mgr'.start > mgr.start
  <1>1. MgrOK(mgr) /\ mgr.start \in Nat
    BY MgrFacts DEF ManagerOK
  <1>2. CASE Start
    BY <1>1, <1>2 DEF Start, MgrOK, MgrState
  <1>3. CASE OpenShm \/ Truncate \/ WriteHeader \/ Publish
    BY <1>1, <1>3, EndedFields DEF OpenShm, Truncate, CreateFails, Throw, WriteHeader, Publish, MgrOK, MgrState
  <1>4. CASE Lock
    <2>1. PICK fails \in BOOLEAN :
            LET m == [mgr EXCEPT !.lockErrors = @ \/ fails]
            IN  IF NextBuffer < m.target
                THEN mgr' = [m EXCEPT !.pc = "open"] /\ UNCHANGED <<names, clt>>
                ELSE IF m.lockErrors /\ ~allowUnlockedMemory THEN Throw(names, m.headerVec)
                ELSE Announce(m)
      BY <1>4 DEF Lock
    <2> DEFINE m == [mgr EXCEPT !.lockErrors = @ \/ fails]
    <2>2. m \in MgrState /\ m.start = mgr.start
      BY <1>1, <2>1 DEF MgrOK, MgrState
    <2> HIDE DEF m
    <2>3. CASE mgr' = [m EXCEPT !.pc = "open"] \/ Announce(m)
      BY <2>2, <2>3 DEF Announce, MgrState
    <2>4. CASE Throw(names, m.headerVec)
      BY <1>1, <2>4, EndedFields DEF Throw, MgrOK, MgrState
    <2>. QED BY <2>1, <2>3, <2>4 DEF m
  <1>5. CASE Reserve
    BY <1>1, <1>5 DEF Reserve, MgrOK, MgrState
  <1>6. CASE Stop \/ Killed
    BY <1>1, <1>6, EndedFields DEF Stop, Killed
  <1>7. ASSUME NEW c \in Clients, Readable(c) \/ Accept(c)
        PROVE  mgr'.start = mgr.start
    BY <1>1, <1>7 DEF Readable, Accept, MgrOK, MgrState
  <1>8. ASSUME NEW c \in Clients, Runs(c)
        PROVE  mgr' = mgr
    BY <1>8, RunsBecome DEF Become
  <1>. QED BY <1>2, <1>3, <1>4, <1>5, <1>6, <1>7, <1>8 DEF Next, Manages, vars

\* Every step keeps LooksOK, and kills no client of the last start with SIGBUS.
LEMMA LooksStep ==
  ASSUME ManagerOK, ClientsOK, LooksOK, [Next]_vars, InitialBuffers
  PROVE  /\ LooksOK'
         /\ \A c \in Clients : clt[c].pc # "bus" /\ clt'[c].pc = "bus" => clt[c].start < mgr.start
  <1>1. ManagerOK' /\ Grown(segs')
    BY ManagerStep
  <1>2. Fresh(mgr', segs') /\ Complete(mgr', names', segs')
    BY <1>1, CompleteStep DEF LooksOK
  <1>3. mgr'.start = mgr.start \/ mgr'.start > mgr.start
    BY StartsGrow
  <1>4. SUFFICES ASSUME NEW c \in Clients
                 PROVE  /\ MappedOK(mgr', segs', clt'[c])
                        /\ clt[c].pc # "bus" /\ clt'[c].pc = "bus" => clt[c].start < mgr.start
    BY <1>2 DEF LooksOK
  <1>5. /\ CltOK(params, mgr, segs, c, clt[c]) /\ MappedOK(mgr, segs, clt[c])
        /\ clt[c] \in CltState /\ DOMAIN clt = Clients
    BY DEF ClientsOK, LooksOK
  <1>6. ASSUME SameMaps(clt[c], clt'[c])
        PROVE  /\ MappedOK(mgr', segs', clt'[c])
               /\ clt[c].pc # "bus" /\ clt'[c].pc = "bus" => clt[c].start < mgr.start
    <2>1. MappedOK(mgr', segs', clt'[c])
      BY <1>1, <1>3, <1>5, <1>6, GrownMapped
    <2>. QED BY <1>6, <2>1 DEF SameMaps
  <1>7. CASE Manages \/ (\E d \in Clients : Readable(d))
    BY <1>6, <1>7, ManagerKeepsMaps
  <1>8. ASSUME NEW d \in Clients, Runs(d)
        PROVE  /\ MappedOK(mgr', segs', clt'[c])
               /\ clt[c].pc # "bus" /\ clt'[c].pc = "bus" => clt[c].start < mgr.start
    <2>1. PICK r : Become(d, r)
      BY <1>8, RunsBecome
    <2>2. mgr' = mgr /\ segs' = segs
      BY <2>1 DEF Become
    <2>3. CASE d = c
      BY <1>5, <1>8, <2>2, <2>3, RunsMapped DEF LooksOK
    <2>4. CASE d # c
      <3>1. clt'[c] = clt[c]
        BY <1>5, <2>1, <2>4 DEF Become
      <3>. QED BY <1>6, <3>1 DEF SameMaps
    <2>. QED BY <2>3, <2>4
  <1>9. ASSUME NEW d \in Clients, Accept(d)
        PROVE  /\ MappedOK(mgr', segs', clt'[c])
               /\ clt[c].pc # "bus" /\ clt'[c].pc = "bus" => clt[c].start < mgr.start
    <2>1. /\ mgr.pc = "loop" /\ segs' = segs /\ clt[d].pc = "idle"
          /\ clt' = [clt EXCEPT ![d].pc = "poll", ![d].start = mgr.start,
                                ![d].inbox = <<Msg("ShmName", 0)>>]
      BY <1>9 DEF Accept
    <2>2. mgr'.start = mgr.start
      BY <1>9 DEF Accept, ManagerOK, MgrOK, MgrState
    <2>3. CASE d # c
      <3>1. clt'[c] = clt[c]
        BY <1>5, <2>1, <2>3
      <3>. QED BY <1>6, <3>1 DEF SameMaps
    <2>4. CASE d = c
      <3> DEFINE q == <<Msg("ShmName", 0)>>
                 r == [clt[c] EXCEPT !.pc = "poll", !.start = mgr.start, !.inbox = q]
      <3>1. clt'[c] = r
        BY <1>5, <2>1, <2>4
      <3> HIDE DEF q
      <3>2. r.pc = "poll" /\ r.headerVec = clt[c].headerVec
        BY <1>5 DEF CltState
      <3> HIDE DEF r
      <3>3. clt[c].headerVec = <<>>
        BY <1>5, <2>1, <2>4 DEF CltOK, PcOK
      <3>4. Len(mgr.headerVec) \in Nat /\ Len(mgr.headerVec) > 0
        BY <2>1, MgrFacts DEF ManagerOK, ServingOK, Serving
      <3>5. 1 \in 1..Len(mgr.headerVec) /\ 1 - 1 = 0
        BY <3>4
      <3>a. mgr.pc = "loop" /\ segs' = segs
        BY <2>1
      <3>6. First(mgr) \in DOMAIN segs /\ segs[First(mgr)].numBuffers = Len(mgr.headerVec)
        <4>1. First(mgr) \in DOMAIN segs
          BY <3>5 DEF ManagerOK, SegsOK, First
        <4>2. segs[First(mgr)].numBuffers = Len(mgr.headerVec)
          BY <3>4, <3>a DEF ManagerOK, SegsOK, First
        <4>. QED BY <4>1, <4>2
      <3>7. First(mgr') = First(mgr)
        BY <2>2 DEF First
      <3>8. Len(r.headerVec) = 0
        BY <3>2, <3>3, EmptyList
      <3>9. MappedOK(mgr', segs', r)
        BY <3>2, <3>4, <3>6, <3>7, <3>8, <3>a DEF MappedOK, Closed
      <3>. QED BY <3>1, <3>2, <3>9
    <2>. QED BY <2>3, <2>4
  <1>10. CASE UNCHANGED vars
    BY <1>6, <1>10 DEF SameMaps, vars
  <1>. QED BY <1>7, <1>8, <1>9, <1>10 DEF Next

\* The first state.
LEMMA InitLooks == Init /\ InitialBuffers => LooksOK
  <1> SUFFICES ASSUME Init, InitialBuffers
               PROVE  LooksOK
    OBVIOUS
  <1>1. mgr.start = 0 /\ mgr.pc = "down"
    BY DEF Init
  <1>2. PICK old \in StaleNames : segs = [s \in {<<-1, b>> : b \in old} |-> OldSeg]
    BY DEF Init
  <1>3. \A k, b : <<k, b>> \in DOMAIN segs => k = -1
    BY <1>2
  <1>4. Fresh(mgr, segs)
    BY <1>1, <1>3 DEF Fresh
  <1>5. First(mgr) \notin DOMAIN segs
    BY <1>1, <1>3 DEF First
  <1>6. \A c \in Clients : clt[c].pc = "idle" /\ clt[c].headerVec = <<>>
    BY DEF Init
  <1>7. \A c \in Clients : MappedOK(mgr, segs, clt[c])
    BY <1>6, EmptyList DEF MappedOK, Closed
  <1>. QED BY <1>4, <1>5, <1>7 DEF LooksOK, Complete

\* AccessesMapped follows from the invariant.
LEMMA AccessesFollow == ManagerOK /\ ClientsOK /\ LooksOK => AccessesMapped
  <1> SUFFICES ASSUME ManagerOK, ClientsOK, LooksOK
               PROVE  AccessesMapped
    OBVIOUS
  <1>1. SUFFICES ASSUME NEW c \in Clients
        PROVE
          /\ (clt[c].pc = "poll" /\ clt[c].inbox # <<>> /\ GivesIDs(Head(clt[c].inbox)))
               => \A blk \in BlocksOf(GivenBy(Head(clt[c].inbox))) :
                    BufferOf(blk) < Len(clt[c].headerVec)
          /\ clt[c].start = mgr.start =>
               /\ clt[c].hdr # NoSeg => segs[clt[c].hdr].sized /\ segs[clt[c].hdr].fields
               /\ \A s \in Range(clt[c].headerVec) : segs[s].sized /\ segs[s].fields
    BY DEF AccessesMapped
  <1> DEFINE x == clt[c]
  <1>2. /\ x \in CltState /\ CltOK(params, mgr, segs, c, x) /\ x.headerVec \in SegList
        /\ Len(x.headerVec) \in Nat /\ x.inbox \in Msgs /\ ParamsOK(params)
    BY DEF ClientsOK, CltState, SegList, ManagerOK
  <1>3. ASSUME x.pc = "poll", x.inbox # <<>>, GivesIDs(Head(x.inbox)),
               NEW blk \in BlocksOf(GivenBy(Head(x.inbox)))
        PROVE  BufferOf(blk) < Len(x.headerVec)
    <2>1. 1 \in 1..Len(x.inbox) /\ Head(x.inbox) = x.inbox[1] /\ 1..(1 - 1) = {}
      BY <1>2, <1>3 DEF Msgs
    <2>2. InboxOK(params, segs, x) /\ x.pc \notin Closed
      BY <1>2, <1>3 DEF CltOK, Closed
    <2>3. InBuffers(params, GivenBy(Head(x.inbox)), Len(x.headerVec))
      BY <1>3, <2>1, <2>2 DEF InboxOK
    <2>. QED BY <1>2, <1>3, <2>3, BlocksWithin
  <1>4. ASSUME x.start = mgr.start
        PROVE  /\ x.hdr # NoSeg => segs[x.hdr].sized /\ segs[x.hdr].fields
               /\ \A s \in Range(x.headerVec) : segs[s].sized /\ segs[s].fields
    <2>1. PcOK(x) /\ MappedOK(mgr, segs, x) /\ Complete(mgr, names, segs)
      BY <1>2 DEF CltOK, LooksOK
    <2>2. /\ x.hdr # NoSeg => segs[x.hdr].sized /\ segs[x.hdr].fields
          /\ \A i \in 1..Len(x.headerVec) : segs[x.headerVec[i]].sized /\ segs[x.headerVec[i]].fields
      BY <1>2, <1>4, <2>1, LooksComplete
    <2>3. \A s \in Range(x.headerVec) : \E i \in 1..Len(x.headerVec) : s = x.headerVec[i]
      BY <1>2 DEF Range, SegList
    <2>. QED BY <2>2, <2>3
  <1>. QED BY <1>3, <1>4

\* What a client looks into is there.  Whatever slab or block ID is at the head of its inbox
\* (HandleSlabIDs and HandleBlockIDs do not check it), it has mapped the buffer, also when
\* the manager that sent it was killed and another one started.  Until another one is
\* started, the header that ShmClient reads is complete and what it has mapped has its size,
\* though the manager adds buffers at any moment without a lock, and also after it was
\* killed.  (It says nothing of what the manager itself looks into; and that a client of an
\* earlier start looks into sized segments is not true: OnlyRestartsKill.)
THEOREM MemoryMapped ==
  ASSUME InitialBuffers
  PROVE  Spec => []AccessesMapped
  <1> DEFINE Inv == ManagerOK /\ ClientsOK /\ LooksOK
  <1>1. Init => Inv
    BY InitOK, InitLooks
  <1>2. Inv /\ [Next]_vars => Inv'
    BY InvStep, LooksStep
  <1>3. Inv => AccessesMapped
    BY AccessesFollow
  <1>. QED BY <1>1, <1>2, <1>3, PTL DEF Spec

\* A client that dies of SIGBUS was connected to a manager that has been followed by
\* another one: neither its own manager, growing without a lock, nor the end of that one
\* makes ShmClient look into a segment without its size.
THEOREM OnlyRestartsKill ==
  ASSUME InitialBuffers
  PROVE  Spec => OnlyRestartKills
  <1> DEFINE Inv == ManagerOK /\ ClientsOK /\ LooksOK
             Kills == \A c \in Clients :
                        clt[c].pc # "bus" /\ clt'[c].pc = "bus" => clt[c].start < mgr.start
  <1>1. Init => Inv
    BY InitOK, InitLooks
  <1>2. Inv /\ [Next]_vars => Inv'
    BY InvStep, LooksStep
  <1>3. Inv /\ [Next]_vars => [Kills]_vars
    BY LooksStep
  <1>. QED BY <1>1, <1>2, <1>3, PTL DEF Spec, OnlyRestartKills

-----------------------------------------------------------------------------
\* A buffer is addressed in 32 bits.
FitsWord(p) == /\ p.blockSize * p.numBlocks <= Word
               /\ RoundUp(InfoSize * p.numBlocks, pageSize) < Word
\* Hypothesis: the sizes the user gives make buffers that 32 bits address.  The sizes are
\* uint32_t in ManagerParams; ParamCheck does not check that rounding up keeps them below.
SizesFit == \A raw \in RawParams : FitsWord(ParamCheck(raw))

\* Rows of w bytes from o on.
LEMMA RowsApart ==
  ASSUME NEW o \in Nat, NEW w \in Nat, NEW i \in Nat, NEW j \in Nat, i < j
  PROVE  (o + i * w) + w <= o + j * w
  <1>1. (i + 1) * w <= j * w
    BY TimesMono
  <1>2. (i + 1) * w = i * w + w /\ i * w \in Nat /\ j * w \in Nat
    OBVIOUS
  <1>. QED BY <1>1, <1>2

\* The parts of a buffer, in order.
LEMMA Layout ==
  ASSUME ParamsOK(params), FitsWord(params)
  PROVE  LET h == ShmHeader(params)
             n == params.numBlocks
         IN  /\ h.infoOffset \in Nat /\ h.blockOffset \in Nat /\ h.blksSize \in Nat
             /\ h.bufSize = h.blockOffset + h.blksSize
             /\ HeaderSize <= h.infoOffset
             /\ h.infoOffset + n * InfoSize <= h.blockOffset
             /\ n * params.blockSize <= h.blksSize
             /\ h.blockOffset % pageSize = 0
  <1> DEFINE n    == params.numBlocks
             bs   == params.blockSize
             info == RoundUp(HeaderSize, pageSize)
             ip   == RoundUp(InfoSize * n, pageSize)
             blks == RoundUp(bs * n, pageSize)
             h    == ShmHeader(params)
  <1>1. /\ n \in Nat \ {0} /\ bs \in Nat \ {0} /\ pageSize \in Nat \ {0} /\ HeaderSize \in Nat
        /\ InfoSize \in Nat /\ Word \in Nat \ {0}
    BY ShmAssumption DEF ParamsOK
  <1>2. ip < Word
    BY DEF FitsWord
  <1>3. /\ h.infoOffset = info /\ h.blockOffset = info + (ip % Word) /\ h.blksSize = blks
        /\ h.bufSize = info + (ip % Word) + blks
    BY DEF ShmHeader, InfoPaddedSize
  <1> HIDE DEF n, bs
  <1>4. /\ info \in Nat /\ info >= HeaderSize /\ info = (info \div pageSize) * pageSize
        /\ info \div pageSize \in Nat
    BY <1>1, RoundUpOK
  <1>5. InfoSize * n \in Nat /\ bs * n \in Nat /\ InfoSize * n = n * InfoSize /\ bs * n = n * bs
    BY <1>1
  <1>6. /\ ip \in Nat /\ ip >= InfoSize * n /\ ip = (ip \div pageSize) * pageSize
        /\ ip \div pageSize \in Nat
    BY <1>1, <1>5, RoundUpOK
  <1>7. blks \in Nat /\ blks >= bs * n
    BY <1>1, <1>5, RoundUpOK
  <1> DEFINE k1 == info \div pageSize
             k2 == ip \div pageSize
  <1>8. k1 \in Nat /\ k2 \in Nat /\ info = k1 * pageSize /\ ip = k2 * pageSize
    BY <1>4, <1>6
  <1> HIDE DEF info, ip, blks, h
  <1>9. ip % Word = ip
    BY <1>1, <1>2, <1>6
  <1> HIDE DEF k1, k2
  <1>10. (info + ip) % pageSize = 0
    <2> DEFINE z == 0
               k == k1 + k2
    <2>1. z \in Nat /\ z < pageSize /\ k \in Nat
      BY <1>1, <1>8
    <2>2. info + ip = k * pageSize + z
      <3>1. (k1 + k2) * pageSize = k1 * pageSize + k2 * pageSize
        BY <1>1, <1>8
      <3>. QED BY <1>4, <1>6, <1>8, <3>1
    <2> HIDE DEF z, k
    <2>3. (k * pageSize + z) % pageSize = z
      BY <1>1, <2>1, DivUnique
    <2>. QED BY <2>2, <2>3 DEF z
  <1>11. h.blockOffset = info + ip /\ h.bufSize = h.blockOffset + h.blksSize
    BY <1>3, <1>4, <1>6, <1>7, <1>9
  <1> DEFINE ni == n * InfoSize
             nb == n * bs
  <1>12. ni \in Nat /\ nb \in Nat /\ ip >= ni /\ blks >= nb
    BY <1>5, <1>6, <1>7
  <1> HIDE DEF ni, nb
  <1>13. /\ h.infoOffset \in Nat /\ h.blockOffset \in Nat /\ h.blksSize \in Nat
         /\ HeaderSize <= h.infoOffset
         /\ h.infoOffset + ni <= h.blockOffset
         /\ nb <= h.blksSize
    BY <1>1, <1>3, <1>4, <1>6, <1>7, <1>11, <1>12
  <1>. QED BY <1>3, <1>10, <1>11, <1>13 DEF n, bs, h, ni, nb

\* The offset of a block in a client is not cut off.
LEMMA BlockFits ==
  ASSUME ParamsOK(params), FitsWord(params), NEW i \in Nat, i < params.numBlocks
  PROVE  (i * params.blockSize) % Word = i * params.blockSize
  <1> DEFINE n  == params.numBlocks
             bs == params.blockSize
  <1>1. n \in Nat \ {0} /\ bs \in Nat \ {0} /\ bs * n <= Word /\ Word \in Nat \ {0}
    BY ShmAssumption DEF ParamsOK, FitsWord
  <1> HIDE DEF n, bs
  <1>2. (i + 1) * bs <= n * bs
    BY <1>1, TimesMono DEF n
  <1>3. (i + 1) * bs = i * bs + bs /\ i * bs \in Nat /\ n * bs = bs * n /\ n * bs \in Nat
    BY <1>1
  <1> DEFINE ib == i * bs
  <1>4. ib \in Nat /\ ib < Word
    BY <1>1, <1>2, <1>3
  <1> HIDE DEF ib
  <1>5. ib % Word = ib
    BY <1>1, <1>4
  <1>. QED BY <1>5 DEF ib, bs

\* A span of bytes: where it starts, and its length.
Span  == Nat \X Nat
\* A list of spans.
Spans == Seq(Span)

\* Two lists of spans in one.
LEMMA ConcatSpans ==
  ASSUME NEW a \in Spans, NEW b \in Spans
  PROVE  /\ a \o b \in Spans /\ Len(a \o b) = Len(a) + Len(b) /\ Len(a) \in Nat /\ Len(b) \in Nat
         /\ DOMAIN (a \o b) = 1..(Len(a) + Len(b))
         /\ \A i \in 1..Len(a) : (a \o b)[i] = a[i]
         /\ \A i \in 1..Len(b) : (a \o b)[Len(a) + i] = b[i]
  BY DEF Spans

\* The spans that BytesApart compares: a header, then infos, then blocks.
LEMMA SpansOf ==
  ASSUME NEW a \in Span, NEW n \in Nat, NEW B \in [1..n -> Span], NEW C \in [1..n -> Span],
         NEW s, s = (<<a>> \o B) \o C, NEW i \in DOMAIN s
  PROVE  \/ i = 1 /\ s[i] = a
         \/ \E k \in 1..n : i = 1 + k /\ s[i] = B[k]
         \/ \E k \in 1..n : i = 1 + n + k /\ s[i] = C[k]
  <1> DEFINE A  == <<a>>
             AB == A \o B
  <1>1. A \in Spans /\ Len(A) = 1 /\ A[1] = a
    BY DEF Spans
  <1>2. B \in Spans /\ Len(B) = n /\ C \in Spans /\ Len(C) = n
    BY DEF Spans
  <1> HIDE DEF A
  <1>3. /\ AB \in Spans /\ Len(AB) = 1 + n
        /\ \A k \in 1..1 : AB[k] = A[k]
        /\ \A k \in 1..n : AB[1 + k] = B[k]
    <2>1. A \in Spans /\ B \in Spans
      BY <1>1, <1>2
    <2>2. /\ AB \in Spans /\ Len(AB) = Len(A) + Len(B)
          /\ \A k \in 1..Len(A) : AB[k] = A[k]
          /\ \A k \in 1..Len(B) : AB[Len(A) + k] = B[k]
      BY <2>1, ConcatSpans
    <2> HIDE DEF AB
    <2>. QED BY <1>1, <1>2, <2>2
  <1> HIDE DEF AB
  <1>4. s = AB \o C
    BY DEF AB, A
  <1>5. /\ DOMAIN s = 1..((1 + n) + n)
        /\ \A k \in 1..(1 + n) : s[k] = AB[k]
        /\ \A k \in 1..n : s[(1 + n) + k] = C[k]
    <2>1. AB \in Spans /\ C \in Spans
      BY <1>2, <1>3
    <2>2. /\ DOMAIN (AB \o C) = 1..(Len(AB) + Len(C))
          /\ \A k \in 1..Len(AB) : (AB \o C)[k] = AB[k]
          /\ \A k \in 1..Len(C) : (AB \o C)[Len(AB) + k] = C[k]
      BY <2>1, ConcatSpans
    <2>3. Len(AB) = 1 + n /\ Len(C) = n
      BY <1>2, <1>3
    <2>. QED BY <1>4, <2>2, <2>3
  <1>6. CASE i = 1
    BY <1>1, <1>3, <1>5, <1>6
  <1>7. CASE i \in 2..(1 + n)
    <2>1. i - 1 \in 1..n /\ i = 1 + (i - 1) /\ i \in 1..(1 + n)
      BY <1>7
    <2>. QED BY <1>3, <1>5, <2>1
  <1>8. CASE i \in (2 + n)..((1 + n) + n)
    <2>1. i - (1 + n) \in 1..n /\ i = (1 + n) + (i - (1 + n))
      BY <1>8
    <2>. QED BY <1>5, <2>1
  <1>. QED BY <1>5, <1>6, <1>7, <1>8

\* Header, infos and blocks share no byte and lie within the file (BytesApart).
LEMMA LayoutApart == ParamsOK(params) /\ FitsWord(params) => BytesApart
  <1> SUFFICES ASSUME ParamsOK(params), FitsWord(params)
               PROVE  BytesApart
    OBVIOUS
  <1> DEFINE h  == ShmHeader(params)
             n  == params.numBlocks
             bs == params.blockSize
             io == h.infoOffset
             bo == h.blockOffset
             sz == h.blksSize
             Block(i) == h.blockOffset + ((i * params.blockSize) % Word)
             a  == <<0, HeaderSize>>
             B  == [i \in 1..n |-> <<h.infoOffset + (i - 1) * InfoSize, InfoSize>>]
             C  == [i \in 1..n |-> <<Block(i - 1), params.blockSize>>]
             s  == (<<a>> \o B) \o C
  <1>1. /\ n \in Nat \ {0} /\ bs \in Nat \ {0} /\ HeaderSize \in Nat /\ InfoSize \in Nat
    BY ShmAssumption DEF ParamsOK
  <1>2. /\ io \in Nat /\ bo \in Nat /\ sz \in Nat /\ h.bufSize = bo + sz
        /\ HeaderSize <= io /\ io + n * InfoSize <= bo /\ n * bs <= sz
        /\ bo % pageSize = 0
    BY Layout
  <1>3. ASSUME NEW k \in 1..n
        PROVE  B[k] = <<io + (k - 1) * InfoSize, InfoSize>> /\ C[k] = <<bo + (k - 1) * bs, bs>>
    <2>1. k - 1 \in Nat /\ k - 1 < params.numBlocks
      BY <1>1
    <2>2. ((k - 1) * params.blockSize) % Word = (k - 1) * params.blockSize
      BY <2>1, BlockFits
    <2>. QED BY <2>2
  <1>4. BytesApart <=> /\ \A i, j \in DOMAIN s : i < j => \/ s[i][1] + s[i][2] <= s[j][1]
                                                         \/ s[j][1] + s[j][2] <= s[i][1]
                       /\ \A i \in DOMAIN s : s[i][1] + s[i][2] <= h.bufSize
                       /\ bo % pageSize = 0 /\ bo + sz = h.bufSize
    BY DEF BytesApart
  <1>5. DOMAIN B = 1..n /\ DOMAIN C = 1..n /\ B = [k \in 1..n |-> B[k]] /\ C = [k \in 1..n |-> C[k]]
    OBVIOUS
  <1>6. a \in Span /\ a[1] = 0 /\ a[2] = HeaderSize
    BY <1>1 DEF Span
  <1> HIDE DEF Block, a, B, C, h, n, bs, io, bo, sz
  <1>7. \A k \in 1..n : /\ (k - 1) * InfoSize \in Nat /\ (k - 1) * bs \in Nat
                       /\ n * InfoSize \in Nat /\ n * bs \in Nat
    BY <1>1
  <1>8. B \in [1..n -> Span] /\ C \in [1..n -> Span]
    <2>1. ASSUME NEW k \in 1..n
          PROVE  B[k] \in Span /\ C[k] \in Span
      <3> DEFINE ki == (k - 1) * InfoSize
                 kb == (k - 1) * bs
      <3>1. ki \in Nat /\ kb \in Nat
        BY <1>7
      <3>2. B[k] = <<io + ki, InfoSize>> /\ C[k] = <<bo + kb, bs>>
        BY <1>3
      <3> HIDE DEF ki, kb
      <3>3. io + ki \in Nat /\ bo + kb \in Nat
        BY <1>2, <3>1
      <3>. QED BY <1>1, <3>2, <3>3 DEF Span
    <2>. QED BY <1>5, <2>1
  <1>9. ASSUME NEW k \in 1..n
        PROVE  /\ B[k][1] \in Nat /\ B[k][1] >= io /\ B[k][1] + B[k][2] <= bo
               /\ C[k][1] \in Nat /\ C[k][1] >= bo /\ C[k][1] + C[k][2] <= bo + sz
    <2>1. k - 1 \in Nat /\ k - 1 < n /\ n \in Nat
      BY <1>1
    <2>2. (io + (k - 1) * InfoSize) + InfoSize <= io + n * InfoSize
      BY <1>1, <1>2, <2>1, RowsApart
    <2>3. (bo + (k - 1) * bs) + bs <= bo + n * bs
      BY <1>1, <1>2, <2>1, RowsApart
    <2>4. /\ B[k][1] = io + (k - 1) * InfoSize /\ B[k][2] = InfoSize
          /\ C[k][1] = bo + (k - 1) * bs /\ C[k][2] = bs
      BY <1>3
    <2>. QED BY <1>1, <1>2, <1>7, <2>2, <2>3, <2>4
  <1>10. ASSUME NEW k \in 1..n, NEW l \in 1..n, k < l
         PROVE  B[k][1] + B[k][2] <= B[l][1] /\ C[k][1] + C[k][2] <= C[l][1]
    <2>1. k - 1 \in Nat /\ l - 1 \in Nat /\ k - 1 < l - 1
      BY <1>1, <1>10
    <2>2. (io + (k - 1) * InfoSize) + InfoSize <= io + (l - 1) * InfoSize
      BY <1>1, <1>2, <2>1, RowsApart
    <2>3. (bo + (k - 1) * bs) + bs <= bo + (l - 1) * bs
      BY <1>1, <1>2, <2>1, RowsApart
    <2>. QED BY <1>3, <2>2, <2>3
  <1>11. \A i \in DOMAIN s : \/ i = 1 /\ s[i] = a
                             \/ \E k \in 1..n : i = 1 + k /\ s[i] = B[k]
                             \/ \E k \in 1..n : i = 1 + n + k /\ s[i] = C[k]
    BY <1>1, <1>6, <1>8, SpansOf
  <1>a. \A k \in 1..n : B[k][2] \in Nat /\ C[k][2] \in Nat
    BY <1>1, <1>3
  <1> HIDE DEF s
  <1>12. ASSUME NEW i \in DOMAIN s
         PROVE  s[i][1] + s[i][2] <= bo + sz
    <2>1. CASE s[i] = a
      BY <1>1, <1>2, <1>6, <1>7, <2>1
    <2>2. ASSUME NEW k \in 1..n, s[i] = B[k]
          PROVE  s[i][1] + s[i][2] <= bo + sz
      BY <1>2, <1>9, <1>a, <2>2
    <2>3. ASSUME NEW k \in 1..n, s[i] = C[k]
          PROVE  s[i][1] + s[i][2] <= bo + sz
      BY <1>2, <1>9, <1>a, <2>3
    <2>. QED BY <1>11, <2>1, <2>2, <2>3
  <1>13. ASSUME NEW i \in DOMAIN s, NEW j \in DOMAIN s, i < j
         PROVE  s[i][1] + s[i][2] <= s[j][1]
    <2>1. CASE i = 1 /\ s[i] = a
      <3>1. j # 1
        BY <1>13, <2>1
      <3>2. s[j][1] \in Nat /\ s[j][1] >= io
        BY <1>2, <1>7, <1>9, <1>11, <3>1
      <3>. QED BY <1>1, <1>2, <1>6, <2>1, <3>2
    <2>2. ASSUME NEW k \in 1..n, i = 1 + k, s[i] = B[k]
          PROVE  s[i][1] + s[i][2] <= s[j][1]
      <3>1. ASSUME NEW l \in 1..n, j = 1 + l, s[j] = B[l]
            PROVE  s[i][1] + s[i][2] <= s[j][1]
        <4>1. k < l
          BY <1>1, <1>13, <2>2, <3>1
        <4>. QED BY <1>10, <2>2, <3>1, <4>1
      <3>2. ASSUME NEW l \in 1..n, s[j] = C[l]
            PROVE  s[i][1] + s[i][2] <= s[j][1]
        BY <1>2, <1>9, <1>a, <2>2, <3>2
      <3>3. j # 1
        BY <1>1, <1>13, <2>2
      <3>. QED BY <1>11, <3>1, <3>2, <3>3
    <2>3. ASSUME NEW k \in 1..n, i = 1 + n + k, s[i] = C[k]
          PROVE  s[i][1] + s[i][2] <= s[j][1]
      <3>1. PICK l \in 1..n : j = 1 + n + l /\ s[j] = C[l]
        BY <1>1, <1>11, <1>13, <2>3
      <3>2. k < l
        BY <1>1, <1>13, <2>3, <3>1
      <3>. QED BY <1>10, <2>3, <3>1, <3>2
    <2>. QED BY <1>11, <2>1, <2>2, <2>3
  <1>. QED BY <1>2, <1>4, <1>12, <1>13

\* A slab does not reach into the next buffer: its blocks follow each other.
LEMMA InOnePiece ==
  ASSUME ParamsOK(params), NEW y, y.id \in Nat, NEW blk \in BlocksOf(y)
  PROVE  /\ FirstBlock(y) \in Nat /\ blk \in Nat /\ BufferOf(blk) = BufferOf(FirstBlock(y))
         /\ RemOf(blk) = RemOf(FirstBlock(y)) + (blk - FirstBlock(y))
         /\ RemOf(blk) \in Nat /\ RemOf(blk) < params.numBlocks
         /\ RemOf(FirstBlock(y)) \in Nat /\ RemOf(FirstBlock(y)) < params.numBlocks
  <1> DEFINE n == params.numBlocks
             b == params.slabSize \div params.blockSize
             m == params.slabsPerBuffer
             f == FirstBlock(y)
  <1>1. n \in Nat \ {0} /\ b \in Nat \ {0} /\ m \in Nat \ {0} /\ n = b * m
    BY DEF ParamsOK
  <1>2. \A a \in Nat : RemOf(a) \in Nat /\ RemOf(a) < n
    BY <1>1, DivMod DEF RemOf
  <1>3. CASE y.kind = "block"
    <2>1. f = y.id /\ blk \in y.id..(y.id + 1 - 1)
      BY <1>3 DEF BlocksOf, FirstBlock, NumBlocks
    <2>2. f \in Nat /\ blk = f
      BY <2>1
    <2> HIDE DEF f
    <2>3. blk - f = 0 /\ RemOf(f) \in Nat /\ RemOf(f) < n
      BY <1>2, <2>2
    <2>4. RemOf(blk) = RemOf(f)
      BY <2>2
    <2>. QED BY <1>2, <2>2, <2>3, <2>4 DEF f
  <1>4. CASE y.kind # "block"
    <2> DEFINE q == y.id \div m
               r == y.id % m
               j == blk - f
               o == r * b
    <2>1. f = y.id * b /\ blk \in f..(f + b - 1)
      BY <1>4 DEF BlocksOf, FirstBlock, NumBlocks, BlocksPerSlab
    <2>2. q \in Nat /\ r \in Nat /\ r < m /\ y.id = q * m + r
      <3> HIDE DEF m
      <3>. QED BY <1>1, DivMod
    <2> HIDE DEF n, b, m, f, q, r
    <2>3. f \in Nat
      BY <1>1, <2>1
    <2>4. j \in Nat /\ j < b /\ blk = f + j
      BY <1>1, <2>1, <2>3
    <2>5. o \in Nat /\ o + b <= n
      <3>1. (r + 1) * b <= m * b
        <4>1. r + 1 \in Nat /\ r + 1 <= m /\ b \in Nat /\ m \in Nat
          BY <1>1, <2>2
        <4>. QED BY <4>1, TimesMono
      <3>2. (r + 1) * b = r * b + b /\ r * b \in Nat /\ m * b = b * m
        BY <1>1, <2>2
      <3>. QED BY <1>1, <3>1, <3>2
    <2>6. f = q * n + o
      <3>1. (q * m + r) * b = q * (b * m) + r * b
        BY <1>1, <2>2
      <3>. QED BY <1>1, <2>1, <2>2, <3>1
    <2> HIDE DEF j, o
    <2>7. o < n /\ o + j \in Nat /\ o + j < n /\ q * n \in Nat
      BY <1>1, <2>2, <2>4, <2>5
    <2>8. blk = q * n + (o + j)
      BY <2>4, <2>5, <2>6, <2>7
    <2>9. f \div n = q /\ f % n = o
      BY <1>1, <2>2, <2>5, <2>6, <2>7, DivUnique
    <2> DEFINE oj == o + j
    <2>10. oj \in Nat /\ oj < n /\ blk = q * n + oj
      BY <2>7, <2>8
    <2> HIDE DEF oj
    <2>11. blk \div n = q /\ blk % n = oj
      BY <1>1, <2>2, <2>10, DivUnique
    <2>12. BufferOf(blk) = q /\ BufferOf(f) = q /\ RemOf(blk) = o + j /\ RemOf(f) = o
      BY <2>9, <2>11 DEF BufferOf, RemOf, n, oj
    <2>13. blk \in Nat
      BY <2>3, <2>4
    <2>. QED BY <2>3, <2>5, <2>7, <2>12, <2>13 DEF f, j, n
  <1>. QED BY <1>3, <1>4

\* SameBytes follows from the invariant.
LEMMA SameFollow == ManagerOK /\ ClientsOK /\ FitsWord(params) => SameBytes
  <1> SUFFICES ASSUME ManagerOK, ClientsOK, FitsWord(params)
               PROVE  SameBytes
    OBVIOUS
  <1>0. BytesApart /\ ParamsOK(params)
    BY LayoutApart DEF ManagerOK
  <1>1. SUFFICES ASSUME NEW c \in Clients, Live(c), NEW y \in clt[c].ids, NEW blk \in BlocksOf(y)
                 PROVE  /\ GetBlockPtr(c, blk) = MapperBlock(blk)
                        /\ GetBlockInfo(c, blk) = MapperInfo(blk)
                        /\ MapperBlock(blk) = [GetWriteableBlockPtr(c, FirstBlock(y)) EXCEPT
                             !.off = @ + (blk - FirstBlock(y)) * params.blockSize]
    BY <1>0 DEF SameBytes
  <1> DEFINE x == clt[c]
             f == FirstBlock(y)
             B == BufferOf(blk)
             L == Len(x.headerVec)
             M == Len(mgr.headerVec)
  <1>2. /\ x \in CltState /\ IsLive(mgr, c, x) /\ LiveOK(params, mgr, segs, c, x)
        /\ L \in Nat /\ y \in x.ids
    BY <1>1 DEF ClientsOK, CltOK, CltState, SegList, Live, IsLive
  <1>3. InBuffers(params, y, L) /\ y.id \in Nat
    BY <1>2 DEF LiveOK, InBuffers
  <1>4. B \in Nat /\ B < L
    BY <1>0, <1>1, <1>2, <1>3, BlocksWithin
  <1>5. L <= M /\ M \in Nat
    <2>1. L <= segs[<<mgr.start, 0>>].numBuffers
      BY <1>2 DEF LiveOK
    <2>2. /\ segs[<<mgr.start, 0>>].numBuffers \in Nat
          /\ segs[<<mgr.start, 0>>].numBuffers <= M
      BY <1>2, LiveManager
    <2>3. M \in Nat
      BY MgrFacts DEF ManagerOK
    <2> HIDE DEF L, M
    <2>. QED BY <1>2, <2>1, <2>2, <2>3
  <1>6. /\ f \in Nat /\ blk \in Nat /\ B = BufferOf(f) /\ RemOf(blk) = RemOf(f) + (blk - f)
        /\ RemOf(blk) \in Nat /\ RemOf(blk) < params.numBlocks
        /\ RemOf(f) \in Nat /\ RemOf(f) < params.numBlocks
    BY <1>0, <1>1, <1>3, InOnePiece
  <1> HIDE DEF f, B, L, M
  <1>7. x.headerVec[B + 1] = mgr.headerVec[B + 1]
    <2>1. B + 1 \in 1..L /\ B + 1 \in 1..M
      BY <1>2, <1>4, <1>5
    <2>. QED BY <1>2, <2>1 DEF LiveOK, ManagerOK, SegsOK, L, M
  <1> DEFINE bs == params.blockSize
  <1>8. /\ (RemOf(blk) * bs) % Word = RemOf(blk) * bs
        /\ (RemOf(f) * bs) % Word = RemOf(f) * bs
    BY <1>0, <1>6, BlockFits
  <1> DEFINE o  == ShmHeader(params).blockOffset
             rb == RemOf(blk)
             rf == RemOf(f)
             sg == mgr.headerVec[B + 1]
  <1>9. o \in Nat /\ bs \in Nat
    BY <1>0, Layout DEF ParamsOK
  <1>10. /\ MapperBlock(blk) = [seg |-> sg, off |-> o + rb * bs]
         /\ GetBlockPtr(c, blk) = [seg |-> sg, off |-> o + ((rb * bs) % Word)]
         /\ GetBlockInfo(c, blk) = MapperInfo(blk)
         /\ GetWriteableBlockPtr(c, f) = [seg |-> sg, off |-> o + ((rf * bs) % Word)]
    BY <1>6, <1>7 DEF MapperBlock, GetBlockPtr, GetBlockInfo, MapperInfo, GetWriteableBlockPtr, B
  <1>11. rb \in Nat /\ rf \in Nat /\ rb = rf + (blk - f) /\ blk - f \in Int
    BY <1>6
  <1> HIDE DEF bs, o, rb, rf, sg
  <1>12. o + rb * bs = (o + rf * bs) + (blk - f) * bs
    <2> DEFINE j == blk - f
    <2>1. j \in Int /\ rb = rf + j
      BY <1>11
    <2> HIDE DEF j
    <2>2. (rf + j) * bs = rf * bs + j * bs /\ rf * bs \in Int /\ j * bs \in Int
      BY <1>9, <1>11, <2>1
    <2>3. o + rb * bs = (o + rf * bs) + j * bs
      BY <1>9, <2>1, <2>2
    <2>. QED BY <2>3 DEF j
  <1>13. (rb * bs) % Word = rb * bs /\ (rf * bs) % Word = rf * bs
    BY <1>8 DEF rb, rf
  <1>14. GetBlockPtr(c, blk) = MapperBlock(blk)
    BY <1>10, <1>13
  <1>15. MapperBlock(blk) = [GetWriteableBlockPtr(c, f) EXCEPT !.off = @ + (blk - f) * bs]
    <2> DEFINE o1 == o + rf * bs
               j  == (blk - f) * bs
    <2>1. GetWriteableBlockPtr(c, f) = [seg |-> sg, off |-> o1]
      BY <1>10, <1>13
    <2>2. MapperBlock(blk) = [seg |-> sg, off |-> o1 + j]
      BY <1>10, <1>12
    <2> HIDE DEF o1, j
    <2>3. [[seg |-> sg, off |-> o1] EXCEPT !.off = @ + j] = [seg |-> sg, off |-> o1 + j]
      OBVIOUS
    <2>. QED BY <2>1, <2>2, <2>3 DEF j
  <1>. QED BY <1>10, <1>14, <1>15 DEF f, bs

\* What ShmMapper and ShmClient compute from a slab or block ID are the same bytes of the
\* same segment, through both mappings of the client, a slab in one piece, and no two IDs
\* share a byte: for every page size, every sizes of block, slab and buffer that the user
\* gives, and every number of buffers added at run time.
THEOREM BytesAgree ==
  ASSUME InitialBuffers, SizesFit
  PROVE  Spec => []SameBytes
  <1> DEFINE Inv == ManagerOK /\ ClientsOK /\ FitsWord(params)
  <1>1. Init => Inv
    <2>1. Init => FitsWord(params)
      BY DEF Init, SizesFit
    <2>. QED BY <2>1, InitOK
  <1>2. Inv /\ [Next]_vars => Inv'
    <2>1. Inv /\ [Next]_vars => params' = params
      BY ManagerStep
    <2>2. FitsWord(params) /\ params' = params => FitsWord(params')
      OBVIOUS
    <2>3. Inv /\ [Next]_vars => ManagerOK' /\ ClientsOK'
      BY InvStep
    <2>. QED BY <2>1, <2>2, <2>3
  <1>3. Inv => SameBytes
    BY SameFollow
  <1>. QED BY <1>1, <1>2, <1>3, PTL DEF Spec
===============================================================================
