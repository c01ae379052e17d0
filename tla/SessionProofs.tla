---------------------------- MODULE SessionProofs ----------------------------
(***************************************************************************)
(* Proofs about Session: groups, client IDs and registrations.             *)
(*                                                                         *)
(* One inductive invariant, SessionInv, has three parts.  The manager's    *)
(* side: the proxies are exactly the sockets that it has accepted and not  *)
(* closed, their IDs differ, and the groups' counts are right.  Each       *)
(* client's side: a client that is not idle owns its socket.  And their    *)
(* agreement: unless a send has failed or the manager has closed the       *)
(* socket, what the proxy has registered and the messages under way come   *)
(* to what the client has registered - to no more than that while it still *)
(* waits in Connect.  The manager's steps keep what the messages come to   *)
(* (SockKeeps), so a client need not know of them; the client's steps      *)
(* change its own socket only, so the others need not know of them.        *)
(***************************************************************************)
EXTENDS Session, CommonFacts

\* Records, functions and sequences, whatever is in them
IsRec(r, F) == r = [f \in F |-> r[f]]
IsFun(f)    == f = [x \in DOMAIN f |-> f[x]]
IsSeq(q)    == \E T : q \in Seq(T)

\* the fields of Session's records, and the messages that clients send
SockFields  == {"toMgr", "toClt", "cltOpen", "mgrEnd"}
ProxyFields == {"clientID", "groupID", "registered", "wantRegistrations", "sendFailed"}
MgrFields   == {"up", "nextNewClientID", "nextNewGroupID", "groups"}
CltFields   == {"phase", "sock", "sendFailed", "clientID", "groupID", "numSlabs", "registered",
                "groupStr", "handler", "view"}
PairFields  == {"socks", "proxies"}
\* the phases without a socket
Away        == {"idle", "crashed"}
USE DEF Away
ToMgrTypes  == {"Register", "Deregister", "GroupStr", "Wanted", "NumSlabs"}

\* sockets
SockOK(s) == /\ IsRec(s, SockFields) /\ IsSeq(s.toMgr) /\ s.cltOpen \in BOOLEAN
             /\ \A i \in DOMAIN s.toMgr : s.toMgr[i].type \in ToMgrTypes
SocksOK(s) == IsFun(s) /\ DOMAIN s = SockIDs /\ \A k \in SockIDs : SockOK(s[k])

\* proxies
ProxyOK(p) == IsRec(p, ProxyFields) /\ p.groupID \in Int /\ p.clientID \in 0..kMaxClientID
ProxiesOK(p) == /\ IsFun(p) /\ DOMAIN p \subseteq SockIDs /\ IsFiniteSet(DOMAIN p)
                /\ \A k \in DOMAIN p : ProxyOK(p[k])

\* groups, and the rest of the manager
Group == [gid : Nat \ {0}, count : Nat]
GroupsOK(g) == IsFun(g) /\ IsFiniteSet(DOMAIN g) /\ \A str \in DOMAIN g : g[str] \in Group
MgrOK(m) == /\ IsRec(m, MgrFields) /\ m.nextNewClientID \in Nat
            /\ m.nextNewGroupID \in Nat \ {0} /\ GroupsOK(m.groups)

\* what the handlers work on
PairOK(m) == IsRec(m, PairFields) /\ SocksOK(m.socks) /\ ProxiesOK(m.proxies)

\* GroupsCounted, of groups g and proxies p
Members(p, gid) == {k \in DOMAIN p : p[k].groupID = gid}
Counted(g, p) ==
  /\ \A str \in DOMAIN g : g[str].count > 0 /\ g[str].count = Cardinality(Members(p, g[str].gid))
  /\ \A k \in DOMAIN p : p[k].groupID > 0 => p[k].groupID \in GroupIDs(g)
  /\ \A s, t \in DOMAIN g : g[s].gid = g[t].gid => s = t

\* a socket, and a proxy, after sends to a client
SockSent(s, t)  == SockOK(t) /\ t.toMgr = s.toMgr /\ t.cltOpen = s.cltOpen
EndSent(m, n, k) == \/ n.socks[k].mgrEnd = m.socks[k].mgrEnd
                    \/ n.socks[k].mgrEnd = "shut" /\ k \in DOMAIN m.proxies
ProxySent(p, r) == /\ ProxyOK(r) /\ r.clientID = p.clientID
                   /\ r.groupID = p.groupID /\ r.registered = p.registered

\* n is m after sends
Sends(m, n) ==
  /\ PairOK(n) /\ DOMAIN n.proxies = DOMAIN m.proxies
  /\ \A k \in SockIDs : SockSent(m.socks[k], n.socks[k]) /\ EndSent(m, n, k)
  /\ \A k \in DOMAIN m.proxies : ProxySent(m.proxies[k], n.proxies[k])

\* what the assumption says of each constant
LEMMA Constants ==
  /\ kMaxClientID \in Nat /\ kMaxGroupID \in Nat /\ MaxCalls \in Nat
  /\ maxNumClients \in Nat \ {0} /\ SockCap \in Nat \ {0}
  /\ maxNumClients <= kMaxClientID + 1 /\ None \notin Groups
  BY SessionAssumption

\* a socket of which only what goes to the client changes
LEMMA SockAppends ==
  ASSUME NEW s, SockOK(s), NEW q, NEW t, t = [s EXCEPT !.toClt = q]
  PROVE  SockSent(s, t) /\ t.mgrEnd = s.mgrEnd
  <1>1. IsRec(t, SockFields) /\ t.toMgr = s.toMgr /\ t.cltOpen = s.cltOpen /\ t.mgrEnd = s.mgrEnd
    BY DEF SockOK, IsRec, SockFields
  <1>. QED BY <1>1 DEF SockOK, SockSent

\* A socket of which only the manager's end changes.
LEMMA SockShuts ==
  ASSUME NEW s, SockOK(s), NEW e, NEW t, t = [s EXCEPT !.mgrEnd = e]
  PROVE  SockSent(s, t) /\ t.mgrEnd = e
  <1>1. IsRec(t, SockFields) /\ t.toMgr = s.toMgr /\ t.cltOpen = s.cltOpen /\ t.mgrEnd = e
    BY DEF SockOK, IsRec, SockFields
  <1>. QED BY <1>1 DEF SockOK, SockSent

\* A proxy of which only sendFailed changes.
LEMMA ProxySends ==
  ASSUME NEW p, ProxyOK(p), NEW b, NEW r, r = [p EXCEPT !.sendFailed = b]
  PROVE  ProxySent(p, r)
  <1>1. /\ IsRec(r, ProxyFields) /\ r.clientID = p.clientID
        /\ r.groupID = p.groupID /\ r.registered = p.registered
    BY DEF ProxyOK, IsRec, ProxyFields
  <1>. QED BY <1>1 DEF ProxyOK, ProxySent

\* Sends, socket by socket and proxy by proxy
LEMMA SendsFrom ==
  ASSUME NEW m, PairOK(m), NEW n, IsRec(n, PairFields),
         IsFun(n.socks), DOMAIN n.socks = SockIDs, IsFun(n.proxies),
         DOMAIN n.proxies = DOMAIN m.proxies,
         \A k \in SockIDs : SockSent(m.socks[k], n.socks[k]) /\ EndSent(m, n, k),
         \A k \in DOMAIN m.proxies : ProxySent(m.proxies[k], n.proxies[k])
  PROVE  Sends(m, n)
  <1>1. SocksOK(n.socks)
    BY DEF SocksOK, SockSent
  <1>2. ProxiesOK(n.proxies)
    BY DEF ProxiesOK, PairOK, ProxySent
  <1>. QED BY <1>1, <1>2 DEF Sends, PairOK

\* Nothing sent is a case of Sends.
LEMMA SendsNothing ==
  ASSUME NEW m, PairOK(m)
  PROVE  Sends(m, m)
  BY DEF Sends, PairOK, SocksOK, ProxiesOK, SockSent, EndSent, ProxySent

\* One send of a proxy through a socket that the manager serves.
LEMMA SendByOK ==
  ASSUME NEW m, PairOK(m), NEW by \in DOMAIN m.proxies, NEW k \in DOMAIN m.proxies, NEW msg
  PROVE  Sends(m, SendBy(m, by, k, msg))
  <1> DEFINE s == m.socks[k]
             n == SendBy(m, by, k, msg)
             app == [m EXCEPT !.socks[k].toClt = Append(@, msg)]
             e   == IF s.cltOpen THEN "shut" ELSE s.mgrEnd
             fail == [m EXCEPT !.proxies[by].sendFailed = TRUE,
                               !.socks[k].mgrEnd = IF s.cltOpen THEN "shut" ELSE @]
  <1>0. k \in SockIDs /\ SocksOK(m.socks) /\ ProxiesOK(m.proxies) /\ IsRec(m, PairFields)
    BY DEF PairOK, ProxiesOK
  <1>1. \/ n = m
        \/ n = app
        \/ n = fail
    BY DEF SendBy
  <1>2. \A j \in SockIDs : SockOK(m.socks[j])
    BY <1>0 DEF SocksOK
  <1>3. \A j \in DOMAIN m.proxies : ProxyOK(m.proxies[j])
    BY <1>0 DEF ProxiesOK
  <1>4. Sends(m, m)
    BY SendsNothing
  <1>5. Sends(m, app)
    <2> DEFINE q == Append(s.toClt, msg)
    <2>1. /\ IsRec(app, PairFields) /\ app.proxies = m.proxies
          /\ app.socks = [m.socks EXCEPT ![k] = [s EXCEPT !.toClt = q]]
      BY <1>0 DEF IsRec, PairFields, SocksOK, IsFun
    <2> HIDE DEF app, q
    <2>2. /\ IsFun(app.socks) /\ DOMAIN app.socks = SockIDs
          /\ app.socks[k] = [m.socks[k] EXCEPT !.toClt = q]
          /\ \A j \in SockIDs : j # k => app.socks[j] = m.socks[j]
      BY <1>0, <2>1 DEF SocksOK, IsFun
    <2>3. \A j \in SockIDs : SockSent(m.socks[j], app.socks[j]) /\ EndSent(m, app, j)
      <3>1. SockSent(m.socks[k], app.socks[k]) /\ app.socks[k].mgrEnd = m.socks[k].mgrEnd
        <4> DEFINE t == app.socks[k]
        <4>1. SockOK(s) /\ t = [s EXCEPT !.toClt = q]
          BY <1>0, <1>2, <2>2
        <4> HIDE DEF s, t
        <4>2. SockSent(s, t) /\ t.mgrEnd = s.mgrEnd
          BY <4>1, SockAppends
        <4>. QED BY <4>2 DEF s, t
      <3>. QED BY <1>2, <2>2, <3>1 DEF SockSent, EndSent
    <2>4. \A j \in DOMAIN m.proxies : ProxySent(m.proxies[j], app.proxies[j])
      BY <1>3, <2>1 DEF ProxySent
    <2>5. IsFun(app.proxies) /\ DOMAIN app.proxies = DOMAIN m.proxies
      BY <1>0, <2>1 DEF ProxiesOK
    <2>. QED BY <2>1, <2>2, <2>3, <2>4, <2>5, SendsFrom
  <1>6. Sends(m, fail)
    <2>1. /\ IsRec(fail, PairFields)
          /\ fail.proxies = [m.proxies EXCEPT ![by] = [m.proxies[by] EXCEPT !.sendFailed = TRUE]]
          /\ fail.socks = [m.socks EXCEPT ![k] = [s EXCEPT !.mgrEnd = e]]
      BY <1>0 DEF IsRec, PairFields, SocksOK, ProxiesOK, IsFun
    <2> HIDE DEF fail
    <2>2. /\ IsFun(fail.socks) /\ DOMAIN fail.socks = SockIDs
          /\ fail.socks[k] = [m.socks[k] EXCEPT !.mgrEnd = e]
          /\ \A j \in SockIDs : j # k => fail.socks[j] = m.socks[j]
      BY <1>0, <2>1 DEF SocksOK, IsFun
    <2>3. e = m.socks[k].mgrEnd \/ e = "shut"
      OBVIOUS
    <2> HIDE DEF e
    <2>4. \A j \in SockIDs : SockSent(m.socks[j], fail.socks[j]) /\ EndSent(m, fail, j)
      <3>1. SockSent(m.socks[k], fail.socks[k]) /\ fail.socks[k].mgrEnd = e
        <4> DEFINE t == fail.socks[k]
        <4>1. SockOK(s) /\ t = [s EXCEPT !.mgrEnd = e]
          BY <1>0, <1>2, <2>2
        <4> HIDE DEF s, t
        <4>2. SockSent(s, t) /\ t.mgrEnd = e
          BY <4>1, SockShuts
        <4>. QED BY <4>2 DEF s, t
      <3>. QED BY <1>2, <2>2, <2>3, <3>1 DEF SockSent, EndSent
    <2>5. /\ IsFun(fail.proxies) /\ DOMAIN fail.proxies = DOMAIN m.proxies
          /\ fail.proxies[by] = [m.proxies[by] EXCEPT !.sendFailed = TRUE]
          /\ \A j \in DOMAIN m.proxies : j # by => fail.proxies[j] = m.proxies[j]
      BY <1>0, <2>1 DEF ProxiesOK, IsFun
    <2>6. \A j \in DOMAIN m.proxies : ProxySent(m.proxies[j], fail.proxies[j])
      <3>1. ProxySent(m.proxies[by], fail.proxies[by])
        BY <1>3, <2>5, ProxySends
      <3>. QED BY <1>3, <2>5, <3>1 DEF ProxySent
    <2>. QED BY <2>1, <2>2, <2>4, <2>5, <2>6, SendsFrom
  <1>. QED BY <1>1, <1>4, <1>5, <1>6

\* A registration sent to every client that wants them.
LEMMA SendRegistrationOK ==
  ASSUME NEW m, PairOK(m), NEW msg
  PROVE  Sends(m, SendRegistration(m, msg))
  <1> DEFINE n == SendRegistration(m, msg)
             wants == {k \in DOMAIN m.proxies : m.proxies[k].wantRegistrations}
  <1>1. /\ IsRec(n, PairFields) /\ IsFun(n.socks) /\ DOMAIN n.socks = SockIDs /\ IsFun(n.proxies)
        /\ DOMAIN n.proxies = DOMAIN m.proxies
        /\ \A k \in SockIDs :
             n.socks[k] = IF k \in wants THEN SendBy(m, k, k, msg).socks[k] ELSE m.socks[k]
        /\ \A k \in DOMAIN m.proxies :
             n.proxies[k] = IF k \in wants THEN SendBy(m, k, k, msg).proxies[k] ELSE m.proxies[k]
    BY DEF SendRegistration, IsRec, PairFields, IsFun
  <1> HIDE DEF n
  <1>2. ASSUME NEW k \in SockIDs
        PROVE  \E x : /\ Sends(m, x) /\ n.socks[k] = x.socks[k]
                      /\ k \in DOMAIN m.proxies => n.proxies[k] = x.proxies[k]
    <2>1. CASE k \in wants
      BY <1>1, <2>1, SendByOK
    <2>2. CASE k \notin wants
      BY <1>1, <2>2, SendsNothing
    <2>. QED BY <2>1, <2>2
  <1>3. DOMAIN m.proxies \subseteq SockIDs
    BY DEF PairOK, ProxiesOK
  <1>4. \A k \in SockIDs : SockSent(m.socks[k], n.socks[k]) /\ EndSent(m, n, k)
    BY <1>2 DEF Sends, EndSent
  <1>5. \A k \in DOMAIN m.proxies : ProxySent(m.proxies[k], n.proxies[k])
    BY <1>2, <1>3 DEF Sends
  <1>6. Sends(m, n)
    BY <1>1, <1>4, <1>5, SendsFrom
  <1>. QED BY <1>6 DEF n

\* All the registrations sent to a client that starts to want them.
LEMMA SendRegistrationsOK ==
  ASSUME NEW m, PairOK(m), NEW k \in DOMAIN m.proxies
  PROVE  Sends(m, SendRegistrationsToFD(m, k))
  <1> DEFINE n == SendRegistrationsToFD(m, k)
  <1>0. k \in SockIDs /\ SocksOK(m.socks) /\ ProxiesOK(m.proxies) /\ IsRec(m, PairFields)
    BY DEF PairOK, ProxiesOK
  <1>1. PICK q, failed :
          n = [socks   |-> [m.socks EXCEPT ![k].toClt = q,
                              ![k].mgrEnd = IF failed # {} /\ m.socks[k].cltOpen THEN "shut" ELSE @],
               proxies |-> [by \in DOMAIN m.proxies |->
                              [m.proxies[by] EXCEPT !.sendFailed = @ \/ by \in failed]]]
    BY Zenon DEF SendRegistrationsToFD
  <1> HIDE DEF n
  <1> DEFINE e == IF failed # {} /\ m.socks[k].cltOpen THEN "shut" ELSE m.socks[k].mgrEnd
  <1>2. /\ IsRec(n, PairFields)
        /\ n.socks = [m.socks EXCEPT ![k] = [m.socks[k] EXCEPT !.toClt = q, !.mgrEnd = e]]
        /\ n.proxies = [by \in DOMAIN m.proxies |->
                          [m.proxies[by] EXCEPT !.sendFailed = m.proxies[by].sendFailed \/ by \in failed]]
    <2>1. IsRec(n, PairFields)
      <3> DEFINE x == [m.socks EXCEPT ![k].toClt = q,
                         ![k].mgrEnd = IF failed # {} /\ m.socks[k].cltOpen THEN "shut" ELSE @]
                 y == [by \in DOMAIN m.proxies |->
                         [m.proxies[by] EXCEPT !.sendFailed = @ \/ by \in failed]]
      <3>1. n = [socks |-> x, proxies |-> y]
        BY <1>1
      <3> HIDE DEF x, y
      <3>. QED BY <3>1 DEF IsRec, PairFields
    <2>2. n.socks = [m.socks EXCEPT ![k].toClt = q,
                       ![k].mgrEnd = IF failed # {} /\ m.socks[k].cltOpen THEN "shut" ELSE @]
      BY <1>1
    <2>3. n.socks = [m.socks EXCEPT ![k] = [m.socks[k] EXCEPT !.toClt = q, !.mgrEnd = e]]
      BY <1>0, <2>2 DEF SocksOK, IsFun, SockOK, IsRec, SockFields
    <2>4. n.proxies = [by \in DOMAIN m.proxies |->
                          [m.proxies[by] EXCEPT !.sendFailed = m.proxies[by].sendFailed \/ by \in failed]]
      BY <1>1
    <2>. QED BY <2>1, <2>3, <2>4
  <1>3. e = m.socks[k].mgrEnd \/ e = "shut"
    OBVIOUS
  <1> HIDE DEF e
  <1>4. \A j \in SockIDs : SockOK(m.socks[j])
    BY <1>0 DEF SocksOK
  <1>5. /\ IsFun(n.socks) /\ DOMAIN n.socks = SockIDs
        /\ n.socks[k] = [m.socks[k] EXCEPT !.toClt = q, !.mgrEnd = e]
        /\ \A j \in SockIDs : j # k => n.socks[j] = m.socks[j]
    BY <1>0, <1>2 DEF SocksOK, IsFun
  <1>6. \A j \in SockIDs : SockSent(m.socks[j], n.socks[j]) /\ EndSent(m, n, j)
    <2>1. SockSent(m.socks[k], n.socks[k]) /\ n.socks[k].mgrEnd = e
      <3> DEFINE s == m.socks[k]
                 t == n.socks[k]
      <3>1. SockOK(s) /\ t = [s EXCEPT !.toClt = q, !.mgrEnd = e]
        BY <1>0, <1>4, <1>5
      <3> HIDE DEF s, t
      <3>2. SockSent(s, t) /\ t.mgrEnd = e
        <4> DEFINE u == [s EXCEPT !.toClt = q]
        <4>1. SockSent(s, u)
          BY <3>1, SockAppends
        <4>2. t = [u EXCEPT !.mgrEnd = e]
          BY <3>1 DEF SockOK, IsRec, SockFields
        <4> HIDE DEF u
        <4>3. SockSent(u, t) /\ t.mgrEnd = e
          BY <4>1, <4>2, SockShuts DEF SockSent
        <4>. QED BY <4>1, <4>3 DEF SockSent
      <3>. QED BY <3>2 DEF s, t
    <2>. QED BY <1>3, <1>4, <1>5, <2>1 DEF SockSent, EndSent
  <1>7. ASSUME NEW j \in DOMAIN m.proxies
        PROVE  ProxySent(m.proxies[j], n.proxies[j])
    <2>1. PICK b : n.proxies[j] = [m.proxies[j] EXCEPT !.sendFailed = b]
      BY <1>2, Zenon
    <2>2. ProxyOK(m.proxies[j])
      BY <1>0 DEF ProxiesOK
    <2>. QED BY <2>1, <2>2, ProxySends
  <1>8. IsFun(n.proxies) /\ DOMAIN n.proxies = DOMAIN m.proxies
    BY <1>2 DEF IsFun
  <1>9. Sends(m, n)
    BY <1>2, <1>5, <1>6, <1>7, <1>8, SendsFrom
  <1>. QED BY <1>9 DEF n

-----------------------------------------------------------------------------
\* K consecutive numbers have different remainders.
LEMMA ModInj ==
  ASSUME NEW K \in Nat \ {0}, NEW b \in Nat, NEW x \in Nat, NEW y \in Nat, x < y, y < K
  PROVE  (b + x) % K # (b + y) % K
  <1> DEFINE u == b + x
             v == b + y
             d == u \div K
             e == v \div K
             r == u % K
             s == v % K
  <1>1. /\ u \in Nat /\ v \in Nat /\ u < v /\ v < u + K
    OBVIOUS
  <1> HIDE DEF u, v
  <1>2. d \in Nat /\ r \in Nat /\ r < K /\ u = K * d + r
    BY <1>1
  <1>3. e \in Nat /\ s \in Nat /\ s < K /\ v = K * e + s
    BY <1>1
  <1> HIDE DEF d, e, r, s
  <1>4. ASSUME r = s
        PROVE  FALSE
    <2>1. ASSUME e <= d
          PROVE  FALSE
      <3>1. K * e <= K * d
        BY <1>2, <1>3, <2>1
      <3>2. K * e \in Nat /\ K * d \in Nat
        BY <1>2, <1>3
      <3> DEFINE ke == K * e
                 kd == K * d
      <3> HIDE DEF ke, kd
      <3>. QED BY <1>1, <1>2, <1>3, <1>4, <3>1, <3>2 DEF ke, kd
    <2>2. ASSUME d + 1 <= e
          PROVE  FALSE
      <3>1. K * (d + 1) <= K * e
        BY <1>2, <1>3, <2>2
      <3>2. K * e \in Nat /\ K * d \in Nat /\ K * (d + 1) = K * d + K
        BY <1>2, <1>3
      <3>. QED BY <1>1, <1>2, <1>3, <1>4, <3>1, <3>2
    <2>. QED BY <1>2, <1>3, <2>1, <2>2
  <1>. QED BY <1>4 DEF r, s, u, v

\* the numbers of the steps from b to an ID that none of D has
Free(K, b, D, id) == {n \in 0..(K - 1) : ~ \E d \in D : id[d] = (b + n) % K}

\* Fewer IDs in use than there are: one of the next is free.
LEMMA FreeID ==
  ASSUME NEW K \in Nat \ {0}, NEW b \in Nat, NEW D, IsFiniteSet(D), Cardinality(D) < K, NEW id,
         NEW S, S = Free(K, b, D, id)
  PROVE  Min(S) \in S
  <1>0. S = {n \in 0..(K - 1) : ~ \E d \in D : id[d] = (b + n) % K}
    BY DEF Free
  <1>1. S \subseteq Nat
    BY <1>0
  <1>2. ASSUME S = {}
        PROVE  FALSE
    <2> DEFINE N == 0..(K - 1)
               f == [n \in N |-> CHOOSE d \in D : id[d] = (b + n) % K]
    <2>1. \A n \in N : \E d \in D : id[d] = (b + n) % K
      BY <1>0, <1>2
    <2>2. \A n \in N : f[n] \in D /\ id[f[n]] = (b + n) % K
      BY <2>1
    <2>3. IsFiniteSet(N) /\ Cardinality(N) = K
      BY FS_Interval
    <2>4. f \in [N -> D]
      BY <2>2
    <2> HIDE DEF f, N
    <2>5. PICK x, y \in N : x # y /\ f[x] = f[y]
      BY <2>3, <2>4, FS_PigeonHole
    <2>6. (b + x) % K = (b + y) % K
      BY <2>2, <2>5
    <2>7. x \in Nat /\ y \in Nat /\ x < K /\ y < K
      BY DEF N
    <2>8. ~(x < y)
      BY <2>6, <2>7, ModInj
    <2>9. ~(y < x)
      BY <2>6, <2>7, ModInj
    <2>. QED BY <2>5, <2>7, <2>8, <2>9
  <1>. QED BY <1>1, <1>2, LeastNat

-----------------------------------------------------------------------------
\* One more member of group gid, called str: h is g with it
JoinsGroup(g, str, gid, h) ==
  /\ gid \in Nat \ {0} /\ GroupsOK(h)
  /\ DOMAIN h = DOMAIN g \cup {str}
  /\ \A x \in DOMAIN g : x # str => h[x] = g[x]
  /\ h[str].gid = gid
  /\ str \in DOMAIN g => g[str].gid = gid /\ h[str].count = g[str].count + 1
  /\ str \notin DOMAIN g => gid \notin GroupIDs(g) /\ h[str].count = 1

\* A group without members, called str, is new
NewGroup(r, str) ==
  \E gid \in Nat \ {0}, next \in Nat \ {0} :
     /\ gid \notin GroupIDs(mgr.groups)
     /\ r = [gid |-> gid,
             mgr |-> [mgr EXCEPT !.nextNewGroupID = next,
                                 !.groups = FnWith(mgr.groups, str, [gid |-> gid, count |-> 0])]]

\* NewGroupStr finds an ID that no group has, unless as many groups exist as there are IDs.
LEMMA NewGroupStrOK ==
  ASSUME MgrOK(mgr), NEW str, str \notin DOMAIN mgr.groups, NEW r, r = NewGroupStr(str)
  PROVE  \/ r = [gid |-> -1, mgr |-> mgr]
         \/ NewGroup(r, str)
  <1> DEFINE K == kMaxGroupID
             D == DOMAIN mgr.groups
             b == mgr.nextNewGroupID - 1
             S == {i \in 0..(K - 1) : NthID(i) \notin GroupIDs(mgr.groups)}
             n == Min(S)
  <1>1. CASE Cardinality(D) >= K
    BY <1>1, Zenon DEF NewGroupStr
  <1>2. CASE ~(Cardinality(D) >= K)
    <2>1. K \in Nat /\ b \in Nat /\ IsFiniteSet(D) /\ \A x \in D : mgr.groups[x].gid \in Nat
      BY Constants DEF MgrOK, GroupsOK, Group
    <2>2. Cardinality(D) \in Nat
      BY <2>1, FS_CardinalityType
    <2>3. K \in Nat \ {0} /\ Cardinality(D) < K
      BY <1>2, <2>1, <2>2
    <2> DEFINE id == [x \in D |-> mgr.groups[x].gid - 1]
               T == {i \in 0..(K - 1) : ~ \E d \in D : id[d] = (b + i) % K}
    <2>4. \A i \in Nat : (b + i) % K \in Nat /\ NthID(i) = ((b + i) % K) + 1
      BY <2>1, <2>3 DEF NthID
    <2>5. \A i \in Nat : NthID(i) \in GroupIDs(mgr.groups) <=> \E d \in D : id[d] = (b + i) % K
      <3> SUFFICES ASSUME NEW i \in Nat
                   PROVE  NthID(i) \in GroupIDs(mgr.groups) <=> \E d \in D : id[d] = (b + i) % K
        OBVIOUS
      <3> DEFINE v == (b + i) % K
      <3>1. v \in Nat /\ NthID(i) = v + 1
        BY <2>4
      <3> HIDE DEF v, b
      <3>2. NthID(i) \in GroupIDs(mgr.groups) <=> \E d \in D : id[d] = v
        <4>1. NthID(i) \in GroupIDs(mgr.groups) <=> \E d \in D : mgr.groups[d].gid = v + 1
          BY <3>1 DEF GroupIDs
        <4>2. \A d \in D : id[d] = v <=> mgr.groups[d].gid = v + 1
          BY <2>1, <3>1
        <4>. QED BY <4>1, <4>2
      <3>. QED BY <3>2 DEF v
    <2>6. S = T
      BY <2>3, <2>5
    <2>7. Min(T) \in T
      <3> HIDE DEF b, D, id, K
      <3>1. T = Free(K, b, D, id)
        BY DEF Free
      <3> HIDE DEF T
      <3>2. K \in Nat \ {0} /\ b \in Nat /\ IsFiniteSet(D) /\ Cardinality(D) < K
        BY <2>1, <2>3
      <3>. QED BY <3>1, <3>2, FreeID
    <2>8. n \in Nat /\ NthID(n) \notin GroupIDs(mgr.groups)
      <3>1. n \in S
        BY <2>6, <2>7
      <3> HIDE DEF n
      <3>. QED BY <3>1
    <2> HIDE DEF n
    <2>9. NthID(n) \in Nat \ {0} /\ NthID(n + 1) \in Nat \ {0}
      <3>1. n + 1 \in Nat
        BY <2>8
      <3>. QED BY <2>4, <2>8, <3>1
    <2>10. r = [gid |-> NthID(n),
                mgr |-> [mgr EXCEPT !.nextNewGroupID = NthID(n + 1),
                           !.groups = FnWith(mgr.groups, str, [gid |-> NthID(n), count |-> 0])]]
      BY <1>2, Zenon DEF NewGroupStr, n
    <2>. QED BY <2>8, <2>9, <2>10, Zenon DEF NewGroup
  <1>. QED BY <1>1, <1>2

\* GetGroupID fails and changes nothing, or the group has one more member.
LEMMA GetGroupIDOK ==
  ASSUME MgrOK(mgr), NEW str, NEW r, r = GetGroupID(str)
  PROVE  \/ r.gid = -1 /\ r.mgr = mgr
         \/ MgrOK(r.mgr) /\ JoinsGroup(mgr.groups, str, r.gid, r.mgr.groups)
  <1>0. /\ IsRec(mgr, MgrFields) /\ mgr.nextNewGroupID \in Nat \ {0} /\ GroupsOK(mgr.groups)
        /\ mgr.nextNewClientID \in Nat
        /\ IsFun(mgr.groups) /\ IsFiniteSet(DOMAIN mgr.groups)
        /\ \A x \in DOMAIN mgr.groups : mgr.groups[x] \in Group
    BY DEF MgrOK, GroupsOK
  <1> DEFINE found == IF str \in DOMAIN mgr.groups
                      THEN [gid |-> mgr.groups[str].gid, mgr |-> mgr] ELSE NewGroupStr(str)
  <1>1. r = IF found.gid = -1 THEN found ELSE [found EXCEPT !.mgr = IncGroupID(@, str)]
    BY Zenon DEF GetGroupID
  <1>2. CASE str \in DOMAIN mgr.groups
    <2>1. found = [gid |-> mgr.groups[str].gid, mgr |-> mgr] /\ mgr.groups[str] \in Group
      BY <1>0, <1>2
    <2> HIDE DEF found
    <2>2. found.gid = mgr.groups[str].gid /\ found.gid \in Nat \ {0} /\ found.mgr = mgr
      BY <2>1 DEF Group
    <2>3. r.gid = mgr.groups[str].gid /\ r.mgr = [mgr EXCEPT !.groups[str].count = @ + 1]
      BY <1>1, <2>1, <2>2 DEF IncGroupID
    <2> DEFINE h == [mgr.groups EXCEPT ![str] = [mgr.groups[str] EXCEPT !.count = mgr.groups[str].count + 1]]
    <2>4. /\ IsRec(r.mgr, MgrFields) /\ r.mgr.nextNewGroupID = mgr.nextNewGroupID
          /\ r.mgr.groups = h /\ r.mgr.nextNewClientID = mgr.nextNewClientID
      BY <1>0, <1>2, <2>3 DEF IsRec, MgrFields, IsFun
    <2>5. /\ IsFun(h) /\ DOMAIN h = DOMAIN mgr.groups
          /\ h[str] = [mgr.groups[str] EXCEPT !.count = mgr.groups[str].count + 1]
          /\ \A x \in DOMAIN mgr.groups : x # str => h[x] = mgr.groups[x]
      BY <1>0, <1>2 DEF IsFun
    <2> HIDE DEF h
    <2>6. h[str] \in Group /\ h[str].gid = mgr.groups[str].gid /\ h[str].count = mgr.groups[str].count + 1
      BY <2>1, <2>5 DEF Group
    <2>7. GroupsOK(h)
      BY <1>0, <2>5, <2>6 DEF GroupsOK
    <2>8. MgrOK(r.mgr)
      BY <1>0, <2>4, <2>7 DEF MgrOK
    <2>9. JoinsGroup(mgr.groups, str, r.gid, r.mgr.groups)
      BY <1>2, <2>2, <2>3, <2>4, <2>5, <2>6, <2>7 DEF JoinsGroup
    <2>. QED BY <2>8, <2>9
  <1>3. CASE str \notin DOMAIN mgr.groups
    <2>1. found = NewGroupStr(str)
      BY <1>3
    <2> HIDE DEF found
    <2>2. CASE found = [gid |-> -1, mgr |-> mgr]
      BY <1>1, <2>2
    <2>3. CASE found # [gid |-> -1, mgr |-> mgr]
      <3>1. PICK gid \in Nat \ {0}, next \in Nat \ {0} :
              /\ gid \notin GroupIDs(mgr.groups)
              /\ found = [gid |-> gid,
                      mgr |-> [mgr EXCEPT !.nextNewGroupID = next,
                                 !.groups = FnWith(mgr.groups, str, [gid |-> gid, count |-> 0])]]
        <4>1. NewGroup(found, str)
          BY <1>3, <2>1, <2>3, NewGroupStrOK
        <4>. QED BY <4>1, Zenon DEF NewGroup
      <3> DEFINE w == FnWith(mgr.groups, str, [gid |-> gid, count |-> 0])
                 n == [mgr EXCEPT !.nextNewGroupID = next, !.groups = w]
                 h == [w EXCEPT ![str] = [w[str] EXCEPT !.count = w[str].count + 1]]
      <3>2. /\ IsFun(w) /\ DOMAIN w = DOMAIN mgr.groups \cup {str}
            /\ w[str] = [gid |-> gid, count |-> 0]
            /\ \A x \in DOMAIN mgr.groups : x # str => w[x] = mgr.groups[x]
        BY <1>3 DEF IsFun, FnWith
      <3> HIDE DEF w
      <3>3. /\ IsRec(n, MgrFields) /\ n.nextNewGroupID = next /\ n.groups = w
            /\ n.nextNewClientID = mgr.nextNewClientID
        BY <1>0 DEF IsRec, MgrFields
      <3>4. found = [gid |-> gid, mgr |-> n]
        BY <3>1 DEF w
      <3> HIDE DEF n
      <3>5. r.gid = gid /\ r.mgr = [n EXCEPT !.groups[str].count = @ + 1]
        BY <1>1, <3>4 DEF IncGroupID
      <3>6. /\ IsRec(r.mgr, MgrFields) /\ r.mgr.nextNewGroupID = next /\ r.mgr.groups = h
            /\ r.mgr.nextNewClientID = mgr.nextNewClientID
        BY <3>2, <3>3, <3>5 DEF IsRec, MgrFields, IsFun
      <3>7. /\ IsFun(h) /\ DOMAIN h = DOMAIN mgr.groups \cup {str}
            /\ h[str] = [w[str] EXCEPT !.count = w[str].count + 1]
            /\ \A x \in DOMAIN mgr.groups : x # str => h[x] = mgr.groups[x]
        BY <1>3, <3>2 DEF IsFun
      <3> HIDE DEF h
      <3>8. h[str] \in Group /\ h[str].gid = gid /\ h[str].count = 1
        BY <3>2, <3>7 DEF Group
      <3>9. IsFiniteSet(DOMAIN h)
        BY <1>0, <3>7, FS_AddElement
      <3>10. GroupsOK(h)
        BY <1>0, <3>7, <3>8, <3>9 DEF GroupsOK
      <3>11. MgrOK(r.mgr)
        BY <1>0, <3>6, <3>10 DEF MgrOK
      <3>12. JoinsGroup(mgr.groups, str, r.gid, r.mgr.groups)
        BY <1>3, <3>1, <3>5, <3>6, <3>7, <3>8, <3>10 DEF JoinsGroup
      <3>. QED BY <3>11, <3>12
    <2>. QED BY <2>2, <2>3
  <1>. QED BY <1>2, <1>3

\* the members of a group are finitely many
LEMMA MembersFinite ==
  ASSUME NEW p, IsFiniteSet(DOMAIN p), NEW gid
  PROVE  IsFiniteSet(Members(p, gid)) /\ Cardinality(Members(p, gid)) \in Nat
  <1>1. Members(p, gid) \in SUBSET DOMAIN p
    BY DEF Members
  <1>2. IsFiniteSet(Members(p, gid))
    BY <1>1, FS_Subset
  <1>. QED BY <1>2, FS_CardinalityType

\* Counted depends on the groups of the proxies only
LEMMA CountedSame ==
  ASSUME NEW g, NEW p, NEW q, Counted(g, p), DOMAIN q = DOMAIN p,
         \A k \in DOMAIN p : q[k].groupID = p[k].groupID
  PROVE  Counted(g, q)
  <1>1. \A gid : Members(q, gid) = Members(p, gid)
    BY DEF Members
  <1>. QED BY <1>1 DEF Counted

\* A client without a group that joins one is counted.
LEMMA Joins ==
  ASSUME NEW g, NEW p, GroupsOK(g), ProxiesOK(p), Counted(g, p), NEW k \in DOMAIN p,
         ~(p[k].groupID > 0), NEW str, NEW gid, NEW h, JoinsGroup(g, str, gid, h),
         NEW q, DOMAIN q = DOMAIN p, q[k].groupID = gid,
         \A j \in DOMAIN p : j # k => q[j].groupID = p[j].groupID
  PROVE  Counted(h, q)
  <1>1. /\ IsFiniteSet(DOMAIN p) /\ gid \in Nat \ {0} /\ DOMAIN h = DOMAIN g \cup {str}
        /\ h[str].gid = gid /\ \A x \in DOMAIN g : x # str => h[x] = g[x]
        /\ \A x \in DOMAIN g : g[x].gid \in Nat \ {0} /\ g[x].count \in Nat
    BY DEF ProxiesOK, JoinsGroup, GroupsOK, Group
  <1>2. str \in DOMAIN g => g[str].gid = gid /\ h[str].count = g[str].count + 1
    BY DEF JoinsGroup
  <1>3. str \notin DOMAIN g => gid \notin GroupIDs(g) /\ h[str].count = 1
    BY DEF JoinsGroup
  <1>4. \A x, y \in DOMAIN g : g[x].gid = g[y].gid => x = y
    BY DEF Counted
  <1>5. \A x \in DOMAIN g : x # str => g[x].gid # gid
    BY <1>2, <1>3, <1>4 DEF GroupIDs
  <1>6. \A x, y \in DOMAIN h : h[x].gid = h[y].gid => x = y
    BY <1>1, <1>4, <1>5
  <1>7. \A j \in DOMAIN q : q[j].groupID > 0 => q[j].groupID \in GroupIDs(h)
    <2>1. \A x \in DOMAIN h : h[x].gid \in GroupIDs(h)
      BY DEF GroupIDs
    <2>2. GroupIDs(g) \subseteq GroupIDs(h)
      BY <1>1, <1>2 DEF GroupIDs
    <2>3. gid \in GroupIDs(h)
      BY <1>1, <2>1
    <2>4. \A j \in DOMAIN p : p[j].groupID > 0 => p[j].groupID \in GroupIDs(g)
      BY DEF Counted
    <2>. QED BY <2>2, <2>3, <2>4
  <1>8. Members(q, gid) = Members(p, gid) \cup {k} /\ k \notin Members(p, gid)
    BY <1>1 DEF Members
  <1>9. \A x \in DOMAIN g : x # str => Members(q, g[x].gid) = Members(p, g[x].gid)
    BY <1>1, <1>5 DEF Members
  <1>10. h[str].count > 0 /\ h[str].count = Cardinality(Members(q, gid))
    <2>1. IsFiniteSet(Members(p, gid)) /\ Cardinality(Members(p, gid)) \in Nat
      BY <1>1, MembersFinite
    <2>2. Cardinality(Members(q, gid)) = Cardinality(Members(p, gid)) + 1
      BY <1>8, <2>1, FS_AddElement
    <2>3. CASE str \in DOMAIN g
      <3>1. g[str].count = Cardinality(Members(p, gid))
        BY <1>2, <2>3 DEF Counted
      <3>. QED BY <1>2, <2>1, <2>2, <2>3, <3>1
    <2>4. CASE str \notin DOMAIN g
      <3>1. Members(p, gid) = {}
        BY <1>1, <1>3, <2>4 DEF Members, Counted
      <3>2. Cardinality(Members(p, gid)) = 0
        BY <3>1, FS_EmptySet
      <3>. QED BY <1>3, <2>2, <2>4, <3>2
    <2>. QED BY <2>3, <2>4
  <1>11. ASSUME NEW x \in DOMAIN h
         PROVE  h[x].count > 0 /\ h[x].count = Cardinality(Members(q, h[x].gid))
    <2>1. CASE x = str
      BY <1>1, <1>10, <2>1
    <2>2. CASE x # str
      <3>1. x \in DOMAIN g /\ h[x] = g[x] /\ Members(q, g[x].gid) = Members(p, g[x].gid)
        BY <1>1, <1>9, <2>2
      <3>2. g[x].count > 0 /\ g[x].count = Cardinality(Members(p, g[x].gid))
        BY <3>1 DEF Counted
      <3>. QED BY <3>1, <3>2
    <2>. QED BY <2>1, <2>2
  <1>. QED BY <1>6, <1>7, <1>11 DEF Counted

\* DecGroupID, group by group.
LEMMA DecGroupIDOK ==
  ASSUME NEW m, MgrOK(m), NEW gid, NEW n, n = DecGroupID(m, gid)
  PROVE  /\ IsRec(n, MgrFields) /\ n.nextNewGroupID = m.nextNewGroupID
         /\ n.nextNewClientID = m.nextNewClientID
         /\ IsFun(n.groups) /\ DOMAIN n.groups \subseteq DOMAIN m.groups
         /\ \A x \in DOMAIN m.groups :
              /\ m.groups[x].gid # gid => x \in DOMAIN n.groups /\ n.groups[x] = m.groups[x]
              /\ m.groups[x].gid = gid =>
                   /\ x \in DOMAIN n.groups <=> m.groups[x].count - 1 # 0
                   /\ x \in DOMAIN n.groups =>
                        /\ n.groups[x].gid = gid
                        /\ n.groups[x].count = m.groups[x].count - 1
                        /\ IsRec(n.groups[x], {"gid", "count"})
  <1> DEFINE g    == m.groups
             strs == {str \in DOMAIN g : g[str].gid = gid}
             less == [str \in DOMAIN g |->
                        IF str \in strs THEN [g[str] EXCEPT !.count = g[str].count - 1] ELSE g[str]]
             out  == {str \in strs : less[str].count = 0}
             w    == FnWithout(less, out)
  <1>0. IsRec(m, MgrFields) /\ \A x \in DOMAIN g : g[x] \in Group
    BY DEF MgrOK, GroupsOK
  <1>1. n = [m EXCEPT !.groups = w]
    BY DEF DecGroupID
  <1>2. /\ DOMAIN less = DOMAIN g
        /\ \A x \in DOMAIN g : g[x].gid # gid => less[x] = g[x] /\ x \notin out
        /\ \A x \in DOMAIN g : g[x].gid = gid => 
              /\ less[x] = [g[x] EXCEPT !.count = g[x].count - 1]
              /\ x \in out <=> less[x].count = 0
    OBVIOUS
  <1> HIDE DEF less, out
  <1>3. IsFun(w) /\ DOMAIN w = DOMAIN g \ out /\ \A x \in DOMAIN w : w[x] = less[x]
    BY <1>2 DEF FnWithout, IsFun
  <1> HIDE DEF w
  <1>4. /\ IsRec(n, MgrFields) /\ n.nextNewGroupID = m.nextNewGroupID /\ n.groups = w
        /\ n.nextNewClientID = m.nextNewClientID
    BY <1>0, <1>1 DEF IsRec, MgrFields
  <1>5. \A x \in DOMAIN g : g[x].gid = gid =>
           /\ less[x].gid = gid /\ less[x].count = g[x].count - 1 /\ IsRec(less[x], {"gid", "count"})
    BY <1>0, <1>2 DEF Group, IsRec
  <1>. QED BY <1>2, <1>3, <1>4, <1>5

\* the proxies of q are in the same groups as in p
SameGroups(p, q) == \A j \in DOMAIN q : q[j].groupID = p[j].groupID

\* A client that goes is counted out of its group, which goes with its last member.
LEMMA Leaves ==
  ASSUME NEW m, MgrOK(m), NEW p, ProxiesOK(p), Counted(m.groups, p), NEW k \in DOMAIN p,
         NEW n, n = DecGroupID(m, p[k].groupID),
         NEW q, DOMAIN q = DOMAIN p \ {k}, SameGroups(p, q)
  PROVE  MgrOK(n) /\ Counted(n.groups, q)
  <1>0. \A j \in DOMAIN q : q[j].groupID = p[j].groupID
    BY DEF SameGroups
  <1> DEFINE g   == m.groups
             h   == n.groups
             gid == p[k].groupID
  <1>1. /\ m.nextNewGroupID \in Nat \ {0} /\ IsFiniteSet(DOMAIN g) /\ IsFiniteSet(DOMAIN p)
        /\ m.nextNewClientID \in Nat
        /\ \A x \in DOMAIN g : g[x] \in Group /\ g[x].gid \in Nat \ {0} /\ g[x].count \in Nat
    BY DEF MgrOK, GroupsOK, ProxiesOK, Group
  <1>2. /\ IsRec(n, MgrFields) /\ n.nextNewGroupID = m.nextNewGroupID
        /\ n.nextNewClientID = m.nextNewClientID
        /\ IsFun(h) /\ DOMAIN h \subseteq DOMAIN g
        /\ \A x \in DOMAIN g : g[x].gid # gid => x \in DOMAIN h /\ h[x] = g[x]
        /\ \A x \in DOMAIN g : g[x].gid = gid =>
              /\ x \in DOMAIN h <=> g[x].count - 1 # 0
              /\ x \in DOMAIN h => /\ h[x].gid = gid /\ h[x].count = g[x].count - 1
                                   /\ IsRec(h[x], {"gid", "count"})
    BY DecGroupIDOK
  <1>3. \A x \in DOMAIN g : g[x].count > 0 /\ g[x].count = Cardinality(Members(p, g[x].gid))
    BY DEF Counted
  <1>4. \A x \in DOMAIN h : h[x] \in Group /\ h[x].gid = g[x].gid
    <2> SUFFICES ASSUME NEW x \in DOMAIN h
                 PROVE  h[x] \in Group /\ h[x].gid = g[x].gid
      OBVIOUS
    <2>1. x \in DOMAIN g
      BY <1>2
    <2>2. CASE g[x].gid # gid
      BY <1>1, <1>2, <2>1, <2>2
    <2>3. CASE g[x].gid = gid
      <3>1. h[x].gid \in Nat \ {0} /\ h[x].count \in Nat /\ IsRec(h[x], {"gid", "count"})
        BY <1>1, <1>2, <1>3, <2>1, <2>3
      <3>2. h[x] \in Group
        BY <3>1 DEF Group, IsRec
      <3>. QED BY <1>2, <2>1, <2>3, <3>2
    <2>. QED BY <2>2, <2>3
  <1>5. IsFiniteSet(DOMAIN h)
    BY <1>1, <1>2, FS_Subset
  <1>6. MgrOK(n)
    BY <1>1, <1>2, <1>4, <1>5 DEF MgrOK, GroupsOK
  <1>7. \A x, y \in DOMAIN h : h[x].gid = h[y].gid => x = y
    BY <1>2, <1>4 DEF Counted
  <1>8. Members(q, gid) = Members(p, gid) \ {k} /\ k \in Members(p, gid)
    BY <1>0 DEF Members
  <1>9. \A x \in DOMAIN g : g[x].gid # gid => Members(q, g[x].gid) = Members(p, g[x].gid)
    BY <1>0 DEF Members
  <1>10. IsFiniteSet(Members(p, gid)) /\ Cardinality(Members(p, gid)) \in Nat
    BY <1>1, MembersFinite
  <1>11. /\ IsFiniteSet(Members(q, gid))
         /\ Cardinality(Members(q, gid)) = Cardinality(Members(p, gid)) - 1
    BY <1>8, <1>10, FS_RemoveElement
  <1>12. ASSUME NEW x \in DOMAIN h
         PROVE  h[x].count > 0 /\ h[x].count = Cardinality(Members(q, h[x].gid))
    <2>1. x \in DOMAIN g
      BY <1>2
    <2>2. CASE g[x].gid # gid
      BY <1>2, <1>3, <1>9, <2>1, <2>2
    <2>3. CASE g[x].gid = gid
      BY <1>1, <1>2, <1>3, <1>11, <2>1, <2>3
    <2>. QED BY <2>2, <2>3
  <1>13. ASSUME NEW j \in DOMAIN q, q[j].groupID > 0
         PROVE  q[j].groupID \in GroupIDs(h)
    <2>1. j \in DOMAIN p /\ q[j].groupID = p[j].groupID
      BY <1>0
    <2>2. PICK x \in DOMAIN g : g[x].gid = q[j].groupID
      BY <1>13, <2>1 DEF Counted, GroupIDs
    <2>3. x \in DOMAIN h
      <3>1. CASE g[x].gid # gid
        BY <1>2, <3>1
      <3>2. CASE g[x].gid = gid
        <4>1. j \in Members(q, gid)
          BY <2>2, <3>2 DEF Members
        <4>2. Cardinality(Members(q, gid)) # 0
          BY <1>11, <4>1, FS_EmptySet
        <4>3. g[x].count - 1 # 0
          BY <1>3, <1>11, <3>2, <4>2
        <4>. QED BY <1>2, <3>2, <4>3
      <3>. QED BY <3>1, <3>2
    <2>. QED BY <1>4, <2>2, <2>3 DEF GroupIDs
  <1>. QED BY <1>6, <1>7, <1>12, <1>13 DEF Counted

-----------------------------------------------------------------------------
\* What a message does to what a client has registered
RegStep(regs, msg) ==
  IF msg.type = "Register" THEN regs \cup msg.msgIDs
  ELSE IF msg.type = "Deregister" THEN regs \ msg.msgIDs ELSE regs

\* the manager serves the sockets that it has accepted and not closed
EndsOK(m) == \A k \in SockIDs : k \in DOMAIN m.proxies <=> m.socks[k].mgrEnd \in {"open", "shut"}

\* no two clients have the same ID
Distinct(p) == \A j, k \in DOMAIN p : p[j].clientID = p[k].clientID => j = k

\* the manager's side of the invariant
ManagerOK(m, g) == /\ PairOK(m) /\ EndsOK(m) /\ Distinct(m.proxies)
                   /\ MgrOK(g) /\ Counted(g.groups, m.proxies)

\* n is m after proxy k has handled a message
Handled(m, n, k) ==
  /\ PairOK(n) /\ DOMAIN n.proxies = DOMAIN m.proxies
  /\ \A j \in SockIDs : SockSent(m.socks[j], n.socks[j]) /\ EndSent(m, n, j)
  /\ \A j \in DOMAIN m.proxies : j # k => ProxySent(m.proxies[j], n.proxies[j])

\* Sends keep the manager's ends of the sockets in order.
LEMMA EndsKept ==
  ASSUME NEW m, EndsOK(m), NEW n, DOMAIN n.proxies = DOMAIN m.proxies,
         \A k \in SockIDs : EndSent(m, n, k)
  PROVE  EndsOK(n)
  BY DEF EndsOK, EndSent

\* Proxy k changes, then something is sent
LEMMA UpdateSends ==
  ASSUME NEW m, PairOK(m), NEW k \in DOMAIN m.proxies, NEW p, ProxyOK(p),
         NEW l, l = [m EXCEPT !.proxies = [m.proxies EXCEPT ![k] = p]]
  PROVE  /\ PairOK(l) /\ k \in DOMAIN l.proxies /\ l.proxies[k] = p
         /\ \A n : Sends(l, n) => Handled(m, n, k) /\ ProxySent(p, n.proxies[k])
  <1>0. IsRec(m, PairFields) /\ SocksOK(m.socks) /\ ProxiesOK(m.proxies)
    BY DEF PairOK
  <1>1. /\ IsRec(l, PairFields) /\ l.socks = m.socks
        /\ l.proxies = [m.proxies EXCEPT ![k] = p]
    BY <1>0 DEF IsRec, PairFields
  <1>2. /\ IsFun(l.proxies) /\ DOMAIN l.proxies = DOMAIN m.proxies /\ l.proxies[k] = p
        /\ \A j \in DOMAIN m.proxies : j # k => l.proxies[j] = m.proxies[j]
    BY <1>0, <1>1 DEF IsFun, ProxiesOK
  <1>3. ProxiesOK(l.proxies)
    BY <1>0, <1>2 DEF ProxiesOK
  <1>4. PairOK(l)
    BY <1>0, <1>1, <1>3 DEF PairOK
  <1>5. ASSUME NEW n, Sends(l, n)
        PROVE  Handled(m, n, k) /\ ProxySent(p, n.proxies[k])
    BY <1>1, <1>2, <1>5 DEF Sends, Handled, EndSent
  <1>. QED BY <1>2, <1>4, <1>5

\* what a handler h of message msg may have done, for proxy k
HandlesOK(m, k, msg, h) ==
  /\ Handled(m, h.m, k) /\ MgrOK(h.g) /\ Counted(h.g.groups, h.m.proxies)
  /\ h.m.proxies[k].clientID = m.proxies[k].clientID
  /\ h.throws \/ h.m.proxies[k].registered = RegStep(m.proxies[k].registered, msg)

\* A proxy of which one field changes.
LEMMA ProxyEdits ==
  ASSUME NEW p, ProxyOK(p), NEW v
  PROVE  /\ \A r : r = [p EXCEPT !.registered = v] =>
                     /\ ProxyOK(r) /\ r.clientID = p.clientID
                     /\ r.groupID = p.groupID /\ r.registered = v
         /\ \A r : r = [p EXCEPT !.wantRegistrations = v] =>
                     /\ ProxyOK(r) /\ r.clientID = p.clientID
                     /\ r.groupID = p.groupID /\ r.registered = p.registered
         /\ v \in Int => \A r : r = [p EXCEPT !.groupID = v] =>
                                  /\ ProxyOK(r) /\ r.clientID = p.clientID
                                  /\ r.groupID = v /\ r.registered = p.registered
  BY DEF ProxyOK, IsRec, ProxyFields

\* A handler that leaves the group of its client alone leaves the counts right.
LEMMA HandledCounts ==
  ASSUME NEW g, NEW m, PairOK(m), Counted(g, m.proxies), NEW n, NEW k \in DOMAIN m.proxies,
         Handled(m, n, k), n.proxies[k].groupID = m.proxies[k].groupID
  PROVE  Counted(g, n.proxies)
  <1>1. /\ DOMAIN n.proxies = DOMAIN m.proxies
        /\ \A j \in DOMAIN m.proxies : n.proxies[j].groupID = m.proxies[j].groupID
    BY DEF Handled, ProxySent
  <1>. QED BY <1>1, CountedSame

\* A handler that throws has done nothing.
LEMMA ThrowOK ==
  ASSUME NEW m, PairOK(m), MgrOK(mgr), Counted(mgr.groups, m.proxies), NEW k \in DOMAIN m.proxies,
         NEW msg, NEW h, h = Throw(m)
  PROVE  HandlesOK(m, k, msg, h)
  <1>1. h.m = m /\ h.g = mgr /\ h.throws
    BY DEF Throw
  <1>2. Sends(m, m)
    BY SendsNothing
  <1>3. Handled(m, m, k)
    BY <1>2 DEF Sends, Handled
  <1>. QED BY <1>1, <1>3 DEF HandlesOK

\* ClientProxy::HandleRegistration.
LEMMA HandleRegistrationOK ==
  ASSUME NEW m, PairOK(m), MgrOK(mgr), Counted(mgr.groups, m.proxies), NEW k \in DOMAIN m.proxies,
         NEW msg, msg.type \in {"Register", "Deregister"}, NEW h, h = HandleRegistration(m, k, msg)
  PROVE  HandlesOK(m, k, msg, h)
  <1> DEFINE p   == m.proxies[k]
             reg == msg.type = "Register"
             new == IF reg THEN msg.msgIDs \ p.registered ELSE msg.msgIDs \cap p.registered
             v   == IF reg THEN p.registered \cup new ELSE p.registered \ new
             r   == [p EXCEPT !.registered = v]
             m1  == [m EXCEPT !.proxies[k].registered = IF reg THEN @ \cup new ELSE @ \ new]
             m2  == IF new = {} THEN m1
                    ELSE SendRegistration(m1, RegMsg(msg.type, msg.clientID, msg.groupID, new))
  <1>0. ProxyOK(p)
    BY DEF PairOK, ProxiesOK
  <1>1. CASE msg.clientID # p.clientID \/ msg.groupID # p.groupID
    <2>1. h = Throw(m)
      BY <1>1, Zenon DEF HandleRegistration
    <2>. QED BY <2>1, ThrowOK
  <1>2. CASE ~(msg.clientID # p.clientID \/ msg.groupID # p.groupID)
    <2>1. h = [m |-> m2, g |-> mgr, throws |-> FALSE]
      BY <1>2, Zenon DEF HandleRegistration
    <2>2. v = RegStep(p.registered, msg)
      BY DEF RegStep
    <2>3. ProxyOK(r) /\ r.clientID = p.clientID /\ r.groupID = p.groupID /\ r.registered = v
      <3> HIDE DEF v
      <3>. QED BY <1>0, ProxyEdits
    <2>4. m1 = [m EXCEPT !.proxies = [m.proxies EXCEPT ![k] = r]]
      OBVIOUS
    <2> HIDE DEF m1, r
    <2>5. /\ PairOK(m1)
          /\ \A n : Sends(m1, n) => Handled(m, n, k) /\ ProxySent(r, n.proxies[k])
      BY <2>3, <2>4, UpdateSends
    <2>6. Sends(m1, m2)
      BY <2>5, SendsNothing, SendRegistrationOK
    <2> HIDE DEF m2
    <2>7. /\ Handled(m, m2, k) /\ m2.proxies[k].clientID = p.clientID
          /\ m2.proxies[k].groupID = p.groupID /\ m2.proxies[k].registered = v
      BY <2>3, <2>5, <2>6 DEF ProxySent
    <2>8. Counted(mgr.groups, m2.proxies)
      BY <2>7, HandledCounts
    <2> HIDE DEF v
    <2>9. h.m = m2 /\ h.g = mgr
      BY <2>1
    <2>. QED BY <2>2, <2>7, <2>8, <2>9 DEF HandlesOK
  <1>. QED BY <1>1, <1>2

\* ClientProxy::HandleRegistrationsWanted.
LEMMA HandleRegistrationsWantedOK ==
  ASSUME NEW m, PairOK(m), MgrOK(mgr), Counted(mgr.groups, m.proxies), NEW k \in DOMAIN m.proxies,
         NEW msg, msg.type = "Wanted", NEW h, h = HandleRegistrationsWanted(m, k, msg.wanted)
  PROVE  HandlesOK(m, k, msg, h)
  <1> DEFINE p   == m.proxies[k]
             r   == [p EXCEPT !.wantRegistrations = msg.wanted]
             m1  == [m EXCEPT !.proxies[k].wantRegistrations = msg.wanted]
             m2  == IF msg.wanted THEN SendRegistrationsToFD(m1, k) ELSE m1
  <1>0. ProxyOK(p)
    BY DEF PairOK, ProxiesOK
  <1>1. h = [m |-> m2, g |-> mgr, throws |-> FALSE]
    BY Zenon DEF HandleRegistrationsWanted
  <1>2. p.registered = RegStep(p.registered, msg)
    BY DEF RegStep
  <1>3. ProxyOK(r) /\ r.clientID = p.clientID /\ r.groupID = p.groupID /\ r.registered = p.registered
    BY <1>0, ProxyEdits
  <1>4. m1 = [m EXCEPT !.proxies = [m.proxies EXCEPT ![k] = r]]
    OBVIOUS
  <1> HIDE DEF m1, r
  <1>5. /\ PairOK(m1) /\ k \in DOMAIN m1.proxies
        /\ \A n : Sends(m1, n) => Handled(m, n, k) /\ ProxySent(r, n.proxies[k])
    BY <1>3, <1>4, UpdateSends
  <1>6. Sends(m1, m2)
    BY <1>5, SendsNothing, SendRegistrationsOK
  <1> HIDE DEF m2
  <1>7. /\ Handled(m, m2, k) /\ m2.proxies[k].clientID = p.clientID
        /\ m2.proxies[k].groupID = p.groupID /\ m2.proxies[k].registered = p.registered
    BY <1>3, <1>5, <1>6 DEF ProxySent
  <1>8. Counted(mgr.groups, m2.proxies)
    BY <1>7, HandledCounts
  <1>9. h.m = m2 /\ h.g = mgr
    BY <1>1
  <1>. QED BY <1>2, <1>7, <1>8, <1>9 DEF HandlesOK

\* ClientProxy::HandleNumSlabs, as far as Session has it.
LEMMA HandleNumSlabsOK ==
  ASSUME NEW m, PairOK(m), MgrOK(mgr), Counted(mgr.groups, m.proxies), NEW k \in DOMAIN m.proxies,
         NEW msg, msg.type = "NumSlabs", NEW h, h = HandleNumSlabs(m, k)
  PROVE  HandlesOK(m, k, msg, h)
  <1> DEFINE n == SendBy(m, k, k, [type |-> "NumSlabs"])
  <1>1. h.m = n /\ h.g = mgr
    <2> HIDE DEF n
    <2>1. h = Done(n, k)
      BY DEF HandleNumSlabs, n
    <2>. QED BY <2>1 DEF Done
  <1>2. Sends(m, n)
    BY SendByOK
  <1> HIDE DEF n
  <1>3. Handled(m, n, k) /\ ProxySent(m.proxies[k], n.proxies[k])
    BY <1>2 DEF Sends, Handled
  <1>4. n.proxies[k].registered = RegStep(m.proxies[k].registered, msg)
    BY <1>3 DEF ProxySent, RegStep
  <1>5. Counted(mgr.groups, n.proxies)
    BY <1>3, HandledCounts DEF ProxySent
  <1>. QED BY <1>1, <1>3, <1>4, <1>5 DEF HandlesOK, ProxySent

\* ClientProxy::HandleGroupIDStr: the client is counted in the group that it is told of.
LEMMA HandleGroupIDStrOK ==
  ASSUME NEW m, PairOK(m), MgrOK(mgr), Counted(mgr.groups, m.proxies), NEW k \in DOMAIN m.proxies,
         NEW msg, msg.type = "GroupStr", NEW h, h = HandleGroupIDStr(m, k, msg.str)
  PROVE  HandlesOK(m, k, msg, h)
  <1> DEFINE p   == m.proxies[k]
             got == GetGroupID(msg.str)
             r   == [p EXCEPT !.groupID = got.gid]
             m1  == [m EXCEPT !.proxies[k].groupID = got.gid]
             m2  == SendBy(m1, k, k, [type |-> "GroupID", id |-> got.gid])
  <1>0. ProxyOK(p) /\ ProxiesOK(m.proxies) /\ GroupsOK(mgr.groups)
    BY DEF PairOK, ProxiesOK, MgrOK
  <1>1. CASE p.registered # {} \/ p.groupID # 0
    <2>1. h = Throw(m)
      BY <1>1, Zenon DEF HandleGroupIDStr
    <2>. QED BY <2>1, ThrowOK
  <1>2. CASE ~(p.registered # {} \/ p.groupID # 0)
    <2>1. h = [Done(m2, k) EXCEPT !.g = got.mgr]
      BY <1>2, Zenon DEF HandleGroupIDStr
    <2>2. \/ got.gid = -1 /\ got.mgr = mgr
          \/ MgrOK(got.mgr) /\ JoinsGroup(mgr.groups, msg.str, got.gid, got.mgr.groups)
      BY GetGroupIDOK
    <2> HIDE DEF got
    <2>3. got.gid \in Int /\ MgrOK(got.mgr)
      BY <2>2 DEF JoinsGroup
    <2>4. ProxyOK(r) /\ r.clientID = p.clientID /\ r.groupID = got.gid /\ r.registered = p.registered
      BY <1>0, <2>3, ProxyEdits
    <2>5. m1 = [m EXCEPT !.proxies = [m.proxies EXCEPT ![k] = r]]
      OBVIOUS
    <2> HIDE DEF m1, r
    <2>6. /\ PairOK(m1) /\ k \in DOMAIN m1.proxies
          /\ \A n : Sends(m1, n) => Handled(m, n, k) /\ ProxySent(r, n.proxies[k])
      BY <2>4, <2>5, UpdateSends
    <2>7. Sends(m1, m2)
      BY <2>6, SendByOK
    <2> HIDE DEF m2
    <2>8. /\ Handled(m, m2, k) /\ m2.proxies[k].clientID = p.clientID
          /\ m2.proxies[k].groupID = got.gid /\ m2.proxies[k].registered = p.registered
      BY <2>4, <2>6, <2>7 DEF ProxySent
    <2>9. h.m = m2 /\ h.g = got.mgr
      BY <2>1 DEF Done
    <2>10. p.registered = RegStep(p.registered, msg)
      BY DEF RegStep
    <2>11. /\ DOMAIN m2.proxies = DOMAIN m.proxies
           /\ \A j \in DOMAIN m.proxies : j # k => m2.proxies[j].groupID = m.proxies[j].groupID
      BY <2>8 DEF Handled, ProxySent
    <2>12. CASE got.gid = -1 /\ got.mgr = mgr
      <3>1. \A x \in DOMAIN mgr.groups : mgr.groups[x].gid \in Nat
        BY <1>0 DEF GroupsOK, Group
      <3>2. \A x \in DOMAIN mgr.groups :
              Members(m2.proxies, mgr.groups[x].gid) = Members(m.proxies, mgr.groups[x].gid)
        BY <1>0, <1>2, <2>8, <2>11, <2>12, <3>1 DEF Members, GroupsOK, Group
      <3>3. Counted(mgr.groups, m2.proxies)
        BY <2>8, <2>11, <2>12, <3>2 DEF Counted
      <3>. QED BY <2>3, <2>8, <2>9, <2>10, <2>12, <3>3 DEF HandlesOK
    <2>13. CASE JoinsGroup(mgr.groups, msg.str, got.gid, got.mgr.groups)
      <3>1. ~(m.proxies[k].groupID > 0)
        BY <1>2
      <3>2. Counted(got.mgr.groups, m2.proxies)
        BY <1>0, <2>8, <2>11, <2>13, <3>1, Joins
      <3>. QED BY <2>3, <2>8, <2>9, <2>10, <3>2 DEF HandlesOK
    <2>. QED BY <2>2, <2>12, <2>13
  <1>. QED BY <1>1, <1>2

\* Every message that a client sends.
LEMMA HandleOK ==
  ASSUME NEW m, PairOK(m), MgrOK(mgr), Counted(mgr.groups, m.proxies), NEW k \in DOMAIN m.proxies,
         NEW msg, msg.type \in ToMgrTypes, NEW h, h = Handle(m, k, msg)
  PROVE  HandlesOK(m, k, msg, h)
  <1>1. CASE msg.type \in {"Register", "Deregister"}
    <2>1. h = HandleRegistration(m, k, msg)
      BY <1>1 DEF Handle
    <2>. QED BY <1>1, <2>1, HandleRegistrationOK
  <1>2. CASE msg.type = "GroupStr"
    <2>1. h = HandleGroupIDStr(m, k, msg.str)
      BY <1>2 DEF Handle
    <2>. QED BY <1>2, <2>1, HandleGroupIDStrOK
  <1>3. CASE msg.type = "Wanted"
    <2>1. h = HandleRegistrationsWanted(m, k, msg.wanted)
      BY <1>3 DEF Handle
    <2>. QED BY <1>3, <2>1, HandleRegistrationsWantedOK
  <1>4. CASE msg.type = "NumSlabs"
    <2>1. h = HandleNumSlabs(m, k)
      BY <1>4 DEF Handle
    <2>. QED BY <1>4, <2>1, HandleNumSlabsOK
  <1>. QED BY <1>1, <1>2, <1>3, <1>4 DEF ToMgrTypes

-----------------------------------------------------------------------------
\* The domain of a sequence.
LEMMA SeqFacts ==
  ASSUME NEW q, IsSeq(q)
  PROVE  Len(q) \in Nat /\ DOMAIN q = 1..Len(q)
  BY DEF IsSeq

\* A message is appended to a sequence.
LEMMA SeqAppend ==
  ASSUME NEW q, IsSeq(q), NEW x
  PROVE  /\ q \o <<x>> = Append(q, x)
         /\ IsSeq(Append(q, x)) /\ Len(Append(q, x)) = Len(q) + 1
         /\ Append(q, x)[Len(q) + 1] = x
         /\ \A i \in 1..Len(q) : Append(q, x)[i] = q[i]
  <1>1. PICK T : q \in Seq(T)
    BY DEF IsSeq
  <1>2. q \in Seq(T \cup {x})
    BY <1>1
  <1> DEFINE U == T \cup {x}
  <1> HIDE DEF U
  <1>3. q \in Seq(U) /\ x \in U
    BY <1>2 DEF U
  <1>4. Append(q, x) \in Seq(U)
    BY <1>3
  <1>5. q \o <<x>> = Append(q, x)
    BY <1>3
  <1>. QED BY <1>3, <1>4, <1>5 DEF IsSeq

\* The first message is taken from a sequence.
LEMMA SeqTail ==
  ASSUME NEW q, IsSeq(q), q # <<>>
  PROVE  /\ IsSeq(Tail(q)) /\ Len(q) \in Nat \ {0} /\ Len(Tail(q)) = Len(q) - 1
         /\ Head(q) = q[1] /\ \A i \in 1..(Len(q) - 1) : Tail(q)[i] = q[i + 1]
  <1>1. PICK T : q \in Seq(T)
    BY DEF IsSeq
  <1>2. Tail(q) \in Seq(T)
    BY <1>1
  <1>. QED BY <1>1, <1>2 DEF IsSeq

\* Handling the first message leaves what the messages come to as it was.
LEMMA RegsAfterTail ==
  ASSUME NEW q, IsSeq(q), q # <<>>, NEW regs
  PROVE  RegsAfter(RegStep(regs, Head(q)), Tail(q)) = RegsAfter(regs, q)
  <1> DEFINE n  == Len(q)
             t  == Tail(q)
             a  == Head(q)
             rs == RegStep(regs, a)
  <1>1. /\ n \in Nat \ {0} /\ DOMAIN q = 1..n /\ DOMAIN t = 1..(n - 1) /\ a = q[1]
        /\ \A i \in 1..(n - 1) : t[i] = q[i + 1]
    BY SeqTail, SeqFacts
  <1> HIDE DEF n, t, a, rs
  <1>2. ASSUME NEW m \in MsgIDs
        PROVE  m \in RegsAfter(rs, t) <=> m \in RegsAfter(regs, q)
    <2> DEFINE A(i) == About(q[i], m)
               L(i) == A(i) /\ q[i].type = "Register" /\ \A j \in 1..n : j > i => ~A(j)
    <2>1. m \in RegsAfter(regs, q) <=> \/ m \in regs /\ \A i \in 1..n : ~A(i)
                                       \/ \E i \in 1..n : L(i)
      BY <1>1 DEF RegsAfter
    <2>2. (\A i \in 1..(n - 1) : ~About(t[i], m)) <=> (\A i \in 2..n : ~A(i))
      <3>1. ASSUME \A i \in 1..(n - 1) : ~About(t[i], m), NEW i \in 2..n
            PROVE  ~A(i)
        <4>1. i - 1 \in 1..(n - 1) /\ t[i - 1] = q[i]
          BY <1>1
        <4>. QED BY <3>1, <4>1
      <3>2. ASSUME \A i \in 2..n : ~A(i), NEW i \in 1..(n - 1)
            PROVE  ~About(t[i], m)
        <4>1. i + 1 \in 2..n /\ t[i] = q[i + 1]
          BY <1>1
        <4>. QED BY <3>2, <4>1
      <3>. QED BY <3>1, <3>2
    <2>3. ASSUME NEW i \in 1..(n - 1)
          PROVE  (/\ About(t[i], m) /\ t[i].type = "Register"
                  /\ \A j \in 1..(n - 1) : j > i => ~About(t[j], m)) <=> L(i + 1)
      <3>1. (\A j \in 1..(n - 1) : j > i => ~About(t[j], m)) <=> (\A j \in 1..n : j > i + 1 => ~A(j))
        <4>1. ASSUME \A j \in 1..(n - 1) : j > i => ~About(t[j], m), NEW j \in 1..n, j > i + 1
              PROVE  ~A(j)
          <5>1. j - 1 \in 1..(n - 1) /\ j - 1 > i /\ t[j - 1] = q[j]
            BY <1>1, <4>1
          <5>. QED BY <4>1, <5>1
        <4>2. ASSUME \A j \in 1..n : j > i + 1 => ~A(j), NEW j \in 1..(n - 1), j > i
              PROVE  ~About(t[j], m)
          <5>1. j + 1 \in 1..n /\ j + 1 > i + 1 /\ t[j] = q[j + 1]
            BY <1>1, <4>2
          <5>. QED BY <4>2, <5>1
        <4>. QED BY <4>1, <4>2
      <3>2. t[i] = q[i + 1]
        BY <1>1
      <3>. QED BY <3>1, <3>2
    <2>4. m \in RegsAfter(rs, t) <=> \/ m \in rs /\ \A i \in 2..n : ~A(i)
                                     \/ \E i \in 1..(n - 1) : L(i + 1)
      <3> DEFINE B(i) == /\ About(t[i], m) /\ t[i].type = "Register"
                         /\ \A j \in 1..(n - 1) : j > i => ~About(t[j], m)
      <3>1. m \in RegsAfter(rs, t) <=> \/ m \in rs /\ \A i \in 1..(n - 1) : ~About(t[i], m)
                                       \/ \E i \in 1..(n - 1) : B(i)
        BY <1>1 DEF RegsAfter
      <3>2. \A i \in 1..(n - 1) : B(i) <=> L(i + 1)
        BY <2>3
      <3> HIDE DEF B, L, A
      <3>. QED BY <2>2, <3>1, <3>2
    <2>5. (\E i \in 1..(n - 1) : L(i + 1)) <=> (\E i \in 2..n : L(i))
      <3> HIDE DEF L
      <3>1. ASSUME NEW i \in 2..n, L(i)
            PROVE  \E j \in 1..(n - 1) : L(j + 1)
        <4>1. i - 1 \in 1..(n - 1) /\ (i - 1) + 1 = i
          BY <1>1
        <4>. QED BY <3>1, <4>1
      <3>2. ASSUME NEW i \in 1..(n - 1), L(i + 1)
            PROVE  \E j \in 2..n : L(j)
        <4>1. i + 1 \in 2..n
          BY <1>1
        <4>. QED BY <3>2, <4>1
      <3>. QED BY <3>1, <3>2
    <2>6. \A i \in 1..n : i = 1 \/ i \in 2..n
      BY <1>1
    <2>7. 1 \in 1..n /\ (\A i \in 2..n : i \in 1..n /\ i > 1) /\ ~(1 > 1)
      BY <1>1
    <2>8. L(1) <=> A(1) /\ q[1].type = "Register" /\ \A j \in 2..n : ~A(j)
      <3>1. \A j \in 1..n : j > 1 <=> j \in 2..n
        BY <1>1
      <3>. QED BY <2>7, <3>1
    <2>9. (\A i \in 1..n : ~A(i)) <=> ~A(1) /\ \A i \in 2..n : ~A(i)
      <3> HIDE DEF A
      <3>. QED BY <2>6, <2>7
    <2>10. (\E i \in 1..n : L(i)) <=> L(1) \/ \E i \in 2..n : L(i)
      <3> HIDE DEF L
      <3>. QED BY <2>6, <2>7
    <2>11. m \in rs <=> \/ ~A(1) /\ m \in regs
                        \/ A(1) /\ q[1].type = "Register"
      BY <1>1 DEF About, RegStep, rs
    <2> HIDE DEF L, A
    <2>. QED BY <2>1, <2>4, <2>5, <2>8, <2>9, <2>10, <2>11
  <1>3. RegsAfter(rs, t) = RegsAfter(regs, q)
    <2>1. RegsAfter(rs, t) \subseteq MsgIDs /\ RegsAfter(regs, q) \subseteq MsgIDs
      BY DEF RegsAfter
    <2>. QED BY <1>2, <2>1
  <1>. QED BY <1>3 DEF rs, t, a

\* What one more message under way comes to.
LEMMA RegsAfterAppend ==
  ASSUME NEW q, IsSeq(q), NEW msg, NEW regs, NEW m \in MsgIDs
  PROVE  m \in RegsAfter(regs, Append(q, msg)) <=> m \in RegStep(RegsAfter(regs, q), msg)
  <1> DEFINE n == Len(q)
             t == Append(q, msg)
  <1>1. /\ n \in Nat /\ DOMAIN q = 1..n /\ DOMAIN t = 1..(n + 1) /\ t[n + 1] = msg
        /\ \A i \in 1..n : t[i] = q[i]
    BY SeqAppend, SeqFacts
  <1> HIDE DEF n, t
  <1> DEFINE A(i) == About(t[i], m)
             R(i) == t[i].type = "Register"
  <1>2. m \in RegsAfter(regs, t) <=>
          \/ m \in regs /\ \A i \in 1..(n + 1) : ~A(i)
          \/ \E i \in 1..(n + 1) : A(i) /\ R(i) /\ \A j \in 1..(n + 1) : j > i => ~A(j)
    BY <1>1 DEF RegsAfter
  <1>3. m \in RegsAfter(regs, q) <=>
          \/ m \in regs /\ \A i \in 1..n : ~A(i)
          \/ \E i \in 1..n : A(i) /\ R(i) /\ \A j \in 1..n : j > i => ~A(j)
    BY <1>1 DEF RegsAfter
  <1>4. m \in RegStep(RegsAfter(regs, q), msg) <=>
          \/ ~A(n + 1) /\ m \in RegsAfter(regs, q)
          \/ A(n + 1) /\ R(n + 1)
    BY <1>1 DEF About, RegStep
  <1> HIDE DEF A, R
  <1>5. n + 1 \in 1..(n + 1) /\ \A i \in 1..n : i \in 1..(n + 1) /\ n + 1 > i
    BY <1>1
  <1>6. \A i \in 1..(n + 1) : i = n + 1 \/ i \in 1..n
    BY <1>1
  <1>7. \A j \in 1..(n + 1) : ~(j > n + 1)
    BY <1>1
  <1>8. CASE A(n + 1)
    <2> DEFINE L(i) == A(i) /\ R(i) /\ \A j \in 1..(n + 1) : j > i => ~A(j)
    <2>1. L(n + 1) <=> R(n + 1)
      BY <1>7, <1>8
    <2>2. \A i \in 1..n : ~L(i)
      BY <1>5, <1>8
    <2>3. m \in RegsAfter(regs, t) <=> R(n + 1)
      <3> HIDE DEF L
      <3>1. (\E i \in 1..(n + 1) : L(i)) <=> R(n + 1)
        BY <1>5, <1>6, <2>1, <2>2
      <3>2. ~ \A i \in 1..(n + 1) : ~A(i)
        BY <1>5, <1>8
      <3>. QED BY <1>2, <3>1, <3>2 DEF L
    <2>. QED BY <1>4, <1>8, <2>3 DEF t
  <1>9. CASE ~A(n + 1)
    <2> DEFINE L(i) == A(i) /\ R(i) /\ \A j \in 1..(n + 1) : j > i => ~A(j)
               K(i) == A(i) /\ R(i) /\ \A j \in 1..n : j > i => ~A(j)
    <2>1. \A i \in 1..n : L(i) <=> K(i)
      BY <1>5, <1>6, <1>9
    <2>2. ~L(n + 1)
      BY <1>9
    <2>3. (\A i \in 1..(n + 1) : ~A(i)) <=> (\A i \in 1..n : ~A(i))
      BY <1>5, <1>6, <1>9
    <2>4. (\E i \in 1..(n + 1) : L(i)) <=> (\E i \in 1..n : K(i))
      <3> HIDE DEF L, K
      <3>. QED BY <1>5, <1>6, <2>1, <2>2
    <2>5. m \in RegsAfter(regs, t) <=> m \in RegsAfter(regs, q)
      BY <1>2, <1>3, <2>3, <2>4
    <2>. QED BY <1>4, <1>9, <2>5 DEF t
  <1>. QED BY <1>8, <1>9 DEF t

-----------------------------------------------------------------------------
\* what the manager, and what a client, has registered
Regs(p, k) == IF k \in DOMAIN p THEN p[k].registered ELSE {}
Regd(e)    == {m \in MsgIDs : e.registered[m] > 0}

\* R is what the client has registered, regs what the manager has, q the messages under way
AgreesAt(ph, R, regs, q) ==
  /\ ph = "open" => q = <<>> /\ regs = {}
  /\ ph = "wait" => RegsAfter(regs, q) \subseteq R
  /\ ph \in {"up", "group"} => RegsAfter(regs, q) = R

\* the invariant for one client e
EntryOK(e) ==
  /\ IsRec(e, CltFields) /\ e.phase \in {"idle", "open", "wait", "up", "group", "crashed"}
  /\ e.sendFailed \in BOOLEAN /\ e.registered \in [MsgIDs -> Nat]
Holds(c, e, s) == e.phase \notin Away => e.sock \in SockIDs /\ e.sock[1] = c /\ s[e.sock].cltOpen
Agrees(e, s, p) ==
  e.phase \notin Away /\ ~e.sendFailed /\ s[e.sock].mgrEnd # "closed" =>
    AgreesAt(e.phase, Regd(e), Regs(p, e.sock), s[e.sock].toMgr)
CltOK(c, e, s, p) == EntryOK(e) /\ Holds(c, e, s) /\ Agrees(e, s, p)

\* the manager's part, in terms of the variables
Pair(s, p) == [socks |-> s, proxies |-> p]
StateOK(s, p, g) == ManagerOK(Pair(s, p), g)

\* The inductive invariant
SessionInv ==
  /\ StateOK(socks, proxies, mgr)
  /\ IsFun(clt) /\ DOMAIN clt = Clients /\ \A c \in Clients : CltOK(c, clt[c], socks, proxies)

\* what the manager does to a socket that it does not close
Keeps(r, q, r2, q2) == /\ q = <<>> /\ r = {} => q2 = <<>> /\ r2 = {}
                       /\ RegsAfter(r2, q2) = RegsAfter(r, q)
SockKeeps(s, p, s2, p2, j) ==
  /\ s2[j].cltOpen = s[j].cltOpen
  /\ \/ s2[j].mgrEnd = "closed"
     \/ s[j].mgrEnd # "closed" /\ Keeps(Regs(p, j), s[j].toMgr, Regs(p2, j), s2[j].toMgr)
AllKeep(s, p, s2, p2) == \A j \in SockIDs : SockKeeps(s, p, s2, p2, j)

\* SockKeeps composes.
LEMMA KeepTwice ==
  ASSUME NEW s, NEW p, NEW s1, NEW p1, NEW s2, NEW p2, NEW j,
         SockKeeps(s, p, s1, p1, j), SockKeeps(s1, p1, s2, p2, j)
  PROVE  SockKeeps(s, p, s2, p2, j)
  BY DEF SockKeeps, Keeps

\* A client does not notice what the manager does, unless its socket is closed.
LEMMA KeepClients ==
  ASSUME NEW c, NEW e, NEW s, NEW p, NEW s2, NEW p2, CltOK(c, e, s, p), AllKeep(s, p, s2, p2)
  PROVE  CltOK(c, e, s2, p2)
  <1>1. EntryOK(e) /\ Holds(c, e, s) /\ Agrees(e, s, p)
    BY DEF CltOK
  <1>2. CASE e.phase \in Away
    BY <1>1, <1>2 DEF CltOK, Holds, Agrees
  <1>3. CASE e.phase \notin Away
    <2>1. e.sock \in SockIDs /\ e.sock[1] = c /\ s[e.sock].cltOpen
      BY <1>1, <1>3 DEF Holds
    <2>2. SockKeeps(s, p, s2, p2, e.sock)
      BY <2>1 DEF AllKeep
    <2>3. Holds(c, e, s2)
      BY <2>1, <2>2 DEF Holds, SockKeeps
    <2>4. ASSUME ~e.sendFailed, s2[e.sock].mgrEnd # "closed"
          PROVE  AgreesAt(e.phase, Regd(e), Regs(p2, e.sock), s2[e.sock].toMgr)
      <3>1. AgreesAt(e.phase, Regd(e), Regs(p, e.sock), s[e.sock].toMgr)
        BY <1>1, <1>3, <2>2, <2>4 DEF Agrees, SockKeeps
      <3>2. Keeps(Regs(p, e.sock), s[e.sock].toMgr, Regs(p2, e.sock), s2[e.sock].toMgr)
        BY <2>2, <2>4 DEF SockKeeps
      <3>. QED BY <3>1, <3>2 DEF AgreesAt, Keeps
    <2>5. Agrees(e, s2, p2)
      BY <2>4 DEF Agrees
    <2>. QED BY <1>1, <2>3, <2>5 DEF CltOK
  <1>. QED BY <1>2, <1>3

\* The socket and the proxies of a pair, and what makes it PairOK.
LEMMA PairParts ==
  ASSUME NEW s, NEW p
  PROVE  /\ Pair(s, p).socks = s /\ Pair(s, p).proxies = p
         /\ PairOK(Pair(s, p)) <=> SocksOK(s) /\ ProxiesOK(p)
  BY DEF Pair, PairOK, IsRec, PairFields

\* A pair is made of its two fields.
LEMMA PairIs ==
  ASSUME NEW m, PairOK(m)
  PROVE  m = Pair(m.socks, m.proxies)
  BY DEF PairOK, IsRec, PairFields, Pair

\* a manager step that leaves the state and the clients in order
LEMMA ManagerStep ==
  ASSUME SessionInv, StateOK(socks', proxies', mgr'), AllKeep(socks, proxies, socks', proxies'),
         UNCHANGED clt
  PROVE  SessionInv'
  <1>1. \A c \in Clients : CltOK(c, clt[c], socks', proxies')
    BY KeepClients DEF SessionInv
  <1>. QED BY <1>1 DEF SessionInv

\* A forgotten socket is in order.
LEMMA FreeSockOK == SockOK(FreeSock)
  <1>1. FreeSock.toMgr = <<>> /\ FreeSock.cltOpen = FALSE /\ IsRec(FreeSock, SockFields)
    BY DEF FreeSock, IsRec, SockFields
  <1>2. <<>> \in Seq({}) /\ DOMAIN <<>> = {}
    OBVIOUS
  <1>3. IsSeq(FreeSock.toMgr) /\ DOMAIN FreeSock.toMgr = {}
    BY <1>1, <1>2 DEF IsSeq
  <1>. QED BY <1>1, <1>3 DEF SockOK

\* Forget changes only sockets that both ends have closed.
LEMMA ForgetOK ==
  ASSUME NEW s, SocksOK(s), NEW t, t = Forget(s)
  PROVE  /\ SocksOK(t)
         /\ \A j \in SockIDs : /\ t[j].cltOpen = s[j].cltOpen /\ t[j].mgrEnd = s[j].mgrEnd
                               /\ s[j].cltOpen \/ s[j].mgrEnd # "closed" => t[j] = s[j]
  <1>1. /\ IsFun(t) /\ DOMAIN t = SockIDs
        /\ \A j \in SockIDs : t[j] = IF ~s[j].cltOpen /\ s[j].mgrEnd = "closed" THEN FreeSock ELSE s[j]
    BY DEF Forget, IsFun
  <1>2. \A j \in SockIDs : SockOK(s[j]) /\ s[j].cltOpen \in BOOLEAN
    BY DEF SocksOK, SockOK
  <1>3. FreeSock.cltOpen = FALSE /\ FreeSock.mgrEnd = "closed"
    BY DEF FreeSock
  <1>. QED BY <1>1, <1>2, <1>3, FreeSockOK DEF SocksOK

\* The end of a socket at the manager is closed
EndClosed(s, k) == Forget([s EXCEPT ![k].mgrEnd = "closed"])

\* The manager closes its end of a socket.
LEMMA CloseEnd ==
  ASSUME NEW s, SocksOK(s), NEW k \in SockIDs, NEW t, t = EndClosed(s, k)
  PROVE  /\ SocksOK(t) /\ t[k].mgrEnd = "closed" /\ t[k].cltOpen = s[k].cltOpen
         /\ \A j \in SockIDs : /\ t[j].cltOpen = s[j].cltOpen
                               /\ j # k => t[j].mgrEnd = s[j].mgrEnd
                               /\ j # k /\ s[j].mgrEnd # "closed" => t[j] = s[j]
  <1> DEFINE r == [s EXCEPT ![k].mgrEnd = "closed"]
  <1>1. /\ IsFun(r) /\ DOMAIN r = SockIDs /\ r[k] = [s[k] EXCEPT !.mgrEnd = "closed"]
        /\ \A j \in SockIDs : j # k => r[j] = s[j]
    BY DEF SocksOK, IsFun
  <1>2. t = Forget(r)
    BY DEF EndClosed
  <1> HIDE DEF r
  <1>3. \A j \in SockIDs : SockOK(s[j])
    BY DEF SocksOK
  <1>4. SockSent(s[k], r[k]) /\ r[k].mgrEnd = "closed"
    BY <1>1, <1>3, SockShuts
  <1>5. SocksOK(r)
    BY <1>1, <1>3, <1>4 DEF SocksOK, SockSent
  <1>6. \A j \in SockIDs : r[j].cltOpen = s[j].cltOpen
    BY <1>1, <1>4 DEF SockSent
  <1>7. /\ SocksOK(t)
        /\ \A j \in SockIDs : /\ t[j].cltOpen = r[j].cltOpen /\ t[j].mgrEnd = r[j].mgrEnd
                              /\ r[j].cltOpen \/ r[j].mgrEnd # "closed" => t[j] = r[j]
    BY <1>2, <1>5, ForgetOK
  <1>. QED BY <1>1, <1>4, <1>6, <1>7

-----------------------------------------------------------------------------
\* A handler does not disturb the clients of the other sockets.
LEMMA SendsKeep ==
  ASSUME NEW m, NEW n, NEW k, PairOK(m), EndsOK(m), Handled(m, n, k)
  PROVE  \A j \in SockIDs : j # k => SockKeeps(m.socks, m.proxies, n.socks, n.proxies, j)
  <1> SUFFICES ASSUME NEW j \in SockIDs, j # k
               PROVE  SockKeeps(m.socks, m.proxies, n.socks, n.proxies, j)
    OBVIOUS
  <1>1. /\ n.socks[j].cltOpen = m.socks[j].cltOpen /\ n.socks[j].toMgr = m.socks[j].toMgr
        /\ n.socks[j].mgrEnd = m.socks[j].mgrEnd \/ j \in DOMAIN m.proxies
        /\ DOMAIN n.proxies = DOMAIN m.proxies
    BY DEF Handled, SockSent, EndSent
  <1>2. j \in DOMAIN m.proxies => m.socks[j].mgrEnd # "closed"
    BY DEF EndsOK
  <1>3. Regs(n.proxies, j) = Regs(m.proxies, j)
    BY <1>1 DEF Handled, Regs, ProxySent
  <1>. QED BY <1>1, <1>2, <1>3 DEF SockKeeps, Keeps

\* DeleteClient, wherever it is called: only the client that it deletes is affected.
LEMMA DeleteClientOK ==
  ASSUME NEW m, NEW g, ManagerOK(m, g), NEW k \in DOMAIN m.proxies, DeleteClient(m, g, k)
  PROVE  /\ StateOK(socks', proxies', mgr') /\ AllKeep(m.socks, m.proxies, socks', proxies')
         /\ socks'[k].mgrEnd = "closed"
  <1> DEFINE p     == m.proxies[k]
             dereg == RegMsg("Deregister", p.clientID, p.groupID, p.registered)
             w     == FnWithout(m.proxies, {k})
             m1    == [m EXCEPT !.proxies = w]
             m2    == IF p.registered = {} THEN m1 ELSE SendRegistration(m1, dereg)
  <1>0. /\ PairOK(m) /\ EndsOK(m) /\ MgrOK(g) /\ Counted(g.groups, m.proxies) /\ Distinct(m.proxies)
        /\ IsRec(m, PairFields) /\ SocksOK(m.socks) /\ ProxiesOK(m.proxies) /\ k \in SockIDs
    BY DEF ManagerOK, PairOK, ProxiesOK
  <1>1. /\ mgr' = DecGroupID(g, p.groupID)
        /\ socks' = Forget([m2.socks EXCEPT ![k].mgrEnd = "closed"])
        /\ proxies' = m2.proxies
    BY DEF DeleteClient
  <1>2. IsRec(m1, PairFields) /\ m1.socks = m.socks /\ m1.proxies = w
    BY <1>0 DEF IsRec, PairFields
  <1>3. /\ IsFun(w) /\ DOMAIN w = DOMAIN m.proxies \ {k}
        /\ \A j \in DOMAIN m.proxies : j # k => w[j] = m.proxies[j]
    BY DEF FnWithout, IsFun
  <1> HIDE DEF m1, w
  <1>4. IsFiniteSet(DOMAIN w)
    BY <1>0, <1>3, FS_RemoveElement DEF ProxiesOK
  <1>5. ProxiesOK(w)
    BY <1>0, <1>3, <1>4 DEF ProxiesOK
  <1>6. PairOK(m1)
    BY <1>0, <1>2, <1>5 DEF PairOK
  <1>7. Sends(m1, m2)
    BY <1>6, SendsNothing, SendRegistrationOK
  <1> HIDE DEF m2
  <1>8. /\ SocksOK(m2.socks) /\ ProxiesOK(m2.proxies)
        /\ DOMAIN m2.proxies = DOMAIN m.proxies \ {k}
        /\ \A j \in DOMAIN m2.proxies : ProxySent(m.proxies[j], m2.proxies[j])
        /\ \A j \in SockIDs : /\ m2.socks[j].cltOpen = m.socks[j].cltOpen
                              /\ m2.socks[j].toMgr = m.socks[j].toMgr
                              /\ \/ m2.socks[j].mgrEnd = m.socks[j].mgrEnd
                                 \/ m2.socks[j].mgrEnd = "shut" /\ j \in DOMAIN m2.proxies
    BY <1>2, <1>3, <1>7 DEF Sends, PairOK, SockSent, EndSent
  <1>9. /\ SocksOK(socks') /\ socks'[k].mgrEnd = "closed"
        /\ \A j \in SockIDs : /\ socks'[j].cltOpen = m2.socks[j].cltOpen
                              /\ j # k => socks'[j].mgrEnd = m2.socks[j].mgrEnd
                              /\ j # k /\ m2.socks[j].mgrEnd # "closed" => socks'[j] = m2.socks[j]
    <2> DEFINE r == m2.socks
               t == socks'
    <2>1. SocksOK(r) /\ t = EndClosed(r, k)
      BY <1>1, <1>8 DEF EndClosed
    <2> HIDE DEF r, t
    <2>2. /\ SocksOK(t) /\ t[k].mgrEnd = "closed"
          /\ \A j \in SockIDs : /\ t[j].cltOpen = r[j].cltOpen
                                /\ j # k => t[j].mgrEnd = r[j].mgrEnd
                                /\ j # k /\ r[j].mgrEnd # "closed" => t[j] = r[j]
      BY <1>0, <2>1, CloseEnd
    <2>. QED BY <2>2 DEF r, t
  <1>10. EndsOK(Pair(socks', proxies'))
    BY <1>0, <1>1, <1>8, <1>9, PairParts DEF EndsOK
  <1>11. MgrOK(mgr') /\ Counted(mgr'.groups, proxies')
    <2>1. \A j \in DOMAIN proxies' : proxies'[j].groupID = m.proxies[j].groupID
      BY <1>1, <1>8 DEF ProxySent
    <2>2. DOMAIN proxies' = DOMAIN m.proxies \ {k}
      BY <1>1, <1>8
    <2> DEFINE q == proxies'
               n == mgr'
    <2>3. n = DecGroupID(g, m.proxies[k].groupID)
      BY <1>1
    <2>4. DOMAIN q = DOMAIN m.proxies \ {k} /\ \A j \in DOMAIN q : q[j].groupID = m.proxies[j].groupID
      BY <2>1, <2>2
    <2> HIDE DEF q, n
    <2>5. MgrOK(n) /\ Counted(n.groups, q)
      <3> DEFINE pp == m.proxies
      <3>1. ProxiesOK(pp) /\ Counted(g.groups, pp) /\ k \in DOMAIN pp /\ n = DecGroupID(g, pp[k].groupID)
        BY <1>0, <2>3
      <3>2. DOMAIN q = DOMAIN pp \ {k} /\ SameGroups(pp, q)
        BY <2>4 DEF SameGroups
      <3> HIDE DEF pp
      <3>. QED BY <1>0, <3>1, <3>2, Leaves
    <2>. QED BY <2>5 DEF q, n
  <1>12. StateOK(socks', proxies', mgr')
    <2>1. Distinct(proxies')
      BY <1>0, <1>1, <1>8 DEF Distinct, ProxySent
    <2>. QED BY <1>1, <1>8, <1>9, <1>10, <1>11, <2>1, PairParts DEF StateOK, ManagerOK
  <1>13. ASSUME NEW j \in SockIDs
         PROVE  SockKeeps(m.socks, m.proxies, socks', proxies', j)
    <2>1. CASE j = k
      BY <1>8, <1>9, <2>1 DEF SockKeeps
    <2>2. CASE j # k
      <3>1. Regs(proxies', j) = Regs(m.proxies, j)
        BY <1>1, <1>8, <2>2 DEF Regs, ProxySent
      <3>2. m2.socks[j].mgrEnd # "closed" => m.socks[j].mgrEnd # "closed" /\ socks'[j].toMgr = m.socks[j].toMgr
        BY <1>0, <1>8, <1>9, <2>2 DEF EndsOK
      <3>3. socks'[j].cltOpen = m.socks[j].cltOpen /\ socks'[j].mgrEnd = m2.socks[j].mgrEnd
        BY <1>8, <1>9, <2>2
      <3>. QED BY <3>1, <3>2, <3>3 DEF SockKeeps, Keeps
    <2>. QED BY <2>1, <2>2
  <1>. QED BY <1>9, <1>12, <1>13 DEF AllKeep

\* A message is handled, or the end of the stream.
LEMMA ReadableStep ==
  ASSUME SessionInv, NEW k \in SockIDs, Readable(k)
  PROVE  SessionInv'
  <1> DEFINE s == socks
             p == proxies
  <1>0. /\ ManagerOK(M, mgr) /\ M.socks = s /\ M.proxies = p /\ k \in DOMAIN p
        /\ PairOK(M) /\ EndsOK(M) /\ Distinct(p) /\ MgrOK(mgr) /\ Counted(mgr.groups, p) /\ SocksOK(s) /\ ProxiesOK(p)
    <2>1. M = Pair(socks, proxies)
      BY DEF M, Pair
    <2>. QED BY <2>1, PairParts DEF SessionInv, StateOK, ManagerOK, Readable
  <1>1. CASE s[k].toMgr = <<>> /\ DeleteClient(M, mgr, k)
    BY <1>0, <1>1, DeleteClientOK, ManagerStep DEF Readable
  <1>2. CASE s[k].toMgr # <<>>
    <2> DEFINE q   == s[k].toMgr
               m0  == [M EXCEPT !.socks[k].toMgr = Tail(@)]
               msg == Head(q)
               u   == [s[k] EXCEPT !.toMgr = Tail(q)]
    <2>1. PICK h : /\ h = Handle(m0, k, msg)
                   /\ IF h.throws THEN DeleteClient(h.m, h.g, k)
                      ELSE socks' = h.m.socks /\ proxies' = h.m.proxies /\ mgr' = h.g
      BY <1>2 DEF Readable
    <2>2. IsRec(M, PairFields)
      BY <1>0 DEF PairOK
    <2>3. IsRec(m0, PairFields) /\ m0.proxies = p /\ m0.socks = [s EXCEPT ![k] = u]
      BY <1>0, <2>2 DEF IsRec, PairFields
    <2> HIDE DEF m0
    <2>4. /\ IsFun(m0.socks) /\ DOMAIN m0.socks = SockIDs /\ m0.socks[k] = u
          /\ \A j \in SockIDs : j # k => m0.socks[j] = s[j]
      BY <1>0, <2>3 DEF SocksOK, IsFun
    <2>5. SockOK(s[k]) /\ IsSeq(q) /\ \A i \in DOMAIN q : q[i].type \in ToMgrTypes
      BY <1>0 DEF SocksOK, SockOK
    <2>6. /\ IsSeq(Tail(q)) /\ msg.type \in ToMgrTypes
          /\ \A i \in DOMAIN Tail(q) : Tail(q)[i].type \in ToMgrTypes
      <3>1. /\ IsSeq(Tail(q)) /\ Len(q) \in Nat \ {0} /\ Len(Tail(q)) = Len(q) - 1
            /\ Head(q) = q[1] /\ \A i \in 1..(Len(q) - 1) : Tail(q)[i] = q[i + 1]
        BY <1>2, <2>5, SeqTail
      <3>2. DOMAIN q = 1..Len(q) /\ DOMAIN Tail(q) = 1..(Len(q) - 1)
        BY <2>5, <3>1, SeqFacts
      <3> DEFINE n == Len(q)
                 t == Tail(q)
      <3>3. n \in Nat \ {0} /\ DOMAIN q = 1..n /\ DOMAIN t = 1..(n - 1) /\ \A i \in 1..(n - 1) : t[i] = q[i + 1]
        BY <3>1, <3>2
      <3> HIDE DEF n, t, q
      <3>4. \A i \in DOMAIN t : t[i].type \in ToMgrTypes
        BY <2>5, <3>3
      <3>5. q[1].type \in ToMgrTypes
        BY <2>5, <3>3
      <3>. QED BY <3>1, <3>4, <3>5 DEF t
    <2>7. /\ SockOK(u) /\ u.toMgr = Tail(q) /\ u.cltOpen = s[k].cltOpen /\ u.mgrEnd = s[k].mgrEnd
      <3>1. /\ IsRec(u, SockFields) /\ u.toMgr = Tail(q) /\ u.cltOpen = s[k].cltOpen
            /\ u.mgrEnd = s[k].mgrEnd
        BY <2>5 DEF SockOK, IsRec, SockFields
      <3> HIDE DEF u
      <3>. QED BY <2>5, <2>6, <3>1 DEF SockOK
    <2> HIDE DEF u
    <2>8. SocksOK(m0.socks)
      BY <1>0, <2>4, <2>7 DEF SocksOK
    <2>9. PairOK(m0) /\ EndsOK(m0) /\ Counted(mgr.groups, m0.proxies) /\ k \in DOMAIN m0.proxies
      BY <1>0, <2>3, <2>4, <2>7, <2>8 DEF PairOK, EndsOK
    <2>10. HandlesOK(m0, k, msg, h)
      <3> HIDE DEF msg
      <3>. QED BY <1>0, <2>1, <2>6, <2>9, HandleOK
    <2>11. /\ Handled(m0, h.m, k) /\ MgrOK(h.g) /\ Counted(h.g.groups, h.m.proxies)
           /\ h.m.proxies[k].clientID = p[k].clientID
           /\ h.throws \/ h.m.proxies[k].registered = RegStep(p[k].registered, msg)
      BY <2>3, <2>10 DEF HandlesOK
    <2>12. /\ PairOK(h.m) /\ DOMAIN h.m.proxies = DOMAIN p
           /\ \A j \in SockIDs : SockSent(m0.socks[j], h.m.socks[j]) /\ EndSent(m0, h.m, j)
      BY <2>3, <2>11 DEF Handled
    <2>13. EndsOK(h.m)
      BY <2>3, <2>9, <2>12, EndsKept
    <2>14. ManagerOK(h.m, h.g)
      <3>1. \A j \in DOMAIN p : h.m.proxies[j].clientID = p[j].clientID
        BY <2>3, <2>11 DEF Handled, ProxySent
      <3>2. Distinct(h.m.proxies)
        BY <1>0, <2>12, <3>1 DEF Distinct
      <3>. QED BY <2>11, <2>12, <2>13, <3>2 DEF ManagerOK
    <2>15. \A j \in SockIDs : j # k => SockKeeps(s, p, h.m.socks, h.m.proxies, j)
      <3>1. \A j \in SockIDs : j # k => SockKeeps(m0.socks, m0.proxies, h.m.socks, h.m.proxies, j)
        BY <2>9, <2>11, SendsKeep
      <3>. QED BY <2>3, <2>4, <3>1 DEF SockKeeps
    <2>16. CASE h.throws
      <3>1. DeleteClient(h.m, h.g, k)
        BY <2>1, <2>16
      <3>2. k \in DOMAIN h.m.proxies
        BY <1>0, <2>12
      <3>3. StateOK(socks', proxies', mgr') /\ AllKeep(h.m.socks, h.m.proxies, socks', proxies')
        BY <2>14, <3>1, <3>2, DeleteClientOK
      <3>4. socks'[k].mgrEnd = "closed"
        BY <2>14, <3>1, <3>2, DeleteClientOK
      <3>5. \A j \in SockIDs : SockKeeps(s, p, socks', proxies', j)
        <4>1. ASSUME NEW j \in SockIDs, j # k
              PROVE  SockKeeps(s, p, socks', proxies', j)
          <5>1. SockKeeps(h.m.socks, h.m.proxies, socks', proxies', j)
            BY <3>3 DEF AllKeep
          <5>2. SockKeeps(s, p, h.m.socks, h.m.proxies, j)
            BY <2>15, <4>1
          <5> DEFINE s1 == h.m.socks
                     p1 == h.m.proxies
                     s2 == socks'
                     p2 == proxies'
          <5>3. SockKeeps(s, p, s1, p1, j) /\ SockKeeps(s1, p1, s2, p2, j)
            BY <5>1, <5>2
          <5> HIDE DEF s1, p1, s2, p2
          <5>4. SockKeeps(s, p, s2, p2, j)
            BY <5>3, KeepTwice
          <5>. QED BY <5>4 DEF s2, p2
        <4>2. SockKeeps(s, p, socks', proxies', k)
          <5>1. socks'[k].cltOpen = h.m.socks[k].cltOpen
            BY <3>3 DEF AllKeep, SockKeeps
          <5>2. h.m.socks[k].cltOpen = s[k].cltOpen
            BY <2>4, <2>7, <2>12 DEF SockSent
          <5>. QED BY <3>4, <5>1, <5>2 DEF SockKeeps
        <4>. QED BY <4>1, <4>2
      <3>. QED BY <3>3, <3>5, ManagerStep DEF AllKeep, Readable
    <2>17. CASE ~h.throws
      <3>1. socks' = h.m.socks /\ proxies' = h.m.proxies /\ mgr' = h.g
        BY <2>1, <2>17
      <3>2. StateOK(socks', proxies', mgr')
        BY <2>12, <2>14, <3>1, PairIs DEF StateOK
      <3>3. SockKeeps(s, p, socks', proxies', k)
        <4>1. socks'[k].cltOpen = s[k].cltOpen /\ socks'[k].toMgr = Tail(q) /\ s[k].mgrEnd # "closed"
          BY <1>0, <2>4, <2>7, <2>12, <3>1 DEF SockSent, EndsOK
        <4>2. Regs(proxies', k) = RegStep(p[k].registered, msg) /\ Regs(p, k) = p[k].registered
          BY <1>0, <2>11, <2>12, <2>17, <3>1 DEF Regs
        <4>3. RegsAfter(RegStep(p[k].registered, msg), Tail(q)) = RegsAfter(p[k].registered, q)
          BY <1>2, <2>5, RegsAfterTail
        <4>. QED BY <1>2, <4>1, <4>2, <4>3 DEF SockKeeps, Keeps
      <3>4. AllKeep(s, p, socks', proxies')
        BY <2>15, <3>1, <3>3 DEF AllKeep
      <3>. QED BY <3>2, <3>4, ManagerStep DEF Readable
    <2>. QED BY <2>16, <2>17
  <1>. QED BY <1>1, <1>2 DEF Readable

\* A new client's ID is one that no client has
LEMMA GetNewClientIDOK ==
  ASSUME MgrOK(mgr), ProxiesOK(proxies), ~(Cardinality(DOMAIN proxies) >= maxNumClients)
  PROVE  /\ GetNewClientID \in 0..kMaxClientID
         /\ \A j \in DOMAIN proxies : proxies[j].clientID # GetNewClientID
  <1> DEFINE K  == kMaxClientID + 1
             b  == mgr.nextNewClientID
             D  == DOMAIN proxies
             id == [k \in D |-> proxies[k].clientID]
             S  == {n \in 0..kMaxClientID : (b + n) % K \notin ClientIDs(proxies)}
             n  == Min(S)
  <1>1. /\ K \in Nat \ {0} /\ b \in Nat /\ IsFiniteSet(D) /\ kMaxClientID \in Nat
        /\ kMaxClientID = K - 1
    BY Constants DEF MgrOK, ProxiesOK
  <1>2. Cardinality(D) < K
    <2>1. Cardinality(D) \in Nat
      BY <1>1, FS_CardinalityType
    <2>. QED BY <2>1, Constants
  <1>3. S = Free(K, b, D, id)
    <2>1. \A x : x \in ClientIDs(proxies) <=> \E d \in D : id[d] = x
      BY DEF ClientIDs
    <2> HIDE DEF K, b, D, id
    <2>. QED BY <1>1, <2>1 DEF Free
  <1>4. n \in S
    <2> HIDE DEF K, b, D, id, S
    <2>. QED BY <1>1, <1>2, <1>3, FreeID
  <1>5. GetNewClientID = (b + n) % K
    BY Zenon DEF GetNewClientID
  <1> HIDE DEF n
  <1>6. n \in Nat /\ (b + n) % K \notin ClientIDs(proxies)
    BY <1>1, <1>4
  <1> DEFINE v == (b + n) % K
  <1>7. v \in Nat /\ v < K
    <2> HIDE DEF K, b
    <2>. QED BY <1>1, <1>6
  <1>8. GetNewClientID = v /\ v \notin ClientIDs(proxies)
    BY <1>5, <1>6
  <1> HIDE DEF v, K
  <1>. QED BY <1>1, <1>7, <1>8 DEF ClientIDs

\* Accepting a client that has gone, or one too many: the socket is closed
LEMMA RefuseStep ==
  ASSUME SessionInv, NEW k \in SockIDs, socks[k].mgrEnd = "backlog", socks' = Refuse(k),
         UNCHANGED <<proxies, clt>>, MgrOK(mgr'), mgr'.groups = mgr.groups
  PROVE  SessionInv'
  <1>0. SocksOK(socks) /\ ProxiesOK(proxies) /\ EndsOK(Pair(socks, proxies)) /\ Counted(mgr.groups, proxies)
        /\ Distinct(proxies)
    BY PairParts DEF SessionInv, StateOK, ManagerOK
  <1>1. socks' = EndClosed(socks, k)
    BY DEF Refuse, EndClosed
  <1>2. /\ SocksOK(socks') /\ socks'[k].mgrEnd = "closed"
        /\ \A j \in SockIDs : /\ socks'[j].cltOpen = socks[j].cltOpen
                              /\ j # k => socks'[j].mgrEnd = socks[j].mgrEnd
                              /\ j # k /\ socks[j].mgrEnd # "closed" => socks'[j] = socks[j]
    <2> DEFINE r == socks
               t == socks'
    <2>1. SocksOK(r) /\ t = EndClosed(r, k)
      BY <1>0, <1>1
    <2> HIDE DEF r, t
    <2>2. /\ SocksOK(t) /\ t[k].mgrEnd = "closed"
          /\ \A j \in SockIDs : /\ t[j].cltOpen = r[j].cltOpen
                                /\ j # k => t[j].mgrEnd = r[j].mgrEnd
                                /\ j # k /\ r[j].mgrEnd # "closed" => t[j] = r[j]
      BY <2>1, CloseEnd
    <2>. QED BY <2>2 DEF r, t
  <1>3. EndsOK(Pair(socks', proxies))
    BY <1>0, <1>2, PairParts DEF EndsOK
  <1>4. StateOK(socks', proxies', mgr')
    BY <1>0, <1>2, <1>3, PairParts DEF StateOK, ManagerOK
  <1>5. AllKeep(socks, proxies, socks', proxies')
    BY <1>2 DEF AllKeep, SockKeeps, Keeps
  <1>. QED BY <1>4, <1>5, ManagerStep

\* A client is accepted.
LEMMA AcceptStep ==
  ASSUME SessionInv, NEW k \in SockIDs, Accept(k)
  PROVE  SessionInv'
  <1>0. /\ SocksOK(socks) /\ ProxiesOK(proxies) /\ EndsOK(Pair(socks, proxies))
        /\ Counted(mgr.groups, proxies) /\ MgrOK(mgr) /\ Distinct(proxies)
        /\ socks[k].mgrEnd = "backlog" /\ UNCHANGED clt
    BY PairParts DEF SessionInv, StateOK, ManagerOK, Accept
  <1>1. CASE Cardinality(DOMAIN proxies) >= maxNumClients
    BY <1>0, <1>1, RefuseStep DEF Accept
  <1>2. CASE ~(Cardinality(DOMAIN proxies) >= maxNumClients)
    <2>1. mgr' = [mgr EXCEPT !.nextNewClientID = (GetNewClientID + 1) % (kMaxClientID + 1)]
      BY <1>2 DEF Accept
    <2>2. MgrOK(mgr') /\ mgr'.groups = mgr.groups
      <3> DEFINE x == (GetNewClientID + 1) % (kMaxClientID + 1)
      <3> HIDE DEF x
      <3>1. /\ IsRec(mgr', MgrFields) /\ mgr'.nextNewGroupID = mgr.nextNewGroupID
            /\ mgr'.groups = mgr.groups /\ mgr'.nextNewClientID = x
        BY <1>0, <2>1 DEF MgrOK, IsRec, MgrFields, x
      <3>2. x \in Nat
        <4> DEFINE id == GetNewClientID
                   K  == kMaxClientID + 1
        <4>1. id \in Nat /\ K \in Nat \ {0}
          BY <1>0, <1>2, GetNewClientIDOK, Constants
        <4> HIDE DEF id, K
        <4>2. (id + 1) % K \in Nat
          BY <4>1
        <4>. QED BY <4>2 DEF id, K, x
      <3>. QED BY <1>0, <3>1, <3>2 DEF MgrOK
    <2>3. CASE ~socks[k].cltOpen
      BY <1>0, <1>2, <2>2, <2>3, RefuseStep DEF Accept
    <2>4. CASE socks[k].cltOpen
      <3> DEFINE p  == [clientID |-> GetNewClientID, groupID |-> 0, registered |-> {},
                        wantRegistrations |-> FALSE, sendFailed |-> FALSE]
                 r  == [socks EXCEPT ![k].mgrEnd = "open"]
                 w  == FnWith(proxies, k, p)
                 m  == Pair(r, w)
                 n  == SendBy(m, k, k, [type |-> "ClientID", id |-> p.clientID])
      <3>1. socks' = n.socks /\ proxies' = n.proxies
        BY <1>2, <2>4 DEF Accept, Pair
      <3>2. /\ ProxyOK(p) /\ p.groupID = 0 /\ p.registered = {}
            /\ \A j \in DOMAIN proxies : proxies[j].clientID # p.clientID
        <4> DEFINE id == GetNewClientID
        <4>0. id \in 0..kMaxClientID /\ \A j \in DOMAIN proxies : proxies[j].clientID # id
          BY <1>0, <1>2, GetNewClientIDOK
        <4> HIDE DEF id
        <4>1. p = [clientID |-> id, groupID |-> 0, registered |-> {},
                   wantRegistrations |-> FALSE, sendFailed |-> FALSE]
          BY DEF id
        <4> HIDE DEF p
        <4>2. p.groupID = 0 /\ p.registered = {} /\ p.clientID = id
          BY <4>1
        <4>3. IsRec(p, ProxyFields)
          BY <4>1 DEF IsRec, ProxyFields
        <4>. QED BY <4>0, <4>2, <4>3 DEF ProxyOK
      <3> HIDE DEF p
      <3>3. k \notin DOMAIN proxies
        BY <1>0, PairParts DEF EndsOK
      <3>4. /\ IsFun(w) /\ DOMAIN w = DOMAIN proxies \cup {k} /\ w[k] = p
            /\ \A j \in DOMAIN proxies : w[j] = proxies[j]
        BY <3>3 DEF FnWith, IsFun
      <3>5. /\ IsFun(r) /\ DOMAIN r = SockIDs /\ r[k] = [socks[k] EXCEPT !.mgrEnd = "open"]
            /\ \A j \in SockIDs : j # k => r[j] = socks[j]
        BY <1>0 DEF SocksOK, IsFun
      <3> HIDE DEF w, r
      <3>6. SockSent(socks[k], r[k]) /\ r[k].mgrEnd = "open"
        BY <1>0, <3>5, SockShuts DEF SocksOK
      <3>7. SocksOK(r)
        BY <1>0, <3>5, <3>6 DEF SocksOK, SockSent
      <3>8. IsFiniteSet(DOMAIN w)
        BY <1>0, <3>4, FS_AddElement DEF ProxiesOK
      <3>9. ProxiesOK(w)
        BY <1>0, <3>2, <3>4, <3>8 DEF ProxiesOK
      <3>10. PairOK(m) /\ m.socks = r /\ m.proxies = w
        BY <3>7, <3>9, PairParts
      <3>11. EndsOK(m)
        <4>1. \A j \in SockIDs : j \in DOMAIN proxies <=> socks[j].mgrEnd \in {"open", "shut"}
          BY <1>0, PairParts DEF EndsOK
        <4>2. \A j \in SockIDs : j # k => (j \in DOMAIN w <=> r[j].mgrEnd \in {"open", "shut"})
          BY <3>4, <3>5, <4>1
        <4>3. k \in DOMAIN w /\ r[k].mgrEnd \in {"open", "shut"}
          BY <3>4, <3>6
        <4>. QED BY <3>10, <4>2, <4>3 DEF EndsOK
      <3>12. Counted(mgr.groups, w)
        <4>1. \A x \in DOMAIN mgr.groups : mgr.groups[x].gid \in Nat \ {0}
          BY <1>0 DEF MgrOK, GroupsOK, Group
        <4>2. \A x \in DOMAIN mgr.groups :
                Members(w, mgr.groups[x].gid) = Members(proxies, mgr.groups[x].gid)
          BY <3>2, <3>3, <3>4, <4>1 DEF Members
        <4>. QED BY <1>0, <3>2, <3>4, <4>2 DEF Counted
      <3> HIDE DEF m
      <3>19. Distinct(w)
        BY <1>0, <3>2, <3>4 DEF Distinct
      <3>13. Sends(m, n)
        BY <3>4, <3>10, SendByOK
      <3> HIDE DEF n
      <3>14. /\ PairOK(n) /\ DOMAIN n.proxies = DOMAIN w
             /\ \A j \in SockIDs : SockSent(r[j], n.socks[j]) /\ EndSent(m, n, j)
             /\ \A j \in DOMAIN w : ProxySent(w[j], n.proxies[j])
        BY <3>10, <3>13 DEF Sends
      <3>15. EndsOK(n)
        BY <3>10, <3>11, <3>14, EndsKept
      <3>16. Counted(mgr.groups, n.proxies)
        BY <3>12, <3>14, CountedSame DEF ProxySent
      <3>17. StateOK(socks', proxies', mgr')
        <4>1. Distinct(n.proxies)
          BY <3>19, <3>14 DEF Distinct, ProxySent
        <4>. QED BY <2>2, <3>1, <3>14, <3>15, <3>16, <4>1, PairIs DEF StateOK, ManagerOK
      <3>18. ASSUME NEW j \in SockIDs
             PROVE  SockKeeps(socks, proxies, socks', proxies', j)
        <4>1. /\ socks'[j].toMgr = socks[j].toMgr /\ socks'[j].cltOpen = socks[j].cltOpen
          BY <3>1, <3>5, <3>6, <3>14 DEF SockSent
        <4>2. Regs(proxies', j) = Regs(proxies, j)
          BY <3>1, <3>2, <3>3, <3>4, <3>14 DEF Regs, ProxySent
        <4>3. socks[j].mgrEnd = "closed" => socks'[j].mgrEnd = "closed"
          <5>1. CASE j = k
            BY <1>0, <5>1
          <5>2. CASE j # k
            <6>1. j \in DOMAIN m.proxies => socks[j].mgrEnd # "closed"
              BY <3>5, <3>10, <3>11, <5>2 DEF EndsOK
            <6>2. socks'[j].mgrEnd = socks[j].mgrEnd \/ j \in DOMAIN m.proxies
              BY <3>1, <3>5, <3>10, <3>14, <5>2 DEF EndSent
            <6>. QED BY <6>1, <6>2
          <5>. QED BY <5>1, <5>2
        <4>. QED BY <4>1, <4>2, <4>3 DEF SockKeeps, Keeps
      <3>. QED BY <1>0, <3>17, <3>18, ManagerStep DEF AllKeep
    <2>. QED BY <2>3, <2>4
  <1>. QED BY <1>1, <1>2

\* The manager ends.
LEMMA StopStep ==
  ASSUME SessionInv, Stop
  PROVE  SessionInv'
  <1>0. SocksOK(socks)
    BY PairParts DEF SessionInv, StateOK, ManagerOK
  <1> DEFINE r == [k \in SockIDs |-> [socks[k] EXCEPT !.mgrEnd = "closed"]]
  <1>1. /\ mgr' = [up |-> FALSE, nextNewClientID |-> 0, nextNewGroupID |-> 1, groups |-> <<>>]
        /\ socks' = Forget(r) /\ proxies' = <<>> /\ UNCHANGED clt
    BY DEF Stop
  <1>2. IsFun(r) /\ DOMAIN r = SockIDs /\ \A k \in SockIDs : r[k] = [socks[k] EXCEPT !.mgrEnd = "closed"]
    BY DEF IsFun
  <1> HIDE DEF r
  <1>3. \A k \in SockIDs : SockSent(socks[k], r[k]) /\ r[k].mgrEnd = "closed"
    <2> TAKE k \in SockIDs
    <2> DEFINE s == socks[k]
               t == r[k]
    <2>1. SockOK(s) /\ t = [s EXCEPT !.mgrEnd = "closed"]
      BY <1>0, <1>2 DEF SocksOK
    <2> HIDE DEF s, t
    <2>2. SockSent(s, t) /\ t.mgrEnd = "closed"
      BY <2>1, SockShuts
    <2>. QED BY <2>2 DEF s, t
  <1>4. SocksOK(r)
    BY <1>2, <1>3 DEF SocksOK, SockSent
  <1>5. /\ SocksOK(socks')
        /\ \A j \in SockIDs : socks'[j].cltOpen = r[j].cltOpen /\ socks'[j].mgrEnd = r[j].mgrEnd
    <2> DEFINE t == socks'
    <2>1. t = Forget(r)
      BY <1>1
    <2> HIDE DEF t
    <2>2. SocksOK(t) /\ \A j \in SockIDs : t[j].cltOpen = r[j].cltOpen /\ t[j].mgrEnd = r[j].mgrEnd
      BY <1>4, <2>1, ForgetOK
    <2>. QED BY <2>2 DEF t
  <1>6. DOMAIN proxies' = {} /\ IsFun(proxies')
    BY <1>1 DEF IsFun
  <1>7. ProxiesOK(proxies')
    BY <1>6, FS_EmptySet DEF ProxiesOK
  <1>8. /\ mgr'.groups = <<>> /\ IsRec(mgr', MgrFields) /\ mgr'.nextNewGroupID = 1
        /\ mgr'.nextNewClientID = 0
    BY <1>1 DEF IsRec, MgrFields
  <1>9. DOMAIN mgr'.groups = {} /\ IsFun(mgr'.groups)
    BY <1>8 DEF IsFun
  <1>10. MgrOK(mgr')
    BY <1>8, <1>9, FS_EmptySet DEF MgrOK, GroupsOK
  <1>11. Counted(mgr'.groups, proxies')
    BY <1>6, <1>9 DEF Counted
  <1>12. EndsOK(Pair(socks', proxies'))
    BY <1>3, <1>5, <1>6, PairParts DEF EndsOK
  <1>13. StateOK(socks', proxies', mgr')
    <2>1. Distinct(proxies')
      BY <1>6 DEF Distinct
    <2>. QED BY <1>5, <1>7, <1>10, <1>11, <1>12, <2>1, PairParts DEF StateOK, ManagerOK
  <1>14. AllKeep(socks, proxies, socks', proxies')
    BY <1>3, <1>5 DEF AllKeep, SockKeeps, SockSent
  <1>. QED BY <1>1, <1>13, <1>14, ManagerStep

\* The manager is started again.
LEMMA StartStep ==
  ASSUME SessionInv, Start
  PROVE  SessionInv'
  <1>0. /\ PairOK(Pair(socks, proxies)) /\ EndsOK(Pair(socks, proxies)) /\ Counted(mgr.groups, proxies)
        /\ MgrOK(mgr) /\ Distinct(proxies)
    BY PairParts DEF SessionInv, StateOK, ManagerOK
  <1>1. mgr' = [mgr EXCEPT !.up = TRUE] /\ UNCHANGED <<clt, socks, proxies>>
    BY DEF Start
  <1>2. /\ IsRec(mgr', MgrFields) /\ mgr'.nextNewGroupID = mgr.nextNewGroupID
        /\ mgr'.groups = mgr.groups /\ mgr'.nextNewClientID = mgr.nextNewClientID
    BY <1>0, <1>1 DEF MgrOK, IsRec, MgrFields
  <1>3. StateOK(socks', proxies', mgr')
    BY <1>0, <1>1, <1>2, PairParts DEF StateOK, ManagerOK, MgrOK
  <1>. QED BY <1>1, <1>3 DEF SessionInv

-----------------------------------------------------------------------------
\* what SessionInv says of client c
LEMMA ClientFacts ==
  ASSUME SessionInv, NEW c \in Clients, NEW e, e = clt[c]
  PROVE  /\ SocksOK(socks) /\ ProxiesOK(proxies) /\ EndsOK(Pair(socks, proxies))
         /\ EntryOK(e) /\ Agrees(e, socks, proxies)
         /\ e.phase \notin Away => /\ e.sock \in SockIDs /\ e.sock[1] = c /\ socks[e.sock].cltOpen
                                /\ SockOK(socks[e.sock])
  <1>1. SocksOK(socks) /\ ProxiesOK(proxies) /\ EndsOK(Pair(socks, proxies)) /\ CltOK(c, e, socks, proxies)
    BY PairParts DEF SessionInv, StateOK, ManagerOK
  <1>. QED BY <1>1 DEF CltOK, Holds, SocksOK

\* A client changes, and sockets of its own
LEMMA ClientStep ==
  ASSUME SessionInv, NEW c \in Clients, NEW d, clt' = [clt EXCEPT ![c] = d],
         UNCHANGED <<proxies, mgr>>, SocksOK(socks'), CltOK(c, d, socks', proxies),
         \A j \in SockIDs : socks'[j].mgrEnd \in {"open", "shut"} <=> socks[j].mgrEnd \in {"open", "shut"},
         \A j \in SockIDs : j[1] # c /\ socks[j].cltOpen => socks'[j] = socks[j]
  PROVE  SessionInv'
  <1>0. /\ ProxiesOK(proxies) /\ EndsOK(Pair(socks, proxies)) /\ Distinct(proxies)
        /\ MgrOK(mgr) /\ Counted(mgr.groups, proxies)
        /\ IsFun(clt) /\ DOMAIN clt = Clients /\ \A b \in Clients : CltOK(b, clt[b], socks, proxies)
    BY PairParts DEF SessionInv, StateOK, ManagerOK
  <1>1. EndsOK(Pair(socks', proxies))
    BY <1>0, PairParts DEF EndsOK
  <1>2. StateOK(socks', proxies', mgr')
    BY <1>0, <1>1, PairParts DEF StateOK, ManagerOK
  <1>3. IsFun(clt') /\ DOMAIN clt' = Clients /\ clt'[c] = d /\ \A b \in Clients : b # c => clt'[b] = clt[b]
    BY <1>0 DEF IsFun
  <1>4. ASSUME NEW b \in Clients
        PROVE  CltOK(b, clt'[b], socks', proxies')
    <2>1. CASE b = c
      BY <1>3, <2>1
    <2>2. CASE b # c
      <3> DEFINE e == clt[b]
      <3>1. clt'[b] = e /\ CltOK(b, e, socks, proxies)
        BY <1>0, <1>3, <2>2
      <3> HIDE DEF e
      <3>2. CASE e.phase \in Away
        BY <3>1, <3>2 DEF CltOK, Holds, Agrees
      <3>3. CASE e.phase \notin Away
        <4>1. socks'[e.sock] = socks[e.sock]
          BY <2>2, <3>1, <3>3 DEF CltOK, Holds
        <4>. QED BY <3>1, <4>1 DEF CltOK, Holds, Agrees
      <3>. QED BY <3>2, <3>3
    <2>. QED BY <2>1, <2>2
  <1>. QED BY <1>2, <1>3, <1>4 DEF SessionInv

\* A client that is not connected changes
LEMMA IdleStep ==
  ASSUME SessionInv, NEW c \in Clients, NEW d, clt' = [clt EXCEPT ![c] = d],
         UNCHANGED <<socks, proxies, mgr>>, EntryOK(d), d.phase \in Away
  PROVE  SessionInv'
  <1>1. CltOK(c, d, socks', proxies)
    BY DEF CltOK, Holds, Agrees
  <1>2. SocksOK(socks')
    BY PairParts DEF SessionInv, StateOK, ManagerOK
  <1>. QED BY <1>1, <1>2, ClientStep

\* Client d agrees with the manager, if its socket k has messages q
Fits(d, k, end, q) ==
  ~d.sendFailed /\ end # "closed" => AgreesAt(d.phase, Regd(d), Regs(proxies, k), q)

\* A connected client changes, and what is in its socket
LEMMA ClientEdit ==
  ASSUME SessionInv, NEW c \in Clients, NEW e, e = clt[c], e.phase \notin Away,
         NEW d, clt' = [clt EXCEPT ![c] = d], UNCHANGED <<proxies, mgr>>,
         EntryOK(d), d.phase \notin Away, d.sock = e.sock,
         NEW t, SockOK(t), t.cltOpen = socks[e.sock].cltOpen, t.mgrEnd = socks[e.sock].mgrEnd,
         socks' = [socks EXCEPT ![e.sock] = t], Fits(d, e.sock, t.mgrEnd, t.toMgr)
  PROVE  SessionInv'
  <1> DEFINE k == e.sock
  <1>0. SocksOK(socks) /\ k \in SockIDs /\ k[1] = c /\ socks[k].cltOpen
    BY ClientFacts
  <1> HIDE DEF k
  <1>1. /\ IsFun(socks') /\ DOMAIN socks' = SockIDs /\ socks'[k] = t
        /\ \A j \in SockIDs : j # k => socks'[j] = socks[j]
    BY <1>0 DEF SocksOK, IsFun, k
  <1>2. SocksOK(socks')
    BY <1>0, <1>1 DEF SocksOK
  <1>3. d.sock = k /\ t.cltOpen /\ t.mgrEnd = socks[k].mgrEnd
    BY <1>0 DEF k
  <1>4. Holds(c, d, socks')
    BY <1>0, <1>1, <1>3 DEF Holds
  <1>5. Agrees(d, socks', proxies)
    BY <1>1, <1>3 DEF Agrees, Fits, k
  <1>6. CltOK(c, d, socks', proxies)
    BY <1>4, <1>5 DEF CltOK
  <1>7. \A j \in SockIDs : socks'[j].mgrEnd \in {"open", "shut"} <=> socks[j].mgrEnd \in {"open", "shut"}
    BY <1>1, <1>3
  <1>8. \A j \in SockIDs : j[1] # c /\ socks[j].cltOpen => socks'[j] = socks[j]
    BY <1>0, <1>1
  <1>. QED BY <1>2, <1>6, <1>7, <1>8, ClientStep

\* A client closes its connection.
LEMMA CloseStep ==
  ASSUME SessionInv, NEW c \in Clients, clt[c].phase \notin Away, NEW d, EntryOK(d), d.phase \in Away,
         CloseAs(c, d), UNCHANGED <<proxies, mgr>>
  PROVE  SessionInv'
  <1> DEFINE k == clt[c].sock
             r == [socks EXCEPT ![k].cltOpen = FALSE]
  <1>0. SocksOK(socks) /\ k \in SockIDs /\ k[1] = c /\ SockOK(socks[k])
    BY ClientFacts
  <1>1. clt' = [clt EXCEPT ![c] = d] /\ socks' = Forget(r)
    BY DEF CloseAs
  <1> HIDE DEF k
  <1>2. /\ IsFun(r) /\ DOMAIN r = SockIDs /\ r[k] = [socks[k] EXCEPT !.cltOpen = FALSE]
        /\ \A j \in SockIDs : j # k => r[j] = socks[j]
    BY <1>0 DEF SocksOK, IsFun
  <1>3. SockOK(r[k]) /\ r[k].mgrEnd = socks[k].mgrEnd
    <2> DEFINE s == socks[k]
               t == r[k]
    <2>1. SockOK(s) /\ t = [s EXCEPT !.cltOpen = FALSE]
      BY <1>0, <1>2
    <2> HIDE DEF s, t
    <2>2. IsRec(t, SockFields) /\ t.toMgr = s.toMgr /\ t.cltOpen = FALSE /\ t.mgrEnd = s.mgrEnd
      BY <2>1 DEF SockOK, IsRec, SockFields
    <2>3. SockOK(t)
      BY <2>1, <2>2 DEF SockOK
    <2>. QED BY <2>2, <2>3 DEF s, t
  <1>4. SocksOK(r)
    BY <1>0, <1>2, <1>3 DEF SocksOK
  <1> HIDE DEF r
  <1>5. /\ SocksOK(socks')
        /\ \A j \in SockIDs : /\ socks'[j].mgrEnd = r[j].mgrEnd
                              /\ r[j].cltOpen => socks'[j] = r[j]
    <2> DEFINE t == socks'
    <2>1. t = Forget(r)
      BY <1>1
    <2> HIDE DEF t
    <2>2. /\ SocksOK(t)
          /\ \A j \in SockIDs : t[j].mgrEnd = r[j].mgrEnd /\ (r[j].cltOpen => t[j] = r[j])
      BY <1>4, <2>1, ForgetOK
    <2>. QED BY <2>2 DEF t
  <1>6. CltOK(c, d, socks', proxies)
    BY DEF CltOK, Holds, Agrees
  <1>7. \A j \in SockIDs : socks'[j].mgrEnd \in {"open", "shut"} <=> socks[j].mgrEnd \in {"open", "shut"}
    BY <1>2, <1>3, <1>5
  <1>8. \A j \in SockIDs : j[1] # c /\ socks[j].cltOpen => socks'[j] = socks[j]
    BY <1>0, <1>2, <1>5
  <1>. QED BY <1>1, <1>5, <1>6, <1>7, <1>8, ClientStep

\* The client that Close leaves behind.
LEMMA UnconnectedOK ==
  ASSUME SessionInv, NEW c \in Clients
  PROVE  EntryOK(Unconnected(c)) /\ Unconnected(c).phase = "idle"
  <1> DEFINE e == clt[c]
  <1>1. EntryOK(e)
    BY ClientFacts
  <1>2. Unconnected(c) = [e EXCEPT !.phase = "idle", !.sock = None, !.sendFailed = FALSE, !.clientID = -1,
                            !.groupID = 0, !.numSlabs = FALSE, !.view = <<>>]
    BY DEF Unconnected
  <1> DEFINE d == Unconnected(c)
  <1> HIDE DEF d, e
  <1>3. /\ IsRec(d, CltFields) /\ d.phase = "idle" /\ d.sendFailed = FALSE
        /\ d.registered = e.registered
    BY <1>1, <1>2 DEF d, EntryOK, IsRec, CltFields
  <1>4. EntryOK(d)
    BY <1>1, <1>3 DEF EntryOK
  <1>. QED BY <1>3, <1>4 DEF d

\* Close itself.
LEMMA CloseOK ==
  ASSUME SessionInv, NEW c \in Clients, clt[c].phase \notin Away, Close(c), UNCHANGED <<proxies, mgr>>
  PROVE  SessionInv'
  BY UnconnectedOK, CloseStep DEF Close

\* A Close that the application has called, with the change d to the client.
LEMMA CloseByCallOK ==
  ASSUME SessionInv, NEW c \in Clients, HasImpl(c), NEW d, EntryOK(d),
         CloseByCall(c, d), UNCHANGED <<proxies, mgr>>
  PROVE  SessionInv'
  <1>1. clt[c].phase \in {"wait", "up", "group"}
    BY DEF HasImpl
  <1>2. PICK after \in Away : CloseAs(c, [d EXCEPT !.phase = after])
    BY <1>1 DEF CloseByCall, After
  <1> DEFINE f == [d EXCEPT !.phase = after]
  <1>3. EntryOK(f) /\ f.phase = after
    BY <1>2 DEF EntryOK, IsRec, CltFields
  <1>4. CloseAs(c, f)
    BY <1>2
  <1> HIDE DEF f
  <1>. QED BY <1>1, <1>2, <1>3, <1>4, CloseStep

\* messages to the manager
ToMgrOK(q) == IsSeq(q) /\ \A i \in DOMAIN q : q[i].type \in ToMgrTypes

\* A socket with other messages to the manager.
LEMMA PutOK ==
  ASSUME NEW s, SockOK(s), NEW q, ToMgrOK(q), NEW t, t = [s EXCEPT !.toMgr = q]
  PROVE  SockOK(t) /\ t.toMgr = q /\ t.cltOpen = s.cltOpen /\ t.mgrEnd = s.mgrEnd
  <1>1. IsRec(t, SockFields) /\ t.toMgr = q /\ t.cltOpen = s.cltOpen /\ t.mgrEnd = s.mgrEnd
    BY DEF SockOK, IsRec, SockFields
  <1>. QED BY <1>1 DEF SockOK, ToMgrOK

\* One more message to the manager.
LEMMA AppendOK ==
  ASSUME NEW q, ToMgrOK(q), NEW msg, msg.type \in ToMgrTypes
  PROVE  ToMgrOK(Append(q, msg))
  <1> DEFINE n == Len(q)
             t == Append(q, msg)
  <1>1. /\ IsSeq(t) /\ n \in Nat /\ DOMAIN q = 1..n /\ DOMAIN t = 1..(n + 1) /\ t[n + 1] = msg
        /\ \A i \in 1..n : t[i] = q[i]
    BY SeqAppend, SeqFacts DEF ToMgrOK
  <1> HIDE DEF n, t
  <1>2. \A i \in DOMAIN t : i = n + 1 \/ i \in 1..n
    BY <1>1
  <1>3. \A i \in 1..n : q[i].type \in ToMgrTypes
    BY <1>1 DEF ToMgrOK
  <1>4. \A i \in DOMAIN t : t[i].type \in ToMgrTypes
    BY <1>1, <1>2, <1>3
  <1>. QED BY <1>1, <1>4 DEF ToMgrOK, t

\* A message that says what the application has done keeps the two sides in agreement.
LEMMA AppendAgrees ==
  ASSUME NEW ph, NEW R, NEW regs, NEW q, IsSeq(q), AgreesAt(ph, R, regs, q), ph # "open",
         R \subseteq MsgIDs, NEW msg, NEW R2, R2 = RegStep(R, msg), R2 \subseteq MsgIDs
  PROVE  AgreesAt(ph, R2, regs, Append(q, msg))
  <1> DEFINE A == RegsAfter(regs, q)
             B == RegsAfter(regs, Append(q, msg))
  <1>1. A \subseteq MsgIDs /\ B \subseteq MsgIDs
    BY DEF RegsAfter
  <1>2. \A m \in MsgIDs : m \in B <=> m \in RegStep(A, msg)
    BY RegsAfterAppend
  <1> HIDE DEF A, B
  <1>3. A \subseteq R => B \subseteq R2
    BY <1>1, <1>2 DEF RegStep
  <1>4. A = R => B = R2
    BY <1>1, <1>2
  <1>. QED BY <1>3, <1>4 DEF AgreesAt, A, B

\* No messages change nothing.
LEMMA RegsAfterNone ==
  ASSUME NEW regs
  PROVE  RegsAfter(regs, <<>>) = regs \cap MsgIDs
  <1>1. DOMAIN <<>> = {}
    OBVIOUS
  <1>. QED BY <1>1 DEF RegsAfter

\* A connected client changes and sends a message
LEMMA SendsOne ==
  ASSUME SessionInv, NEW c \in Clients, NEW e, e = clt[c], e.phase \notin Away,
         NEW d, clt' = [clt EXCEPT ![c] = d], UNCHANGED <<proxies, mgr>>,
         EntryOK(d), d.phase \notin Away, d.sock = e.sock,
         NEW msg, msg.type \in ToMgrTypes, socks' = Sent(c, <<msg>>),
         Fits(d, e.sock, socks[e.sock].mgrEnd, Append(socks[e.sock].toMgr, msg))
  PROVE  SessionInv'
  <1> DEFINE s == socks[e.sock]
             q == Append(s.toMgr, msg)
             t == [s EXCEPT !.toMgr = q]
  <1>1. SocksOK(socks) /\ e.sock \in SockIDs /\ SockOK(s)
    BY ClientFacts
  <1>2. ToMgrOK(s.toMgr)
    BY <1>1 DEF SockOK, ToMgrOK
  <1>3. ToMgrOK(q) /\ s.toMgr \o <<msg>> = q
    BY <1>2, AppendOK, SeqAppend DEF ToMgrOK
  <1> HIDE DEF q
  <1>4. socks' = [socks EXCEPT ![e.sock] = t]
    BY <1>1, <1>3 DEF Sent, SocksOK, IsFun
  <1>5. SockOK(t) /\ t.toMgr = q /\ t.cltOpen = s.cltOpen /\ t.mgrEnd = s.mgrEnd
    BY <1>1, <1>3, PutOK
  <1> HIDE DEF t
  <1>6. Fits(d, e.sock, t.mgrEnd, t.toMgr)
    BY <1>5 DEF q
  <1>. QED BY <1>4, <1>5, <1>6, ClientEdit

\* A connected client changes, its socket does not
LEMMA SendsNone ==
  ASSUME SessionInv, NEW c \in Clients, NEW e, e = clt[c], e.phase \notin Away,
         NEW d, clt' = [clt EXCEPT ![c] = d], UNCHANGED <<socks, proxies, mgr>>,
         EntryOK(d), d.phase \notin Away, d.sock = e.sock,
         Fits(d, e.sock, socks[e.sock].mgrEnd, socks[e.sock].toMgr)
  PROVE  SessionInv'
  <1> DEFINE t == socks[e.sock]
  <1>1. SocksOK(socks) /\ e.sock \in SockIDs /\ SockOK(t)
    BY ClientFacts
  <1>2. socks' = [socks EXCEPT ![e.sock] = t]
    BY <1>1 DEF SocksOK, IsFun
  <1>3. t.cltOpen = socks[e.sock].cltOpen /\ t.mgrEnd = socks[e.sock].mgrEnd
    OBVIOUS
  <1>4. Fits(d, e.sock, t.mgrEnd, t.toMgr)
    OBVIOUS
  <1> HIDE DEF t
  <1>. QED BY <1>1, <1>2, <1>3, <1>4, ClientEdit

-----------------------------------------------------------------------------
\* the state of a client with some of its fields changed
SameButFor(e, d, F) == IsRec(d, CltFields) /\ \A f \in CltFields \ F : d[f] = e[f]

\* Only the changed fields of a client need to be looked at.
LEMMA EditOK ==
  ASSUME NEW e, EntryOK(e), NEW d, NEW F, SameButFor(e, d, F),
         "phase" \in F => d.phase \in {"idle", "open", "wait", "up", "group", "crashed"},
         "sendFailed" \in F => d.sendFailed \in BOOLEAN,
         "registered" \in F => d.registered \in [MsgIDs -> Nat]
  PROVE  EntryOK(d)
  BY DEF EntryOK, SameButFor, CltFields

\* A client opens a socket: the manager has no proxy for it, and nothing is under way.
LEMMA OpenStep ==
  ASSUME SessionInv, NEW c \in Clients, Open(c)
  PROVE  SessionInv'
  <1> DEFINE e == clt[c]
  <1>1. PICK k \in SockIDs :
          /\ k[1] = c /\ socks[k] = FreeSock
          /\ socks' = [socks EXCEPT ![k].cltOpen = TRUE, ![k].mgrEnd = "backlog"]
          /\ clt' = [clt EXCEPT ![c].phase = "open", ![c].sock = k]
    BY DEF Open
  <1>2. SocksOK(socks) /\ EndsOK(Pair(socks, proxies)) /\ EntryOK(e) /\ IsFun(clt) /\ DOMAIN clt = Clients
    BY ClientFacts DEF SessionInv
  <1> DEFINE d == [e EXCEPT !.phase = "open", !.sock = k]
             t == [FreeSock EXCEPT !.cltOpen = TRUE, !.mgrEnd = "backlog"]
  <1>3. clt' = [clt EXCEPT ![c] = d]
    BY <1>1, <1>2 DEF IsFun
  <1>4. socks' = [socks EXCEPT ![k] = t]
    BY <1>1, <1>2 DEF IsFun, SocksOK
  <1>5. SameButFor(e, d, {"phase", "sock"}) /\ d.phase = "open" /\ d.sock = k
    BY <1>2 DEF SameButFor, EntryOK, IsRec, CltFields
  <1>6. /\ IsRec(t, SockFields) /\ t.toMgr = FreeSock.toMgr /\ t.cltOpen = TRUE /\ t.mgrEnd = "backlog"
        /\ FreeSock.toMgr = <<>> /\ FreeSock.mgrEnd = "closed"
    BY DEF FreeSock, IsRec, SockFields
  <1>7. SockOK(t)
    BY <1>6, FreeSockOK DEF SockOK
  <1> HIDE DEF d, t, e
  <1>8. EntryOK(d)
    BY <1>2, <1>5, EditOK
  <1>9. /\ IsFun(socks') /\ DOMAIN socks' = SockIDs /\ socks'[k] = t
        /\ \A j \in SockIDs : j # k => socks'[j] = socks[j]
    BY <1>2, <1>4 DEF SocksOK, IsFun
  <1>10. SocksOK(socks')
    BY <1>2, <1>7, <1>9 DEF SocksOK
  <1>11. k \notin DOMAIN proxies
    BY <1>1, <1>2, <1>6, PairParts DEF EndsOK
  <1>12. Holds(c, d, socks')
    BY <1>1, <1>5, <1>6, <1>9 DEF Holds
  <1>13. Agrees(d, socks', proxies)
    BY <1>5, <1>6, <1>9, <1>11 DEF Agrees, AgreesAt, Regs
  <1>14. CltOK(c, d, socks', proxies)
    BY <1>8, <1>12, <1>13 DEF CltOK
  <1>15. \A j \in SockIDs : socks'[j].mgrEnd \in {"open", "shut"} <=> socks[j].mgrEnd \in {"open", "shut"}
    <2>1. ~(t.mgrEnd \in {"open", "shut"}) /\ ~(socks[k].mgrEnd \in {"open", "shut"})
      BY <1>1, <1>6
    <2>. QED BY <1>9, <2>1
  <1>16. \A j \in SockIDs : j[1] # c /\ socks[j].cltOpen => socks'[j] = socks[j]
    BY <1>1, <1>9
  <1>17. UNCHANGED <<proxies, mgr>>
    BY DEF Open
  <1>. QED BY <1>3, <1>10, <1>14, <1>15, <1>16, <1>17, ClientStep

\* Regd is Registered, of a client's record.
LEMMA RegdIs ==
  ASSUME NEW c \in Clients
  PROVE  Regd(clt[c]) = Registered(c)
  BY DEF Regd, Registered

\* The constructor of ClientImpl: the first message may be the request for a group.
LEMMA ConstructStep ==
  ASSUME SessionInv, NEW c \in Clients, Construct(c)
  PROVE  SessionInv'
  <1> DEFINE e == clt[c]
             k == e.sock
  <1>1. e.phase = "open" /\ UNCHANGED <<proxies, mgr>>
    BY DEF Construct
  <1>2. CASE socks[k].mgrEnd = "closed"
    BY <1>1, <1>2, CloseOK DEF Construct
  <1>3. CASE socks[k].mgrEnd # "closed"
    <2> DEFINE gid == IF e.groupStr = None THEN 0 ELSE -1
               d   == [e EXCEPT !.phase = "wait", !.groupID = gid]
    <2>1. IsFun(clt) /\ DOMAIN clt = Clients /\ EntryOK(e) /\ Agrees(e, socks, proxies) /\ SocksOK(socks)
      BY ClientFacts DEF SessionInv
    <2>2. /\ clt' = [clt EXCEPT ![c].phase = "wait", ![c].groupID = gid]
          /\ socks' = Sent(c, IF e.groupStr = None THEN <<>>
                              ELSE <<[type |-> "GroupStr", str |-> e.groupStr]>>)
      BY <1>3 DEF Construct
    <2> HIDE DEF gid
    <2>3. clt' = [clt EXCEPT ![c] = d]
      BY <2>1, <2>2 DEF IsFun
    <2>4. SameButFor(e, d, {"phase", "groupID"}) /\ d.phase = "wait"
      BY <2>1 DEF SameButFor, EntryOK, IsRec, CltFields
    <2> HIDE DEF d
    <2>5. d.sock = e.sock /\ d.sendFailed = e.sendFailed /\ d.registered = e.registered
      BY <2>4 DEF SameButFor, CltFields
    <2>6. EntryOK(d)
      BY <2>1, <2>4, EditOK
    <2>7. /\ k \in SockIDs /\ SockOK(socks[k])
          /\ ~e.sendFailed => socks[k].toMgr = <<>> /\ Regs(proxies, k) = {}
      BY <1>1, <1>3, <2>1, ClientFacts DEF Agrees, AgreesAt
    <2>8. RegsAfter({}, <<>>) = {}
      BY RegsAfterNone
    <2>9. IsSeq(<<>>) 
      <3>1. <<>> \in Seq({})
        OBVIOUS
      <3>. QED BY <3>1 DEF IsSeq
    <2>10. Regd(d) \subseteq MsgIDs
      BY DEF Regd
    <2>11. CASE e.groupStr = None
      <3>1. IsSeq(socks[k].toMgr)
        BY <2>7 DEF SockOK
      <3>2. socks[k].toMgr \o <<>> = socks[k].toMgr
        BY <3>1 DEF IsSeq
      <3>3. socks' = socks
        BY <2>1, <2>2, <2>7, <2>11, <3>2 DEF Sent, SocksOK, IsFun, SockOK, IsRec
      <3>4. Fits(d, e.sock, socks[e.sock].mgrEnd, socks[e.sock].toMgr)
        BY <2>4, <2>5, <2>7, <2>8 DEF Fits, AgreesAt
      <3>. QED BY <1>1, <2>3, <2>4, <2>5, <2>6, <3>3, <3>4, SendsNone
    <2>12. CASE e.groupStr # None
      <3> DEFINE msg == [type |-> "GroupStr", str |-> e.groupStr]
      <3>1. socks' = Sent(c, <<msg>>) /\ msg.type = "GroupStr"
        BY <2>2, <2>12
      <3> HIDE DEF msg
      <3>2. AgreesAt("wait", {}, {}, <<>>)
        BY <2>8 DEF AgreesAt
      <3>3. RegStep({}, msg) = {}
        BY <3>1 DEF RegStep
      <3>4. AgreesAt("wait", {}, {}, Append(<<>>, msg))
        BY <2>9, <3>2, <3>3, AppendAgrees
      <3>5. Fits(d, e.sock, socks[e.sock].mgrEnd, Append(socks[e.sock].toMgr, msg))
        BY <2>4, <2>5, <2>7, <3>4 DEF Fits, AgreesAt
      <3>6. msg.type \in ToMgrTypes
        BY <3>1 DEF ToMgrTypes
      <3>. QED BY <1>1, <2>3, <2>4, <2>5, <2>6, <3>1, <3>5, <3>6, SendsOne
    <2>. QED BY <2>11, <2>12
  <1>. QED BY <1>2, <1>3

\* What a message that is not about registrations leaves as it is
LEMMA OtherMessage ==
  ASSUME NEW d, NEW e, NEW k, NEW end, NEW q, IsSeq(q), Fits(e, k, end, q), NEW msg,
         msg.type \in {"GroupStr", "Wanted", "NumSlabs"}, e.phase # "open",
         d.sendFailed = e.sendFailed, d.registered = e.registered,
         \/ d.phase = e.phase
         \/ d.phase \in {"up", "group"} /\ e.phase \in {"up", "group"}
  PROVE  Fits(d, k, end, Append(q, msg)) /\ Fits(d, k, end, q)
  <1>1. Regd(d) = Regd(e) /\ Regd(e) \subseteq MsgIDs
    BY DEF Regd
  <1>2. RegStep(Regd(e), msg) = Regd(e)
    BY DEF RegStep
  <1>3. AgreesAt(e.phase, Regd(e), Regs(proxies, k), q) =>
          AgreesAt(e.phase, Regd(e), Regs(proxies, k), Append(q, msg))
    BY <1>1, <1>2, AppendAgrees
  <1>. QED BY <1>1, <1>3 DEF Fits, AgreesAt

\* The end of Connect sends what was registered before: from then on both sides agree.
LEMMA ConnectedStep ==
  ASSUME SessionInv, NEW c \in Clients, Connected(c)
  PROVE  SessionInv'
  <1> DEFINE e   == clt[c]
             k   == e.sock
             reg == RegMsg("Register", e.clientID, e.groupID, Registered(c))
             w   == Wanted(e.handler)
             d   == [e EXCEPT !.phase = "up"]
  <1>1. e.phase = "wait" /\ UNCHANGED <<proxies, mgr>>
    BY DEF Connected
  <1>2. CASE SendThrows(c)
    BY <1>1, <1>2, CloseOK DEF Connected
  <1>3. CASE ~SendThrows(c)
    <2>1. IsFun(clt) /\ DOMAIN clt = Clients /\ EntryOK(e) /\ Agrees(e, socks, proxies) /\ SocksOK(socks)
      BY ClientFacts DEF SessionInv
    <2>2. /\ clt' = [clt EXCEPT ![c].phase = "up"]
          /\ socks' = Sent(c, (IF Registered(c) = {} THEN <<>> ELSE <<reg>>) \o <<w>>)
      BY <1>3 DEF Connected
    <2>3. clt' = [clt EXCEPT ![c] = d]
      BY <2>1, <2>2 DEF IsFun
    <2>4. SameButFor(e, d, {"phase"}) /\ d.phase = "up"
      BY <2>1 DEF SameButFor, EntryOK, IsRec, CltFields
    <2> HIDE DEF d
    <2>5. d.sock = e.sock /\ d.sendFailed = e.sendFailed /\ d.registered = e.registered
      BY <2>4 DEF SameButFor, CltFields
    <2>6. EntryOK(d)
      BY <2>1, <2>4, EditOK
    <2>7. k \in SockIDs /\ SockOK(socks[k]) /\ IsSeq(socks[k].toMgr)
      BY <1>1, ClientFacts DEF SockOK
    <2>8. /\ RegsAfter(Regs(proxies, k), socks[k].toMgr) \subseteq Registered(c)
          /\ Regd(e) = Registered(c) /\ Regd(d) = Registered(c)
      <3>1. ~e.sendFailed /\ socks[k].mgrEnd # "closed"
        BY <1>3, <2>1 DEF SendThrows
      <3>. QED BY <1>1, <2>1, <2>5, <3>1 DEF Agrees, AgreesAt, Regd, Registered
    <2>9. w.type = "Wanted"
      BY DEF Wanted
    <2>10. w.type \in {"GroupStr", "Wanted", "NumSlabs"} /\ w.type \in ToMgrTypes
      BY <2>9 DEF ToMgrTypes
    <2> HIDE DEF w
    <2>11. CASE Registered(c) = {}
      <3>1. socks' = Sent(c, <<w>>)
        <4>1. <<>> \o <<w>> = <<w>>
          OBVIOUS
        <4>. QED BY <2>2, <2>11, <4>1
      <3>2. Fits(d, k, socks[k].mgrEnd, socks[k].toMgr)
        BY <2>4, <2>8, <2>11 DEF Fits, AgreesAt
      <3>3. Fits(d, k, socks[k].mgrEnd, Append(socks[k].toMgr, w))
        BY <2>4, <2>7, <2>10, <3>2, OtherMessage
      <3>. QED BY <1>1, <2>3, <2>4, <2>5, <2>6, <2>10, <3>1, <3>3, SendsOne
    <2>12. CASE Registered(c) # {}
      <3> DEFINE s == socks[k]
                 a == Append(s.toMgr, reg)
                 q == Append(a, w)
                 t == [s EXCEPT !.toMgr = q]
      <3>1. reg.type = "Register" /\ reg.msgIDs = Registered(c)
        BY DEF RegMsg
      <3>2. ToMgrOK(s.toMgr) /\ reg.type \in ToMgrTypes
        BY <2>7, <3>1 DEF SockOK, ToMgrOK, ToMgrTypes
      <3> HIDE DEF reg
      <3>3. ToMgrOK(a) /\ ToMgrOK(q)
        <4>1. ToMgrOK(a)
          BY <3>2, AppendOK
        <4> HIDE DEF a
        <4>. QED BY <2>10, <4>1, AppendOK
      <3>4. s.toMgr \o (<<reg>> \o <<w>>) = q
        <4>1. PICK T : s.toMgr \in Seq(T)
          BY <2>7 DEF IsSeq
        <4> DEFINE U == T \cup {reg, w}
        <4>2. s.toMgr \in Seq(U) /\ reg \in U /\ w \in U
          BY <4>1
        <4> DEFINE x == s.toMgr
        <4> HIDE DEF U, x
        <4>3. x \o (<<reg>> \o <<w>>) = Append(Append(x, reg), w)
          <5>1. <<reg>> \o <<w>> = <<reg, w>>
            <6> DEFINE y == <<reg>> \o <<w>>
            <6>1. <<reg>> \in Seq(U) /\ <<w>> \in Seq(U) /\ <<reg, w>> \in Seq(U)
              BY <4>2
            <6>2. y \in Seq(U) /\ Len(y) = 2 /\ y[1] = reg /\ y[2] = w
              BY <6>1
            <6> HIDE DEF y
            <6>3. y = <<reg, w>>
              BY <6>1, <6>2
            <6>. QED BY <6>3 DEF y
          <5>2. x \o <<reg, w>> = Append(Append(x, reg), w)
            <6> DEFINE n == Len(x)
                       y == x \o <<reg, w>>
                       z == Append(Append(x, reg), w)
            <6>1. n \in Nat /\ x \in Seq(U) /\ <<reg, w>> \in Seq(U) /\ Append(x, reg) \in Seq(U)
              BY <4>2 DEF x
            <6>2. y \in Seq(U) /\ z \in Seq(U) /\ Len(y) = n + 2 /\ Len(z) = n + 2
              BY <4>2, <6>1
            <6>3. \A i \in 1..n : y[i] = x[i] /\ z[i] = x[i]
              BY <4>2, <6>1
            <6>4. y[n + 1] = reg /\ y[n + 2] = w /\ z[n + 1] = reg /\ z[n + 2] = w
              BY <4>2, <6>1
            <6>5. \A i \in 1..(n + 2) : i \in 1..n \/ i = n + 1 \/ i = n + 2
              BY <6>1
            <6> HIDE DEF y, z, n
            <6>6. \A i \in 1..Len(y) : y[i] = z[i]
              BY <6>2, <6>3, <6>4, <6>5
            <6>7. y = z
              BY <6>2, <6>6
            <6>. QED BY <6>7 DEF y, z
          <5>. QED BY <5>1, <5>2
        <4>. QED BY <4>3 DEF x
      <3>5. socks' = [socks EXCEPT ![k].toMgr = s.toMgr \o (<<reg>> \o <<w>>)]
        BY <2>2, <2>12 DEF Sent, reg
      <3>6. socks' = [socks EXCEPT ![k] = t]
        <4> HIDE DEF q
        <4>. QED BY <2>1, <2>7, <3>4, <3>5 DEF SocksOK, IsFun
      <3>7. SockOK(t) /\ t.toMgr = q /\ t.cltOpen = s.cltOpen /\ t.mgrEnd = s.mgrEnd
        <4> HIDE DEF q
        <4>. QED BY <2>7, <3>3, PutOK
      <3> HIDE DEF t
      <3>8. RegsAfter(Regs(proxies, k), a) = Registered(c)
        <4> DEFINE R == Registered(c)
                   A == RegsAfter(Regs(proxies, k), s.toMgr)
                   B == RegsAfter(Regs(proxies, k), a)
        <4>1. R \subseteq MsgIDs /\ A \subseteq R /\ B \subseteq MsgIDs
          BY <2>8 DEF Registered, RegsAfter
        <4>2. \A m \in MsgIDs : m \in B <=> m \in RegStep(A, reg)
          BY <2>7, RegsAfterAppend
        <4>3. RegStep(A, reg) = A \cup R
          BY <3>1 DEF RegStep
        <4> HIDE DEF A, B, R
        <4>4. B = R
          BY <4>1, <4>2, <4>3
        <4>. QED BY <4>4 DEF B, R
      <3>9. Fits(d, k, s.mgrEnd, a)
        BY <2>4, <2>8, <3>8 DEF Fits, AgreesAt
      <3>10. IsSeq(a)
        BY <3>3 DEF ToMgrOK
      <3>11. Fits(d, k, t.mgrEnd, t.toMgr)
        <4> HIDE DEF a
        <4>1. Fits(d, k, s.mgrEnd, Append(a, w))
          BY <2>4, <2>10, <3>9, <3>10, OtherMessage
        <4>. QED BY <3>7, <4>1
      <3>. QED BY <1>1, <2>3, <2>4, <2>5, <2>6, <3>6, <3>7, <3>11, ClientEdit
    <2>. QED BY <2>11, <2>12
  <1>. QED BY <1>2, <1>3

\* A client handles a message.
LEMMA PollStep ==
  ASSUME SessionInv, NEW c \in Clients, Poll(c)
  PROVE  SessionInv'
  <1> DEFINE e   == clt[c]
             k   == e.sock
             s   == socks[k]
             msg == Head(s.toClt)
             r   == [socks EXCEPT ![k].toClt = Tail(@)]
             u   == [s EXCEPT !.toClt = Tail(s.toClt)]
  <1>1. e.phase \in {"wait", "up", "group"} /\ UNCHANGED <<proxies, mgr>>
    BY DEF Poll, HasImpl
  <1>2. IsFun(clt) /\ DOMAIN clt = Clients /\ EntryOK(e) /\ Agrees(e, socks, proxies) /\ SocksOK(socks)
    BY ClientFacts DEF SessionInv
  <1>3. k \in SockIDs /\ SockOK(s) /\ IsSeq(s.toMgr)
    BY <1>1, ClientFacts DEF SockOK
  <1>4. r = [socks EXCEPT ![k] = u]
    BY <1>2, <1>3 DEF SocksOK, IsFun
  <1>5. /\ SockOK(u) /\ u.toMgr = s.toMgr /\ u.cltOpen = s.cltOpen /\ u.mgrEnd = s.mgrEnd
    BY <1>3, SockAppends DEF SockSent
  <1>6. Fits(e, k, s.mgrEnd, s.toMgr)
    BY <1>1, <1>2 DEF Agrees, Fits
  <1> HIDE DEF u, r
  <1>7. ASSUME NEW d, EntryOK(d), clt' = [clt EXCEPT ![c] = d], socks' = r, d.sock = e.sock,
               d.sendFailed = e.sendFailed, d.registered = e.registered,
               \/ d.phase = e.phase
               \/ d.phase \in {"up", "group"} /\ e.phase \in {"up", "group"}
        PROVE  SessionInv'
    <2>1. Fits(d, k, u.mgrEnd, u.toMgr)
      <3>1. Regd(d) = Regd(e)
        BY <1>7 DEF Regd
      <3>. QED BY <1>5, <1>6, <1>7, <3>1 DEF Fits, AgreesAt
    <2>2. d.phase \notin Away /\ e.phase \notin Away
      BY <1>1, <1>7
    <2>3. socks' = [socks EXCEPT ![k] = u]
      BY <1>4, <1>7
    <2>. QED BY <1>1, <1>5, <1>7, <2>1, <2>2, <2>3, ClientEdit
  <1>8. CASE msg.type = "ClientID" /\ SendThrows(c) /\ Close(c)
    BY <1>1, <1>8, CloseOK
  <1>9. CASE /\ clt' = [clt EXCEPT ![c].clientID = msg.id]
             /\ socks' = [r EXCEPT ![k].toMgr = Append(@, [type |-> "NumSlabs"])]
    <2> DEFINE d == [e EXCEPT !.clientID = msg.id]
               a == [type |-> "NumSlabs"]
               q == Append(s.toMgr, a)
               t == [u EXCEPT !.toMgr = q]
    <2>1. clt' = [clt EXCEPT ![c] = d]
      BY <1>2, <1>9 DEF IsFun
    <2>2. SameButFor(e, d, {"clientID"})
      BY <1>2 DEF SameButFor, EntryOK, IsRec, CltFields
    <2> HIDE DEF d
    <2>3. d.phase = e.phase /\ d.sock = e.sock /\ d.sendFailed = e.sendFailed /\ d.registered = e.registered
      BY <2>2 DEF SameButFor, CltFields
    <2>4. EntryOK(d)
      BY <1>2, <2>2, EditOK
    <2>5. a.type \in ToMgrTypes /\ a.type \in {"GroupStr", "Wanted", "NumSlabs"}
      BY DEF ToMgrTypes
    <2>6. socks' = [socks EXCEPT ![k] = t]
      BY <1>2, <1>3, <1>4, <1>5, <1>9 DEF SocksOK, IsFun
    <2> HIDE DEF a
    <2>7. ToMgrOK(s.toMgr)
      BY <1>3 DEF SockOK, ToMgrOK
    <2>8. ToMgrOK(q)
      BY <2>5, <2>7, AppendOK
    <2>9. Fits(d, k, s.mgrEnd, q)
      BY <1>1, <1>3, <1>6, <2>3, <2>5, OtherMessage
    <2> HIDE DEF q
    <2>10. SockOK(t) /\ t.toMgr = q /\ t.cltOpen = s.cltOpen /\ t.mgrEnd = s.mgrEnd
      BY <1>5, <2>8, PutOK
    <2> HIDE DEF t
    <2>11. Fits(d, k, t.mgrEnd, t.toMgr) /\ d.phase \notin Away /\ e.phase \notin Away
      BY <1>1, <2>3, <2>9, <2>10
    <2>. QED BY <1>1, <2>1, <2>3, <2>4, <2>6, <2>10, <2>11, ClientEdit
  <1>10. CASE clt' = [clt EXCEPT ![c].numSlabs = TRUE] /\ socks' = r
    <2> DEFINE d == [e EXCEPT !.numSlabs = TRUE]
    <2>1. clt' = [clt EXCEPT ![c] = d]
      BY <1>2, <1>10 DEF IsFun
    <2>2. SameButFor(e, d, {"numSlabs"})
      BY <1>2 DEF SameButFor, EntryOK, IsRec, CltFields
    <2> HIDE DEF d
    <2>3. d.phase = e.phase /\ d.sock = e.sock /\ d.sendFailed = e.sendFailed /\ d.registered = e.registered
      BY <2>2 DEF SameButFor, CltFields
    <2>4. EntryOK(d)
      BY <1>2, <2>2, EditOK
    <2>. QED BY <1>7, <1>10, <2>1, <2>3, <2>4
  <1>11. CASE /\ clt' = [clt EXCEPT ![c].groupID = msg.id,
                                    ![c].phase = IF @ = "group" /\ msg.id >= 0 THEN "up" ELSE @]
              /\ socks' = r
    <2> DEFINE on == msg.id >= 0
               ph == IF e.phase = "group" /\ on THEN "up" ELSE e.phase
               d  == [e EXCEPT !.groupID = msg.id, !.phase = ph]
    <2>1. clt' = [clt EXCEPT ![c] = d]
      BY <1>2, <1>11 DEF IsFun, EntryOK, IsRec, CltFields
    <2>2. ph \in {"wait", "up", "group"} /\ (ph = e.phase \/ (ph = "up" /\ e.phase = "group"))
      <3> HIDE DEF on
      <3>1. ph = e.phase \/ (ph = "up" /\ e.phase = "group")
        <4>1. CASE e.phase = "group" /\ on
          BY <4>1
        <4>2. CASE ~(e.phase = "group" /\ on)
          BY <4>2
        <4>. QED BY <4>1, <4>2
      <3> HIDE DEF ph
      <3>. QED BY <1>1, <3>1
    <2> HIDE DEF ph
    <2>3. SameButFor(e, d, {"groupID", "phase"}) /\ d.phase = ph
      BY <1>2 DEF SameButFor, EntryOK, IsRec, CltFields
    <2> HIDE DEF d
    <2>4. d.sock = e.sock /\ d.sendFailed = e.sendFailed /\ d.registered = e.registered
      BY <2>3 DEF SameButFor, CltFields
    <2>5. EntryOK(d)
      BY <1>2, <2>2, <2>3, EditOK
    <2>. QED BY <1>7, <1>11, <2>1, <2>2, <2>3, <2>4, <2>5
  <1>12. CASE clt' = [clt EXCEPT ![c].view = HandleRegistrationMsg(c, msg)] /\ socks' = r
    <2> DEFINE v == HandleRegistrationMsg(c, msg)
               d == [e EXCEPT !.view = v]
    <2> HIDE DEF v
    <2>1. clt' = [clt EXCEPT ![c] = d]
      BY <1>2, <1>12 DEF IsFun, v
    <2>2. SameButFor(e, d, {"view"})
      BY <1>2 DEF SameButFor, EntryOK, IsRec, CltFields
    <2> HIDE DEF d
    <2>3. d.phase = e.phase /\ d.sock = e.sock /\ d.sendFailed = e.sendFailed /\ d.registered = e.registered
      BY <2>2 DEF SameButFor, CltFields
    <2>4. EntryOK(d)
      BY <1>2, <2>2, EditOK
    <2>. QED BY <1>7, <1>12, <2>1, <2>3, <2>4
  <1>. QED BY <1>8, <1>9, <1>10, <1>11, <1>12 DEF Poll, r

-----------------------------------------------------------------------------
\* What the client has registered after the call is what the message says
SaysSo(e, d, msgs) ==
  \/ msgs = <<>> /\ Regd(d) = Regd(e)
  \/ \E msg : /\ msgs = <<msg>> /\ msg.type \in ToMgrTypes
              /\ Regd(d) = RegStep(Regd(e), msg)

\* A call whose message, if it needs one, says what has changed.
LEMMA CallAndSendStep ==
  ASSUME SessionInv, NEW c \in Clients, NEW e, e = clt[c], e.phase # "open",
         NEW d, EntryOK(d), d.phase = e.phase, d.sock = e.sock, d.sendFailed = e.sendFailed,
         NEW msgs, SaysSo(e, d, msgs), CallAndSend(c, d, msgs)
  PROVE  SessionInv'
  <1> DEFINE k == e.sock
             s == socks[k]
  <1>1. /\ EntryOK(e) /\ Agrees(e, socks, proxies) /\ SocksOK(socks)
        /\ e.phase \notin Away => k \in SockIDs /\ SockOK(s)
    BY ClientFacts
  <1>2. UNCHANGED <<proxies, mgr>>
    BY DEF CallAndSend
  <1>3. CASE e.phase \in Away
    <2>1. clt' = [clt EXCEPT ![c] = d] /\ UNCHANGED socks
      BY <1>3 DEF CallAndSend, HasImpl
    <2>. QED BY <1>2, <1>3, <2>1, IdleStep
  <1>4. CASE e.phase \notin Away
    <2>0. e.phase \in {"wait", "up", "group"} /\ d.phase \notin Away
      BY <1>1, <1>4 DEF EntryOK
    <2>1. Fits(e, k, s.mgrEnd, s.toMgr)
      BY <1>1, <1>4 DEF Agrees, Fits
    <2>2. CASE msgs = <<>> \/ e.sendFailed
      <3>1. clt' = [clt EXCEPT ![c] = d] /\ UNCHANGED socks
        BY <2>2 DEF CallAndSend
      <3>2. Fits(d, k, s.mgrEnd, s.toMgr)
        <4>1. CASE e.sendFailed
          BY <4>1 DEF Fits
        <4>2. CASE msgs = <<>>
          <5>1. Regd(d) = Regd(e)
            BY <4>2 DEF SaysSo
          <5>. QED BY <2>1, <5>1 DEF Fits
        <4>. QED BY <2>2, <4>1, <4>2
      <3>. QED BY <1>2, <2>0, <3>1, <3>2, SendsNone
    <2>3. CASE msgs # <<>> /\ ~e.sendFailed /\ SendThrows(c)
      <3> DEFINE f == [d EXCEPT !.sendFailed = TRUE]
      <3>1. clt' = [clt EXCEPT ![c] = f] /\ UNCHANGED socks
        BY <2>0, <2>3 DEF CallAndSend, HasImpl
      <3>2. SameButFor(d, f, {"sendFailed"}) /\ f.sendFailed = TRUE
        BY DEF SameButFor, EntryOK, IsRec, CltFields
      <3> HIDE DEF f
      <3>3. EntryOK(f)
        BY <3>2, EditOK
      <3>4. f.phase \notin Away /\ f.sock = e.sock
        BY <2>0, <3>2 DEF SameButFor, CltFields
      <3>5. Fits(f, k, s.mgrEnd, s.toMgr)
        BY <3>2 DEF Fits
      <3>. QED BY <1>2, <2>0, <3>1, <3>3, <3>4, <3>5, SendsNone
    <2>4. CASE msgs # <<>> /\ ~e.sendFailed /\ ~SendThrows(c)
      <3>1. clt' = [clt EXCEPT ![c] = d] /\ socks' = Sent(c, msgs)
        BY <2>0, <2>4 DEF CallAndSend, HasImpl
      <3>2. PICK msg : msgs = <<msg>> /\ msg.type \in ToMgrTypes /\ Regd(d) = RegStep(Regd(e), msg)
        BY <2>4 DEF SaysSo
      <3>3. Regd(e) \subseteq MsgIDs /\ Regd(d) \subseteq MsgIDs /\ IsSeq(s.toMgr)
        BY <1>1, <1>4 DEF Regd, SockOK
      <3>4. AgreesAt(e.phase, Regd(e), Regs(proxies, k), s.toMgr) =>
              AgreesAt(e.phase, Regd(d), Regs(proxies, k), Append(s.toMgr, msg))
        <4> DEFINE q == s.toMgr
                   R == Regd(e)
                   R2 == Regd(d)
                   r == Regs(proxies, k)
        <4>1. R \subseteq MsgIDs /\ R2 \subseteq MsgIDs /\ IsSeq(q) /\ R2 = RegStep(R, msg)
          BY <3>2, <3>3
        <4> HIDE DEF q, R, R2, r
        <4>2. AgreesAt(e.phase, R, r, q) => AgreesAt(e.phase, R2, r, Append(q, msg))
          BY <4>1, AppendAgrees
        <4>. QED BY <4>2 DEF q, R, R2, r
      <3>5. Fits(d, k, s.mgrEnd, Append(s.toMgr, msg))
        BY <2>1, <3>4 DEF Fits
      <3>. QED BY <1>2, <2>0, <3>1, <3>2, <3>5, SendsOne
    <2>. QED BY <2>2, <2>3, <2>4
  <1>. QED BY <1>3, <1>4

\* RegisterMsgIDs: only the first registration of an ID is sent.
LEMMA RegisterStep ==
  ASSUME SessionInv, NEW c \in Clients, NEW m \in MsgIDs, RegisterMsgIDs(c, m)
  PROVE  SessionInv'
  <1> DEFINE e   == clt[c]
             new == e.registered[m] = 0
             msg == RegMsg("Register", e.clientID, e.groupID, {m})
             d   == [e EXCEPT !.registered[m] = @ + 1]
             ms  == IF new THEN <<msg>> ELSE <<>>
  <1>1. e.phase # "open" /\ CallAndSend(c, d, ms)
    BY DEF RegisterMsgIDs, MayCall
  <1>2. EntryOK(e) /\ e.registered \in [MsgIDs -> Nat]
    BY ClientFacts DEF EntryOK
  <1>3. /\ SameButFor(e, d, {"registered"})
        /\ d.registered = [e.registered EXCEPT ![m] = e.registered[m] + 1]
    BY <1>2 DEF SameButFor, EntryOK, IsRec, CltFields
  <1>4. msg.type = "Register" /\ msg.msgIDs = {m}
    BY DEF RegMsg
  <1> HIDE DEF d, msg
  <1>5. d.phase = e.phase /\ d.sock = e.sock /\ d.sendFailed = e.sendFailed
    BY <1>3 DEF SameButFor, CltFields
  <1>6. d.registered \in [MsgIDs -> Nat] /\ d.registered[m] = e.registered[m] + 1
        /\ \A x \in MsgIDs : x # m => d.registered[x] = e.registered[x]
    BY <1>2, <1>3
  <1>7. EntryOK(d)
    BY <1>2, <1>3, <1>6, EditOK
  <1>8. Regd(d) = Regd(e) \cup {m}
    BY <1>2, <1>6 DEF Regd
  <1>9. SaysSo(e, d, ms)
    <2>1. CASE new
      <3>1. RegStep(Regd(e), msg) = Regd(d) /\ msg.type \in ToMgrTypes
        BY <1>4, <1>8 DEF RegStep, ToMgrTypes
      <3>. QED BY <2>1, <3>1 DEF SaysSo
    <2>2. CASE ~new
      <3>1. m \in Regd(e)
        BY <1>2, <2>2 DEF Regd
      <3>. QED BY <1>8, <2>2, <3>1 DEF SaysSo
    <2>. QED BY <2>1, <2>2
  <1> HIDE DEF ms
  <1>. QED BY <1>1, <1>5, <1>7, <1>9, CallAndSendStep

\* DeregisterMsgIDs: only the last deregistration of an ID is sent.
LEMMA DeregisterStep ==
  ASSUME SessionInv, NEW c \in Clients, NEW m \in MsgIDs, DeregisterMsgIDs(c, m)
  PROVE  SessionInv'
  <1> DEFINE e    == clt[c]
             last == e.registered[m] = 1
             msg  == RegMsg("Deregister", e.clientID, e.groupID, {m})
             d    == [e EXCEPT !.registered[m] = @ - 1]
             ms   == IF last THEN <<msg>> ELSE <<>>
  <1>1. e.phase # "open" /\ CallAndSend(c, d, ms) /\ e.registered[m] > 0
    BY DEF DeregisterMsgIDs, MayCall
  <1>2. EntryOK(e) /\ e.registered \in [MsgIDs -> Nat]
    BY ClientFacts DEF EntryOK
  <1>3. /\ SameButFor(e, d, {"registered"})
        /\ d.registered = [e.registered EXCEPT ![m] = e.registered[m] - 1]
    BY <1>2 DEF SameButFor, EntryOK, IsRec, CltFields
  <1>4. msg.type = "Deregister" /\ msg.msgIDs = {m}
    BY DEF RegMsg
  <1> HIDE DEF d, msg
  <1>5. d.phase = e.phase /\ d.sock = e.sock /\ d.sendFailed = e.sendFailed
    BY <1>3 DEF SameButFor, CltFields
  <1>6. d.registered \in [MsgIDs -> Nat] /\ d.registered[m] = e.registered[m] - 1
        /\ \A x \in MsgIDs : x # m => d.registered[x] = e.registered[x]
    BY <1>1, <1>2, <1>3
  <1>7. EntryOK(d)
    BY <1>2, <1>3, <1>6, EditOK
  <1>8. SaysSo(e, d, ms)
    <2>1. CASE last
      <3>1. Regd(d) = Regd(e) \ {m}
        BY <1>2, <1>6, <2>1 DEF Regd
      <3>2. RegStep(Regd(e), msg) = Regd(d) /\ msg.type \in ToMgrTypes
        BY <1>4, <3>1 DEF RegStep, ToMgrTypes
      <3>. QED BY <2>1, <3>2 DEF SaysSo
    <2>2. CASE ~last
      <3>1. Regd(d) = Regd(e)
        BY <1>1, <1>2, <1>6, <2>2 DEF Regd
      <3>. QED BY <2>2, <3>1 DEF SaysSo
    <2>. QED BY <2>1, <2>2
  <1> HIDE DEF ms
  <1>. QED BY <1>1, <1>5, <1>7, <1>8, CallAndSendStep

\* SetRegistrationHandler.
LEMMA SetHandlerStep ==
  ASSUME SessionInv, NEW c \in Clients, SetRegistrationHandler(c)
  PROVE  SessionInv'
  <1> DEFINE e  == clt[c]
             d  == [e EXCEPT !.handler = TRUE]
             ms == <<Wanted(TRUE)>>
  <1>1. e.phase # "open" /\ CallAndSend(c, d, ms)
    BY DEF SetRegistrationHandler
  <1>2. EntryOK(e)
    BY ClientFacts
  <1>3. SameButFor(e, d, {"handler"})
    BY <1>2 DEF SameButFor, EntryOK, IsRec, CltFields
  <1> HIDE DEF d
  <1>4. d.phase = e.phase /\ d.sock = e.sock /\ d.sendFailed = e.sendFailed /\ d.registered = e.registered
    BY <1>3 DEF SameButFor, CltFields
  <1>5. EntryOK(d)
    BY <1>2, <1>3, EditOK
  <1>6. SaysSo(e, d, ms)
    <2>1. Wanted(TRUE).type = "Wanted"
      BY DEF Wanted
    <2>2. Regd(d) = Regd(e) /\ RegStep(Regd(e), Wanted(TRUE)) = Regd(e) /\ Wanted(TRUE).type \in ToMgrTypes
      BY <1>4, <2>1 DEF Regd, RegStep, ToMgrTypes
    <2>. QED BY <2>2 DEF SaysSo
  <1> HIDE DEF ms
  <1>. QED BY <1>1, <1>4, <1>5, <1>6, CallAndSendStep

\* RequestGroupID.
LEMMA RequestGroupIDStep ==
  ASSUME SessionInv, NEW c \in Clients, NEW str, NEW wait \in BOOLEAN, RequestGroupID(c, str, wait)
  PROVE  SessionInv'
  <1> DEFINE e == clt[c]
             d == [e EXCEPT !.groupStr = str]
             k == e.sock
             s == socks[k]
  <1>1. e.phase # "open" /\ (wait => e.phase = "up") /\ UNCHANGED <<proxies, mgr>>
    BY DEF RequestGroupID, MayCall
  <1>2. EntryOK(e) /\ Agrees(e, socks, proxies)
    BY ClientFacts
  <1>3. SameButFor(e, d, {"groupStr"})
    BY <1>2 DEF SameButFor, EntryOK, IsRec, CltFields
  <1>4. CASE ~HasImpl(c)
    <2>1. clt' = [clt EXCEPT ![c] = d] /\ UNCHANGED socks
      BY <1>4 DEF RequestGroupID
    <2>2. e.phase \in Away
      BY <1>1, <1>2, <1>4 DEF HasImpl, EntryOK
    <2> HIDE DEF d
    <2>3. EntryOK(d) /\ d.phase \in Away
      <3>1. EntryOK(d)
        BY <1>2, <1>3, EditOK
      <3>. QED BY <1>3, <2>2, <3>1 DEF SameButFor, CltFields
    <2>. QED BY <1>1, <2>1, <2>3, IdleStep
  <1>5. CASE HasImpl(c) /\ SendThrows(c)
    <2> DEFINE u == Unconnected(c)
               f == [u EXCEPT !.groupStr = str]
    <2>1. CloseByCall(c, f)
      BY <1>5 DEF RequestGroupID
    <2>2. EntryOK(u)
      BY UnconnectedOK
    <2> HIDE DEF u
    <2>3. SameButFor(u, f, {"groupStr"})
      BY <2>2 DEF SameButFor, EntryOK, IsRec, CltFields
    <2> HIDE DEF f
    <2>4. EntryOK(f)
      BY <2>2, <2>3, EditOK
    <2>. QED BY <1>1, <1>5, <2>1, <2>4, CloseByCallOK
  <1>6. CASE HasImpl(c) /\ ~SendThrows(c)
    <2> DEFINE ph  == IF wait THEN "group" ELSE e.phase
               f   == [d EXCEPT !.groupID = -1, !.phase = ph]
               msg == [type |-> "GroupStr", str |-> str]
    <2>1. EntryOK(d) /\ d.phase = e.phase
      <3>1. EntryOK(d)
        <4> HIDE DEF d
        <4>. QED BY <1>2, <1>3, EditOK
      <3>. QED BY <1>3, <3>1 DEF SameButFor, CltFields
    <2>2. clt' = [clt EXCEPT ![c] = f] /\ socks' = Sent(c, <<msg>>)
      BY <1>6, <2>1 DEF RequestGroupID, EntryOK, IsRec, CltFields
    <2>3. e.phase \in {"wait", "up", "group"}
      BY <1>6 DEF HasImpl
    <2>4. /\ ph \in {"wait", "up", "group"}
          /\ \/ ph = e.phase
             \/ ph \in {"up", "group"} /\ e.phase \in {"up", "group"}
      BY <1>1, <2>3
    <2> HIDE DEF d, ph
    <2>5. SameButFor(d, f, {"groupID", "phase"}) /\ f.phase = ph
      BY <2>1 DEF SameButFor, EntryOK, IsRec, CltFields
    <2> HIDE DEF f
    <2>6. EntryOK(f)
      BY <2>1, <2>4, <2>5, EditOK
    <2>7. f.sock = e.sock /\ f.sendFailed = e.sendFailed /\ f.registered = e.registered
      BY <1>3, <2>5 DEF SameButFor, CltFields
    <2>8. msg.type \in {"GroupStr", "Wanted", "NumSlabs"} /\ msg.type \in ToMgrTypes
      BY DEF ToMgrTypes
    <2> HIDE DEF msg
    <2>9. IsSeq(s.toMgr)
      BY <2>3, ClientFacts DEF SockOK
    <2>10. Fits(e, k, s.mgrEnd, s.toMgr)
      BY <1>2, <2>3 DEF Agrees, Fits
    <2>11. Fits(f, k, s.mgrEnd, Append(s.toMgr, msg))
      <3> DEFINE q   == s.toMgr
                 end == s.mgrEnd
      <3>1. IsSeq(q) /\ Fits(e, k, end, q) /\ e.phase # "open"
        BY <1>1, <2>9, <2>10
      <3>2. \/ f.phase = e.phase
            \/ f.phase \in {"up", "group"} /\ e.phase \in {"up", "group"}
        BY <2>4, <2>5
      <3> HIDE DEF q, end, k, e
      <3>3. Fits(f, k, end, Append(q, msg))
        BY <2>7, <2>8, <3>1, <3>2, OtherMessage
      <3>. QED BY <3>3 DEF q, end
    <2>12. f.phase \notin Away /\ e.phase \notin Away
      BY <2>3, <2>4, <2>5
    <2>. QED BY <1>1, <2>2, <2>6, <2>7, <2>8, <2>11, <2>12, SendsOne
  <1>. QED BY <1>4, <1>5, <1>6

\* Every step preserves the invariant.
LEMMA SessionNext ==
  ASSUME SessionInv, [Next]_vars
  PROVE  SessionInv'
  <1>1. ASSUME NEW c \in Clients, Call(c)
        PROVE  SessionInv'
    <2>1. CASE SetRegistrationHandler(c)
      BY <2>1, SetHandlerStep
    <2>2. ASSUME NEW m \in MsgIDs, RegisterMsgIDs(c, m) \/ DeregisterMsgIDs(c, m)
          PROVE  SessionInv'
      BY <2>2, RegisterStep, DeregisterStep
    <2>3. ASSUME NEW str \in Groups, NEW wait \in BOOLEAN, RequestGroupID(c, str, wait)
          PROVE  SessionInv'
      BY <2>3, RequestGroupIDStep
    <2>4. CASE CloseCall(c)
      <3>1. HasImpl(c) /\ CloseByCall(c, Unconnected(c)) /\ UNCHANGED <<proxies, mgr>>
        BY <2>4 DEF CloseCall
      <3>. QED BY <3>1, UnconnectedOK, CloseByCallOK
    <2>. QED BY <1>1, <2>1, <2>2, <2>3, <2>4 DEF Call
  <1>2. ASSUME NEW c \in Clients, Runs(c)
        PROVE  SessionInv'
    <2>1. CASE Disconnect(c)
      <3>1. clt[c].phase \notin Away /\ Close(c) /\ UNCHANGED <<proxies, mgr>>
        BY <2>1 DEF Disconnect, HasImpl
      <3>. QED BY <3>1, CloseOK
    <2>. QED BY <1>2, <2>1, OpenStep, ConstructStep, ConnectedStep, PollStep DEF Runs
  <1>3. ASSUME NEW c \in Clients, GroupTimeout(c)
        PROVE  SessionInv'
    <2>1. clt[c].phase \notin Away /\ Close(c) /\ UNCHANGED <<proxies, mgr>>
      BY <1>3 DEF GroupTimeout
    <2>. QED BY <2>1, CloseOK
  <1>4. ASSUME NEW k \in SockIDs, Accept(k) \/ Readable(k)
        PROVE  SessionInv'
    BY <1>4, AcceptStep, ReadableStep
  <1>5. CASE Stop \/ Start
    BY <1>5, StopStep, StartStep
  <1>6. CASE UNCHANGED vars
    <2>1. clt' = clt /\ socks' = socks /\ proxies' = proxies /\ mgr' = mgr
      BY <1>6 DEF vars
    <2>. QED BY <2>1 DEF SessionInv
  <1>. QED BY <1>1, <1>2, <1>3, <1>4, <1>5, <1>6 DEF Next

\* It holds at the start.
LEMMA SessionInit ==
  ASSUME Init
  PROVE  SessionInv
  <1>1. SocksOK(socks)
    <2>1. IsFun(socks) /\ DOMAIN socks = SockIDs /\ \A k \in SockIDs : socks[k] = FreeSock
      BY DEF Init, IsFun
    <2>. QED BY <2>1, FreeSockOK DEF SocksOK
  <1>2. proxies = <<>> /\ DOMAIN proxies = {} /\ IsFun(proxies)
    BY DEF Init, IsFun
  <1>3. ProxiesOK(proxies)
    BY <1>2, FS_EmptySet DEF ProxiesOK
  <1>4. EndsOK(Pair(socks, proxies))
    <2>1. \A k \in SockIDs : socks[k].mgrEnd = "closed"
      BY DEF Init, FreeSock
    <2>. QED BY <1>2, <2>1, PairParts DEF EndsOK
  <1>5. /\ mgr.groups = <<>> /\ IsRec(mgr, MgrFields) /\ mgr.nextNewGroupID = 1
        /\ mgr.nextNewClientID = 0
    BY DEF Init, IsRec, MgrFields
  <1>6. DOMAIN mgr.groups = {} /\ IsFun(mgr.groups)
    BY <1>5 DEF IsFun
  <1>7. MgrOK(mgr)
    BY <1>5, <1>6, FS_EmptySet DEF MgrOK, GroupsOK
  <1>8. Counted(mgr.groups, proxies)
    BY <1>2, <1>6 DEF Counted
  <1>9. StateOK(socks, proxies, mgr)
    <2>1. Distinct(proxies)
      BY <1>2 DEF Distinct
    <2>. QED BY <1>1, <1>3, <1>4, <1>7, <1>8, <2>1, PairParts DEF StateOK, ManagerOK
  <1>10. IsFun(clt) /\ DOMAIN clt = Clients
    BY DEF Init, IsFun
  <1>11. ASSUME NEW c \in Clients
         PROVE  CltOK(c, clt[c], socks, proxies)
    <2> DEFINE e == clt[c]
    <2>1. e = [phase |-> "idle", sock |-> None, sendFailed |-> FALSE,
               clientID |-> -1, groupID |-> 0, numSlabs |-> FALSE,
               registered |-> [m \in MsgIDs |-> 0],
               groupStr |-> None, handler |-> FALSE, view |-> <<>>]
      BY DEF Init
    <2> HIDE DEF e
    <2>2. e.phase \in Away /\ e.sendFailed = FALSE /\ e.registered = [m \in MsgIDs |-> 0]
      BY <2>1
    <2>3. IsRec(e, CltFields)
      BY <2>1 DEF IsRec, CltFields
    <2>4. EntryOK(e)
      <3>1. [m \in MsgIDs |-> 0] \in [MsgIDs -> Nat]
        OBVIOUS
      <3>. QED BY <2>2, <2>3, <3>1 DEF EntryOK
    <2>5. CltOK(c, e, socks, proxies)
      BY <2>2, <2>4 DEF CltOK, Holds, Agrees
    <2>. QED BY <2>5 DEF e
  <1>. QED BY <1>9, <1>10, <1>11 DEF SessionInv

\* The inductive invariant is an invariant.
LEMMA SessionAlways == Spec => []SessionInv
  <1>1. Init => SessionInv
    BY SessionInit
  <1>2. SessionInv /\ [Next]_vars => SessionInv'
    BY SessionNext
  <1>. QED BY <1>1, <1>2, PTL DEF Spec

\* For any number of clients, sockets, IDs and group strings: however clients join groups, leave,
\* break down or are cut off, and whenever the manager restarts, GroupManager's count of a group is
\* the number of its members, a group lives exactly as long as it has members, and no two groups
\* share an ID although NewGroupStr reuses IDs.
THEOREM GroupsAreCounted == Spec => []GroupsCounted
  <1>1. SessionInv => GroupsCounted
    <2> SUFFICES ASSUME SessionInv
                 PROVE  GroupsCounted
      OBVIOUS
    <2>1. Counted(mgr.groups, proxies)
      BY PairParts DEF SessionInv, StateOK, ManagerOK
    <2>. QED BY <2>1 DEF Counted, Members, GroupsCounted
  <1>. QED BY <1>1, SessionAlways, PTL

\* GetNewClientID reuses the IDs of clients that have gone, and wraps around: still no two
\* connected clients ever have the same ID, and it always finds one, since AddConnectedClient
\* admits fewer clients than there are IDs.
THEOREM ClientIDsDistinct ==
  Spec => [](\A j, k \in DOMAIN proxies : proxies[j].clientID = proxies[k].clientID => j = k)
  <1>1. SessionInv => \A j, k \in DOMAIN proxies : proxies[j].clientID = proxies[k].clientID => j = k
    BY PairParts DEF SessionInv, StateOK, ManagerOK, Distinct
  <1>. QED BY <1>1, SessionAlways, PTL

\* For any number of clients and calls: what a connected client has registered, counted over all
\* calls of RegisterMsgIDs and DeregisterMsgIDs before, during and after its connection, is what
\* ClientProxy has for it once the messages under way are handled.
THEOREM RegistrationsDoAgree == Spec => []RegistrationsAgree
  <1>1. SessionInv => RegistrationsAgree
    <2> SUFFICES ASSUME SessionInv, NEW c \in Clients,
                        clt[c].phase \in {"up", "group"}, ~clt[c].sendFailed,
                        clt[c].sock \in DOMAIN proxies
                 PROVE  RegsAfter(proxies[clt[c].sock].registered, socks[clt[c].sock].toMgr) = Registered(c)
      BY DEF RegistrationsAgree
    <2> DEFINE e == clt[c]
               k == e.sock
    <2>1. /\ Agrees(e, socks, proxies) /\ k \in SockIDs /\ EndsOK(Pair(socks, proxies))
      BY ClientFacts
    <2>2. socks[k].mgrEnd # "closed"
      BY <2>1, PairParts DEF EndsOK
    <2>3. AgreesAt(e.phase, Regd(e), Regs(proxies, k), socks[k].toMgr)
      BY <2>1, <2>2 DEF Agrees
    <2>4. Regs(proxies, k) = proxies[k].registered /\ Regd(e) = Registered(c)
      BY RegdIs DEF Regs
    <2>. QED BY <2>3, <2>4 DEF AgreesAt
  <1>. QED BY <1>1, SessionAlways, PTL
==============================================================================
