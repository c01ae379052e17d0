------------------------------ MODULE Session ------------------------------
(***************************************************************************)
(* Connections, groups and registrations: BaseClient and ClientImpl at one *)
(* end of a socket, SocketDaemon, ClientProxy and GroupManager at the      *)
(* other.                                                                  *)
(*                                                                         *)
(* A client connects in several steps while the manager serves others,     *)
(* registers and asks for a group at any time, also from a callback while  *)
(* it connects, and reconnects when the connection is lost; the manager    *)
(* may be restarted.  A socket is a FIFO in each direction; framing is in  *)
(* SocketEndpoint.  One step handles one message.                          *)
(***************************************************************************)
EXTENDS Integers, SequencesExt, FiniteSetsExt

CONSTANTS
  Clients,        \* client processes
  Watchers,       \* those that ask for registrations, as mcsb_regs does
  MsgIDs,         \* message IDs, without kCCIMessageID
  Groups,         \* group strings, not empty
  SockIDs,        \* sockets, <<client, number>>: how many of a client may be alive at a time
  kMaxClientID, kMaxGroupID, maxNumClients,
  SockCap,        \* messages that fit in a socket towards a client
  MaxCalls        \* bound: calls that the applications make and restarts of the manager

None == "none"

ASSUME SessionAssumption ==
  /\ Watchers \subseteq Clients /\ SockIDs \subseteq Clients \X Nat
  /\ {kMaxClientID, kMaxGroupID, MaxCalls} \subseteq Nat
  /\ {maxNumClients, SockCap} \subseteq Nat \ {0}
  /\ maxNumClients <= kMaxClientID + 1 /\ None \notin Groups

VARIABLES
  clt,     \* the clients
  socks,   \* the sockets
  proxies, \* the manager's clients: a function on the sockets it serves
  mgr,     \* the rest of the manager
  calls    \* number of calls that the applications have made, and restarts

vars == <<clt, socks, proxies, mgr, calls>>

FreeSock == [toMgr |-> <<>>, toClt |-> <<>>, cltOpen |-> FALSE, mgrEnd |-> "closed"]

\* a socket that both ends have closed is forgotten
Forget(s) == [k \in SockIDs |-> IF ~s[k].cltOpen /\ s[k].mgrEnd = "closed" THEN FreeSock ELSE s[k]]

Unconnected(c) ==
  [clt[c] EXCEPT !.phase = "idle", !.sock = None, !.sendFailed = FALSE, !.clientID = -1,
                 !.groupID = 0, !.numSlabs = FALSE, !.view = <<>>]

Init ==
  /\ clt = [c \in Clients |->
       [phase |-> "idle", sock |-> None, sendFailed |-> FALSE,
        clientID |-> -1, groupID |-> 0, numSlabs |-> FALSE,
        registered |-> [m \in MsgIDs |-> 0],  \* registeredMsgIDs
        groupStr |-> None, handler |-> FALSE,
        view |-> <<>>]]                       \* what the registration handler was told
  /\ socks = [k \in SockIDs |-> FreeSock]
  /\ proxies = <<>>
  /\ mgr = [up |-> TRUE, nextNewClientID |-> 0, nextNewGroupID |-> 1,
            groups |-> <<>>]                  \* strToGroupID and groupIDToStr: str -> gid, count
  /\ calls = 0

-----------------------------------------------------------------------------
(***************************************************************************)
(* The manager's maps and sends.  m is [socks, proxies].                   *)
(***************************************************************************)
FnWith(f, x, y)  == [z \in DOMAIN f \cup {x} |-> IF z = x THEN y ELSE f[z]]
FnWithout(f, xs) == [z \in DOMAIN f \ xs |-> f[z]]

ClientIDs(p) == {p[k].clientID : k \in DOMAIN p}
SockOf(p, cid) == CHOOSE k \in DOMAIN p : p[k].clientID = cid
\* the order of the map of clients
InMapOrder(p) == LET cids == SetToSortSeq(ClientIDs(p), <)
                 IN  [i \in 1..Len(cids) |-> SockOf(p, cids[i])]

M == [socks |-> socks, proxies |-> proxies]

\* Proxy `by' sends msg through socket k, its own unless it fakes its sockFD.
\* A full socket is shut down; also when the peer has closed, the send throws
\* and `by' refuses to send from then on.
SendBy(m, by, k, msg) ==
  LET s    == m.socks[k]
      full == Len(s.toClt) >= SockCap
  IN  IF m.proxies[by].sendFailed THEN m
      ELSE IF s.cltOpen /\ ~full THEN [m EXCEPT !.socks[k].toClt = Append(@, msg)]
      ELSE [m EXCEPT !.proxies[by].sendFailed = TRUE,
                     !.socks[k].mgrEnd = IF s.cltOpen THEN "shut" ELSE @]

\* Manager::SendRegistration, to every client that wants them
SendRegistration(m, msg) ==
  LET wants == {k \in DOMAIN m.proxies : m.proxies[k].wantRegistrations}
  IN  [socks   |-> [k \in SockIDs |->
                      IF k \in wants THEN SendBy(m, k, k, msg).socks[k] ELSE m.socks[k]],
       proxies |-> [k \in DOMAIN m.proxies |->
                      IF k \in wants THEN SendBy(m, k, k, msg).proxies[k] ELSE m.proxies[k]]]

RegMsg(type, cid, gid, ids) == [type |-> type, clientID |-> cid, groupID |-> gid, msgIDs |-> ids]

\* SendRegistrationsToFD: every proxy sends its registrations through socket k.  When that is
\* full, or the peer has closed it, those whose turn comes refuse to send from then on.
SendRegistrationsToFD(m, k) ==
  LET s       == m.socks[k]
      Reg(by) == RegMsg("Register", m.proxies[by].clientID, m.proxies[by].groupID,
                        m.proxies[by].registered)
      senders == SelectSeq(InMapOrder(m.proxies),
                   LAMBDA by : m.proxies[by].registered # {} /\ ~m.proxies[by].sendFailed)
      n       == IF s.cltOpen THEN Min({Len(senders), SockCap - Len(s.toClt)}) ELSE 0
      failed  == {senders[i] : i \in (n + 1)..Len(senders)}
  IN  [socks   |-> [m.socks EXCEPT ![k].toClt = @ \o [i \in 1..n |-> Reg(senders[i])],
                                   ![k].mgrEnd = IF failed # {} /\ s.cltOpen THEN "shut" ELSE @],
       proxies |-> [by \in DOMAIN m.proxies |->
                      [m.proxies[by] EXCEPT !.sendFailed = @ \/ by \in failed]]]

-----------------------------------------------------------------------------
(***************************************************************************)
(* GroupManager.  groups maps the string to its ID and count.              *)
(***************************************************************************)
GroupIDs(g) == {g[str].gid : str \in DOMAIN g}

\* the IDs in the order in which NewGroupStr tries them
NthID(n) == ((mgr.nextNewGroupID - 1 + n) % kMaxGroupID) + 1

NewGroupStr(str) ==
  IF Cardinality(DOMAIN mgr.groups) >= kMaxGroupID
  THEN [gid |-> -1, mgr |-> mgr]
  ELSE LET n == Min({i \in 0..(kMaxGroupID - 1) : NthID(i) \notin GroupIDs(mgr.groups)})
       IN  [gid |-> NthID(n),
            mgr |-> [mgr EXCEPT !.nextNewGroupID = NthID(n + 1),
                                !.groups = FnWith(@, str, [gid |-> NthID(n), count |-> 0])]]

IncGroupID(m, str) == [m EXCEPT !.groups[str].count = @ + 1]

\* GetGroupID with its default arguments: creates the group and counts its use
GetGroupID(str) ==
  LET found == IF str \in DOMAIN mgr.groups
               THEN [gid |-> mgr.groups[str].gid, mgr |-> mgr] ELSE NewGroupStr(str)
  IN  IF found.gid = -1 THEN found ELSE [found EXCEPT !.mgr = IncGroupID(@, str)]

\* Mutant: the group is kept when the last member leaves.
KeepGroupID(m, gid) ==
  LET strs == {str \in DOMAIN m.groups : m.groups[str].gid = gid}
  IN  [m EXCEPT !.groups = [str \in DOMAIN @ |->
         IF str \in strs THEN [@[str] EXCEPT !.count = @ - 1] ELSE @[str]]]

DecGroupID(m, gid) ==
  LET strs == {str \in DOMAIN m.groups : m.groups[str].gid = gid}
      less == [str \in DOMAIN m.groups |->
                 IF str \in strs THEN [m.groups[str] EXCEPT !.count = @ - 1] ELSE m.groups[str]]
  IN  [m EXCEPT !.groups = FnWithout(less, {str \in strs : less[str].count = 0})]

-----------------------------------------------------------------------------
(***************************************************************************)
(* SocketDaemon: accepting and deleting clients.                           *)
(***************************************************************************)
\* the client IDs in the order in which GetNewClientID tries them
GetNewClientID ==
  LET Nth(n) == (mgr.nextNewClientID + n) % (kMaxClientID + 1)
      used   == ClientIDs(proxies)
  IN  Nth(Min({n \in 0..kMaxClientID : Nth(n) \notin used}))

Refuse(k) == Forget([socks EXCEPT ![k].mgrEnd = "closed"])

\* ReadListener and AddConnectedClient; the proxy's constructor throws when the
\* client has gone already.  The name of the shared memory goes with the client ID.
Accept(k) ==
  /\ mgr.up /\ socks[k].mgrEnd = "backlog"
  /\ IF Cardinality(DOMAIN proxies) >= maxNumClients
     THEN /\ socks' = Refuse(k)
          /\ UNCHANGED <<proxies, mgr>>
     ELSE /\ mgr' = [mgr EXCEPT !.nextNewClientID = (GetNewClientID + 1) % (kMaxClientID + 1)]
          /\ IF ~socks[k].cltOpen
             THEN /\ socks' = Refuse(k)
                  /\ UNCHANGED proxies
             ELSE LET p  == [clientID |-> GetNewClientID, groupID |-> 0, registered |-> {},
                             wantRegistrations |-> FALSE, sendFailed |-> FALSE]
                      m  == [socks |-> [socks EXCEPT ![k].mgrEnd = "open"],
                             proxies |-> FnWith(proxies, k, p)]
                      m1 == SendBy(m, k, k, [type |-> "ClientID", id |-> p.clientID])
                  IN  /\ socks' = m1.socks
                      /\ proxies' = m1.proxies
  /\ UNCHANGED <<clt, calls>>

\* Mutant: watchers are not told about the registrations of a client that has gone.
DeleteQuietly(m, g, k) ==
  LET p == m.proxies[k]
  IN  /\ mgr' = DecGroupID(g, p.groupID)
      /\ socks' = Forget([m.socks EXCEPT ![k].mgrEnd = "closed"])
      /\ proxies' = FnWithout(m.proxies, {k})

(***************************************************************************)
(* DeleteClient: out of the map, then ~ClientProxy, then close.  m and g   *)
(* are what the handler left behind.                                       *)
(***************************************************************************)
DeleteClient(m, g, k) ==
  LET p     == m.proxies[k]
      dereg == RegMsg("Deregister", p.clientID, p.groupID, p.registered)
      m1    == [m EXCEPT !.proxies = FnWithout(@, {k})]
  IN  \E m2 \in {IF p.registered = {} THEN m1 ELSE SendRegistration(m1, dereg)} :
        /\ mgr' = DecGroupID(g, p.groupID)
        /\ socks' = Forget([m2.socks EXCEPT ![k].mgrEnd = "closed"])
        /\ proxies' = m2.proxies

-----------------------------------------------------------------------------
(***************************************************************************)
(* ClientProxy: the handlers.  Each is [m, g, throws].                     *)
(***************************************************************************)
Done(m, k) == [m |-> m, g |-> mgr, throws |-> m.proxies[k].sendFailed]
Throw(m)   == [m |-> m, g |-> mgr, throws |-> TRUE]

HandleRegistration(m, k, msg) ==
  LET p   == m.proxies[k]
      reg == msg.type = "Register"
      new == IF reg THEN msg.msgIDs \ p.registered ELSE msg.msgIDs \cap p.registered
      m1  == [m EXCEPT !.proxies[k].registered = IF reg THEN @ \cup new ELSE @ \ new]
      m2  == IF new = {} THEN m1
             ELSE SendRegistration(m1, RegMsg(msg.type, msg.clientID, msg.groupID, new))
  IN  IF msg.clientID # p.clientID \/ msg.groupID # p.groupID THEN Throw(m)
      ELSE [m |-> m2, g |-> mgr, throws |-> FALSE]

HandleGroupIDStr(m, k, str) ==
  LET p   == m.proxies[k]
      got == GetGroupID(str)
      m1  == [m EXCEPT !.proxies[k].groupID = got.gid]
      m2  == SendBy(m1, k, k, [type |-> "GroupID", id |-> got.gid])
  IN  IF p.registered # {} \/ p.groupID # 0 THEN Throw(m)
      ELSE [Done(m2, k) EXCEPT !.g = got.mgr]

HandleRegistrationsWanted(m, k, wanted) ==
  LET m1 == [m EXCEPT !.proxies[k].wantRegistrations = wanted]
      m2 == IF wanted THEN SendRegistrationsToFD(m1, k) ELSE m1
  IN  [m |-> m2, g |-> mgr, throws |-> FALSE]

\* the reservation is granted; the Manager module has the other case
HandleNumSlabs(m, k) == Done(SendBy(m, k, k, [type |-> "NumSlabs"]), k)

Handle(m, k, msg) ==
  CASE msg.type \in {"Register", "Deregister"} -> HandleRegistration(m, k, msg)
    [] msg.type = "GroupStr" -> HandleGroupIDStr(m, k, msg.str)
    [] msg.type = "Wanted"   -> HandleRegistrationsWanted(m, k, msg.wanted)
    [] msg.type = "NumSlabs" -> HandleNumSlabs(m, k)

\* Readable: a message is handled; an exception, or the end of the stream, is the
\* end of the client
Readable(k) ==
  /\ k \in DOMAIN proxies
  /\ \/ /\ socks[k].toMgr # <<>>
        /\ \E h \in {Handle([M EXCEPT !.socks[k].toMgr = Tail(@)], k, Head(socks[k].toMgr))} :
             IF h.throws THEN DeleteClient(h.m, h.g, k)
             ELSE socks' = h.m.socks /\ proxies' = h.m.proxies /\ mgr' = h.g
     \/ /\ socks[k].toMgr = <<>> /\ (~socks[k].cltOpen \/ socks[k].mgrEnd = "shut")
        /\ DeleteClient(M, mgr, k)
  /\ UNCHANGED <<clt, calls>>

\* The manager ends, by a signal or otherwise, and is started again; clients that
\* try to connect meanwhile are refused.
Stop ==
  /\ mgr.up /\ calls < MaxCalls
  /\ calls' = calls + 1
  /\ mgr' = [up |-> FALSE, nextNewClientID |-> 0, nextNewGroupID |-> 1, groups |-> <<>>]
  /\ socks' = Forget([k \in SockIDs |-> [socks[k] EXCEPT !.mgrEnd = "closed"]])
  /\ proxies' = <<>>
  /\ UNCHANGED clt

Start ==
  /\ ~mgr.up
  /\ mgr' = [mgr EXCEPT !.up = TRUE]
  /\ UNCHANGED <<clt, socks, proxies, calls>>

-----------------------------------------------------------------------------
(***************************************************************************)
(* The client.  Phases: idle (no cimpl), open (the socket is, cimpl is     *)
(* being constructed), wait (the loop of Connect), up, group (the loop of  *)
(* RequestGroupID), and crashed.                                           *)
(***************************************************************************)
HasImpl(c) == clt[c].phase \in {"wait", "up", "group"}

\* Close with the change d to the rest of the client's state
CloseAs(c, d) ==
  /\ clt' = [clt EXCEPT ![c] = d]
  /\ socks' = Forget([socks EXCEPT ![clt[c].sock].cltOpen = FALSE])

Close(c) == CloseAs(c, Unconnected(c))

\* The application calls Close, or RequestGroupID does, which deletes cimpl.  From the
\* kPoll callback the loop that called back goes on with it: that of Connect with a null
\* pointer, that of RequestGroupID with a deleted object, which may not be overwritten
\* yet and then finds its socket closed.  A process that dies closes its socket, too.
After(phase) == CASE phase = "up"    -> {"idle"}
                  [] phase = "wait"  -> {"crashed"}
                  [] phase = "group" -> {"idle", "crashed"}
CloseByCall(c, d) == \E after \in After(clt[c].phase) : CloseAs(c, [d EXCEPT !.phase = after])

\* a send on a socket that the manager has closed or shut down throws
SendThrows(c) == clt[c].sendFailed \/ socks[clt[c].sock].mgrEnd \in {"closed", "shut"}
Sent(c, msgs) == [socks EXCEPT ![clt[c].sock].toMgr = @ \o msgs]

Open(c) ==
  /\ clt[c].phase = "idle" /\ mgr.up
  /\ \E k \in SockIDs :
       /\ k[1] = c /\ socks[k] = FreeSock
       /\ \A j \in SockIDs : j[1] = c /\ j[2] < k[2] => socks[j] # FreeSock
       /\ socks' = [socks EXCEPT ![k].cltOpen = TRUE, ![k].mgrEnd = "backlog"]
       /\ clt' = [clt EXCEPT ![c].phase = "open", ![c].sock = k]
  /\ UNCHANGED <<proxies, mgr, calls>>

\* Mutant: the group is not asked for again after a reconnection.
ConstructOnly(c) ==
  /\ clt[c].phase = "open"
  /\ IF socks[clt[c].sock].mgrEnd = "closed"
     THEN Close(c)
     ELSE clt' = [clt EXCEPT ![c].phase = "wait"] /\ UNCHANGED socks
  /\ UNCHANGED <<proxies, mgr, calls>>

\* The constructor of ClientImpl, then the request for a group.  When the manager has
\* refused by now the constructor throws: cimpl is not set, so Close does nothing, and
\* the descriptor leaks (the model forgets it).
Construct(c) ==
  /\ clt[c].phase = "open"
  /\ IF socks[clt[c].sock].mgrEnd = "closed"
     THEN Close(c)
     ELSE /\ clt' = [clt EXCEPT ![c].phase = "wait",
                                ![c].groupID = IF clt[c].groupStr = None THEN 0 ELSE -1]
          /\ socks' = Sent(c, IF clt[c].groupStr = None THEN <<>>
                              ELSE <<[type |-> "GroupStr", str |-> clt[c].groupStr]>>)
  /\ UNCHANGED <<proxies, mgr, calls>>

Registered(c) == {m \in MsgIDs : clt[c].registered[m] > 0}
Wanted(b) == [type |-> "Wanted", wanted |-> b]

\* Mutant: registrations made before the connection are not sent.
ConnectedForgets(c) ==
  /\ clt[c].phase = "wait" /\ clt[c].numSlabs
  /\ clt[c].groupStr # None => clt[c].groupID > 0
  /\ ~SendThrows(c)
  /\ clt' = [clt EXCEPT ![c].phase = "up"]
  /\ socks' = Sent(c, <<Wanted(clt[c].handler)>>)
  /\ UNCHANGED <<proxies, mgr, calls>>

\* the end of Connect
Connected(c) ==
  LET reg == RegMsg("Register", clt[c].clientID, clt[c].groupID, Registered(c))
  IN  /\ clt[c].phase = "wait" /\ clt[c].numSlabs
      /\ clt[c].groupStr # None => clt[c].groupID > 0
      /\ IF SendThrows(c) THEN Close(c)
         ELSE /\ clt' = [clt EXCEPT ![c].phase = "up"]
              /\ socks' = Sent(c, (IF Registered(c) = {} THEN <<>> ELSE <<reg>>)
                                    \o <<Wanted(clt[c].handler)>>)
      /\ UNCHANGED <<proxies, mgr, calls>>

\* HandleRegMsg of mcsb_regs, AddMsgIDs or DelMsgIDs; what it prints is left out
HandleRegMsg(view, msg) ==
  LET known == IF msg.clientID \in DOMAIN view THEN view[msg.clientID].msgIDs ELSE {}
      left  == known \ msg.msgIDs
  IN  IF msg.type = "Register"
      THEN FnWith(view, msg.clientID, [groupID |-> msg.groupID, msgIDs |-> known \cup msg.msgIDs])
      ELSE IF left = {} THEN FnWithout(view, {msg.clientID})
      ELSE [view EXCEPT ![msg.clientID].msgIDs = left]

\* ClientImpl::HandleRegistration
HandleRegistrationMsg(c, msg) ==
  IF clt[c].handler THEN HandleRegMsg(clt[c].view, msg) ELSE clt[c].view

\* Poll handles a message
Poll(c) ==
  LET k   == clt[c].sock
      msg == Head(socks[k].toClt)
      s   == [socks EXCEPT ![k].toClt = Tail(@)]
  IN  /\ HasImpl(c) /\ ~clt[c].sendFailed /\ socks[k].toClt # <<>>
      /\ \/ /\ msg.type = "ClientID"    \* and ComputeAndSendNumSlabs
            /\ IF SendThrows(c) THEN Close(c)
               ELSE /\ clt' = [clt EXCEPT ![c].clientID = msg.id]
                    /\ socks' = [s EXCEPT ![k].toMgr = Append(@, [type |-> "NumSlabs"])]
         \/ /\ msg.type = "NumSlabs"
            /\ clt' = [clt EXCEPT ![c].numSlabs = TRUE]
            /\ socks' = s
         \/ /\ msg.type = "GroupID"
            /\ clt' = [clt EXCEPT ![c].groupID = msg.id,
                                  ![c].phase = IF @ = "group" /\ msg.id >= 0 THEN "up" ELSE @]
            /\ socks' = s
         \/ /\ msg.type \in {"Register", "Deregister"}
            /\ clt' = [clt EXCEPT ![c].view = HandleRegistrationMsg(c, msg)]
            /\ socks' = s
      /\ UNCHANGED <<proxies, mgr, calls>>

\* Poll finds the connection closed by the manager, or a send has failed before
Disconnect(c) ==
  /\ HasImpl(c)
  /\ \/ clt[c].sendFailed
     \/ socks[clt[c].sock].toClt = <<>> /\ socks[clt[c].sock].mgrEnd = "closed"
  /\ Close(c)
  /\ UNCHANGED <<proxies, mgr, calls>>

-----------------------------------------------------------------------------
(***************************************************************************)
(* What the application calls, outside of Poll or from the kPoll callback  *)
(* of the loops.  A watcher sets its handler once, which is not counted.   *)
(***************************************************************************)
MayCall(c) == calls < MaxCalls /\ clt[c].phase \notin {"open", "crashed"}

\* d is the client after the call; msgs go to the manager if there is a cimpl.  A
\* failed send is noted by cimpl, and the exception is caught.
CallAndSend(c, d, msgs) ==
  /\ IF ~HasImpl(c) \/ msgs = <<>> \/ clt[c].sendFailed
     THEN clt' = [clt EXCEPT ![c] = d] /\ UNCHANGED socks
     ELSE IF SendThrows(c)
     THEN clt' = [clt EXCEPT ![c] = [d EXCEPT !.sendFailed = TRUE]] /\ UNCHANGED socks
     ELSE clt' = [clt EXCEPT ![c] = d] /\ socks' = Sent(c, msgs)
  /\ UNCHANGED <<proxies, mgr>>

\* SendRegistration waits for the client ID
RegisterMsgIDs(c, m) ==
  LET new == clt[c].registered[m] = 0
      msg == RegMsg("Register", clt[c].clientID, clt[c].groupID, {m})
  IN  /\ MayCall(c)
      /\ new /\ HasImpl(c) => clt[c].clientID >= 0
      /\ CallAndSend(c, [clt[c] EXCEPT !.registered[m] = @ + 1],
                     IF new THEN <<msg>> ELSE <<>>)

DeregisterMsgIDs(c, m) ==
  LET last == clt[c].registered[m] = 1
      msg  == RegMsg("Deregister", clt[c].clientID, clt[c].groupID, {m})
  IN  /\ MayCall(c) /\ clt[c].registered[m] > 0
      /\ last /\ HasImpl(c) => clt[c].clientID >= 0
      /\ CallAndSend(c, [clt[c] EXCEPT !.registered[m] = @ - 1],
                     IF last THEN <<msg>> ELSE <<>>)

SetRegistrationHandler(c) ==
  /\ c \in Watchers /\ ~clt[c].handler /\ clt[c].phase \notin {"open", "crashed"}
  /\ CallAndSend(c, [clt[c] EXCEPT !.handler = TRUE], <<Wanted(TRUE)>>)
  /\ UNCHANGED calls

\* The first call of RequestGroupID; a failed send closes the connection, and so does
\* a second call (CloseCall), wherever they are made.
RequestGroupID(c, str, wait) ==
  LET d == [clt[c] EXCEPT !.groupStr = str]
  IN  /\ MayCall(c) /\ clt[c].groupStr = None
      /\ wait => clt[c].phase = "up"
      /\ IF ~HasImpl(c)
         THEN clt' = [clt EXCEPT ![c] = d] /\ UNCHANGED socks
         ELSE IF SendThrows(c)
         THEN CloseByCall(c, [Unconnected(c) EXCEPT !.groupStr = str])
         ELSE /\ clt' = [clt EXCEPT ![c] = [d EXCEPT !.groupID = -1,
                                                     !.phase = IF wait THEN "group" ELSE @]]
              /\ socks' = Sent(c, <<[type |-> "GroupStr", str |-> str]>>)
      /\ UNCHANGED <<proxies, mgr>>

\* no answer within five seconds
GroupTimeout(c) ==
  /\ clt[c].phase = "group"
  /\ Close(c)
  /\ UNCHANGED <<proxies, mgr, calls>>

\* Close, or a second call of RequestGroupID
CloseCall(c) ==
  /\ MayCall(c) /\ HasImpl(c)
  /\ CloseByCall(c, Unconnected(c))
  /\ UNCHANGED <<proxies, mgr>>

Call(c) ==
  \/ SetRegistrationHandler(c)
  \/ /\ \/ \E m \in MsgIDs : RegisterMsgIDs(c, m) \/ DeregisterMsgIDs(c, m)
        \/ \E str \in Groups, wait \in BOOLEAN : RequestGroupID(c, str, wait)
        \/ CloseCall(c)
     /\ calls' = calls + 1

\* what polling does
Runs(c) == Open(c) \/ Construct(c) \/ Connected(c) \/ Poll(c) \/ Disconnect(c)

Next ==
  \/ \E c \in Clients : Call(c) \/ Runs(c) \/ GroupTimeout(c)
  \/ \E k \in SockIDs : Accept(k) \/ Readable(k)
  \/ Stop \/ Start

Spec == Init /\ [][Next]_vars

\* Applications poll; the manager's event loop serves descriptors that are readable,
\* and the listener.  Which client and which descriptor is not assumed.
Fairness ==
  /\ WF_vars(\E c \in Clients : Runs(c))
  /\ WF_vars(\E k \in SockIDs : Accept(k))
  /\ WF_vars(\E k \in SockIDs : Readable(k))
  /\ WF_vars(Start)

FairSpec == Spec /\ Fairness

-----------------------------------------------------------------------------
(***************************************************************************)
(* Properties.                                                             *)
(***************************************************************************)
\* A group exists as long as it has members, and is counted once for each of them,
\* however they left; two groups never have the same ID.
GroupsCounted ==
  /\ \A str \in DOMAIN mgr.groups :
       LET g == mgr.groups[str]
       IN  g.count > 0 /\ g.count = Cardinality({k \in DOMAIN proxies : proxies[k].groupID = g.gid})
  /\ \A k \in DOMAIN proxies : proxies[k].groupID > 0 => proxies[k].groupID \in GroupIDs(mgr.groups)
  /\ \A s, t \in DOMAIN mgr.groups : mgr.groups[s].gid = mgr.groups[t].gid => s = t

\* What is registered once the messages are handled: the last one about an ID counts
About(msg, m) == msg.type \in {"Register", "Deregister"} /\ m \in msg.msgIDs
RegsAfter(regs, msgs) ==
  {m \in MsgIDs :
     \/ m \in regs /\ \A i \in DOMAIN msgs : ~About(msgs[i], m)
     \/ \E i \in DOMAIN msgs :
          /\ About(msgs[i], m) /\ msgs[i].type = "Register"
          /\ \A j \in DOMAIN msgs : j > i => ~About(msgs[j], m)}

\* The registrations that the manager has for a client, with the messages under way,
\* are the ones that the application has made, counted over all its calls, whenever it
\* made them: before, while and after connecting.
RegistrationsAgree ==
  \A c \in Clients :
    LET k == clt[c].sock
    IN  /\ clt[c].phase \in {"up", "group"} /\ ~clt[c].sendFailed /\ k \in DOMAIN proxies
        => RegsAfter(proxies[k].registered, socks[k].toMgr) = Registered(c)

ViewAfter(view, msgs) ==
  FoldLeft(HandleRegMsg, view, SelectSeq(msgs, LAMBDA msg : msg.type \in {"Register", "Deregister"}))

AllRegistrations ==
  LET regs == {k \in DOMAIN proxies : proxies[k].registered # {}}
  IN  [cid \in {proxies[k].clientID : k \in regs} |->
         LET p == proxies[SockOf(proxies, cid)]
         IN  [groupID |-> p.groupID, msgIDs |-> p.registered]]

\* What a watcher has been told and is being told are the registrations of all the
\* clients, with their groups, across reconnections and reused client IDs: unless a
\* send has failed.
ViewAgrees ==
  \A c \in Watchers :
    LET k == clt[c].sock
    IN  /\ HasImpl(c) /\ k \in DOMAIN proxies /\ proxies[k].wantRegistrations
        /\ \A j \in DOMAIN proxies : ~proxies[j].sendFailed
        => ViewAfter(clt[c].view, socks[k].toClt) = AllRegistrations

\* A consumer that the manager has stopped to deliver to (TakeBlocksAndInfo skips a proxy
\* whose sends have failed) notices it: its socket is being closed.
SkippedIsNotified ==
  \A k \in DOMAIN proxies :
    proxies[k].sendFailed => socks[k].mgrEnd = "shut" \/ ~socks[k].cltOpen

\* Whatever the applications called, and however often connections broke, every client
\* that has not died of a Close in the kPoll callback ends up connected, in its group and
\* with its registrations at the manager; and the manager serves nobody else.
Settles ==
  <>[](/\ \A c \in Clients : clt[c].phase # "crashed" =>
            LET k == clt[c].sock
            IN  /\ clt[c].phase = "up"
                /\ k \in DOMAIN proxies
                /\ proxies[k].registered = Registered(c)
                /\ proxies[k].groupID = clt[c].groupID
                /\ (clt[c].groupStr # None) = (clt[c].groupID > 0)
       /\ \A k \in DOMAIN proxies : clt[k[1]].phase = "up" /\ clt[k[1]].sock = k)
=============================================================================
