----------------------------- MODULE ShmBuffers -----------------------------
(***************************************************************************)
(* The shared memory: ManagerParams lays it out, ShmMapper creates it in   *)
(* the manager, ShmClient maps it in every client.                         *)
(*                                                                         *)
(* The manager adds buffers while clients map them, without a lock: they   *)
(* meet in the names of the segments, in the header of buffer 0 and in the *)
(* order of what the manager sends.  Every system call is a step.  The     *)
(* manager may be killed, which leaves names behind, and started again     *)
(* while clients still handle what the dead one sent.  What a client has   *)
(* of the manager is one socket at a time (more are in Session), and one   *)
(* slab of the SlabManager.                                                *)
(***************************************************************************)
EXTENDS Integers, SequencesExt, FiniteSetsExt

CONSTANTS
  Clients,
  RawParams,       \* force, blockSize, slabSize, bufferSize as the user gives them
  numBuffers, maxNumBuffers, allowUnlockedMemory,
  pageSize, HeaderSize, InfoSize,   \* getpagesize, sizeof(ShmHeader), sizeof(BlockInfo)
  kDefaultSize,    \* what replaces a size that is zero: a record like those of RawParams
  Word,            \* 2^32
  Need,            \* slabs that a client asks for, prod and cons
  StaleNames,      \* sets of buffers whose names may exist before the first manager starts
  MaxStarts,       \* bound: starts of a manager
  MaxConnects      \* bound: connections that the clients make

None  == "none"
NoSeg == <<>>      \* instead of a segment

ASSUME ShmAssumption ==
  /\ {numBuffers, maxNumBuffers, Need, MaxStarts, MaxConnects, InfoSize} \subseteq Nat
  /\ {pageSize, HeaderSize, Word} \subseteq Nat \ {0}
  /\ allowUnlockedMemory \in BOOLEAN
  /\ None \notin Clients
  /\ \A f \in {"blockSize", "slabSize", "bufferSize"} :
       kDefaultSize[f] \in Nat \ {0} /\ \A raw \in RawParams : raw[f] \in Nat

-----------------------------------------------------------------------------
(***************************************************************************)
(* The layout.  An address is a segment and an offset in its file.         *)
(***************************************************************************)
RoundUp(x, unit) == ((x + unit - 1) \div unit) * unit

ParamCheck(raw) ==
  LET Default(f) == IF raw[f] = 0 THEN kDefaultSize[f] ELSE raw[f]
      blk  == RoundUp(Default("blockSize"), pageSize)
      slab == RoundUp(Default("slabSize"), blk)
      buf  == RoundUp(Default("bufferSize"), slab)
  IN  [blockSize |-> blk, slabSize |-> slab, numBlocks |-> (slab \div blk) * (buf \div slab),
       slabsPerBuffer |-> buf \div slab, force |-> raw.force]

InfoPaddedSize(n) == RoundUp(InfoSize * n, pageSize) % Word

ShmHeader(p) ==
  LET info == RoundUp(HeaderSize, pageSize)
      blks == RoundUp(p.blockSize * p.numBlocks, pageSize)
  IN  [infoOffset |-> info, blockOffset |-> info + InfoPaddedSize(p.numBlocks),
       blksSize |-> blks, bufSize |-> info + InfoPaddedSize(p.numBlocks) + blks]

VARIABLES
  params, \* the manager's parameters, checked
  segs,   \* shared memory segments: a function on <<start of the manager, buffer>>
  names,  \* the name of a buffer -> its segment, or NoSeg
  mgr,    \* the manager
  clt,    \* the clients
  connects \* number of connections made

vars == <<params, segs, names, mgr, clt, connects>>

BlocksPerSlab == params.slabSize \div params.blockSize
BufferOf(blk) == blk \div params.numBlocks
RemOf(blk)    == blk % params.numBlocks

\* ShmMapper::GetBlockPtr and GetBlockInfo, in 64 bits
MapperBlock(blk) ==
  [seg |-> mgr.headerVec[BufferOf(blk) + 1],
   off |-> ShmHeader(params).blockOffset + RemOf(blk) * params.blockSize]
MapperInfo(blk) ==
  [seg |-> mgr.headerVec[BufferOf(blk) + 1],
   off |-> ShmHeader(params).infoOffset + RemOf(blk) * InfoSize]

\* The same in a client; the product of two uint32_t is one too.  The
\* writeable mapping holds only the blocks: it starts at blockOffset.
GetBlockPtr(c, blk) ==
  [seg |-> clt[c].headerVec[BufferOf(blk) + 1],
   off |-> ShmHeader(params).blockOffset + ((RemOf(blk) * params.blockSize) % Word)]
GetWriteableBlockPtr(c, blk) == GetBlockPtr(c, blk)
GetBlockInfo(c, blk) ==
  [seg |-> clt[c].headerVec[BufferOf(blk) + 1],
   off |-> ShmHeader(params).infoOffset + RemOf(blk) * InfoSize]

-----------------------------------------------------------------------------
NewSeg   == [sized |-> FALSE, valid |-> FALSE, fields |-> FALSE, numBuffers |-> 0]
Buffers  == 0..(maxNumBuffers - 1)
OldSeg   == [sized |-> TRUE, valid |-> TRUE, fields |-> TRUE, numBuffers |-> 1]

NoShm(c) == [clt[c] EXCEPT !.pc = "idle", !.start = 0, !.inbox = <<>>, !.toMgr = <<>>,
               !.headerVec = <<>>, !.hdr = NoSeg, !.avail = 0, !.todo = 0, !.granted = FALSE,
               !.ids = {}]

Init ==
  /\ params \in {ParamCheck(raw) : raw \in RawParams}
  /\ \E old \in StaleNames :
       /\ segs = [s \in {<<-1, b>> : b \in old} |-> OldSeg]
       /\ names = [b \in Buffers |-> IF b \in old THEN <<-1, b>> ELSE NoSeg]
  /\ mgr = [pc |-> "down", start |-> 0, headerVec |-> <<>>, lockErrors |-> FALSE,
            slabBuffers |-> 0,       \* buffers that slabManager hands out
            target |-> 0,            \* newNumBuffers
            for |-> None,            \* the client whose NumSlabs is handled
            proxies |-> <<>>,        \* client -> slabs reserved, slab held
            clean |-> TRUE]          \* the last one to end did so by its destructors
  /\ clt = [c \in Clients |->
            [pc |-> "idle", start |-> 0, inbox |-> <<>>, toMgr |-> <<>>,
             headerVec |-> <<>>, hdr |-> NoSeg, avail |-> 0, todo |-> 0, granted |-> FALSE,
             ids |-> {}]]            \* what it was given: slabs and blocks
  /\ connects = 0

-----------------------------------------------------------------------------
(***************************************************************************)
(* The manager                                                             *)
(***************************************************************************)
FnWith(f, x, y)    == [z \in DOMAIN f \cup {x} |-> IF z = x THEN y ELSE f[z]]
FnWithout(f, x)    == [z \in DOMAIN f \ {x} |-> f[z]]
Msg(type, arg)     == [type |-> type, arg |-> arg]
SendTo(cs, msg)    == [c \in Clients |-> IF c \in cs THEN [clt[c] EXCEPT !.inbox = Append(@, msg)]
                                         ELSE clt[c]]
Connected          == {c \in DOMAIN mgr.proxies : clt[c].start = mgr.start}
NumReserved        == SumFunction([c \in DOMAIN mgr.proxies |-> mgr.proxies[c].reserved])
OwnNames           == {b \in Buffers : names[b] # NoSeg /\ names[b][1] = mgr.start}

\* the manager's side of every connection is closed, or only c's
HangUp(cs) == [c \in Clients |-> IF c \in cs THEN [clt[c] EXCEPT !.toMgr = <<>>] ELSE clt[c]]

\* ~ShmMapper: unlinks what is in headerVec
Unlinked == [b \in Buffers |-> IF b < Len(mgr.headerVec) THEN NoSeg ELSE names[b]]

Ended(clean) == [mgr EXCEPT !.pc = "down", !.headerVec = <<>>, !.proxies = <<>>, !.for = None,
                            !.lockErrors = FALSE, !.clean = clean]

\* Manager::Manager.  IncreaseNumBuffers(p.numBuffers) does nothing when there
\* is nothing to do, and its refusal is ignored.
Start ==
  /\ mgr.pc = "down" /\ mgr.start < MaxStarts
  /\ mgr.clean \/ params.force                        \* else the control socket still exists
  /\ mgr' = [mgr EXCEPT !.start = @ + 1, !.slabBuffers = numBuffers, !.target = numBuffers,
               !.clean = TRUE,
               !.pc = IF numBuffers \in 1..maxNumBuffers THEN "open" ELSE "loop"]
  /\ UNCHANGED <<params, segs, names, clt>>

\* An exception leaves IncreaseNumBuffers: out of the constructor it ends the
\* manager, out of HandleNumSlabs it disconnects the client.
Throw(nms, hv) ==
  IF mgr.for = None
  THEN /\ names' = [b \in Buffers |-> IF b < Len(hv) THEN NoSeg ELSE nms[b]]
       /\ mgr' = Ended(TRUE) /\ clt' = clt
  ELSE /\ names' = nms
       /\ mgr' = [mgr EXCEPT !.pc = "loop", !.headerVec = hv, !.for = None,
                             !.proxies = FnWithout(@, mgr.for)]
       /\ clt' = HangUp({mgr.for})

NextBuffer == Len(mgr.headerVec)

\* OpenShm, where force unlinks a name that exists and tries again
OpenShm ==
  /\ mgr.pc = "open"
  /\ LET s == <<mgr.start, NextBuffer>>
     IN  IF names[NextBuffer] = NoSeg \/ params.force
         THEN /\ names' = [names EXCEPT ![NextBuffer] = s]
              /\ segs' = FnWith(segs, s, NewSeg)
              /\ mgr' = [mgr EXCEPT !.pc = "truncate"]
              /\ UNCHANGED clt
         ELSE Throw(names, mgr.headerVec) /\ UNCHANGED segs
  /\ UNCHANGED params

\* Mutant: the name of a buffer that could not be made stays
CreateFailsQuietly == Throw(names, mgr.headerVec) /\ UNCHANGED <<params, segs>>

\* ftruncate or mmap fails: the name is unlinked
CreateFails == /\ Throw([names EXCEPT ![NextBuffer] = NoSeg], mgr.headerVec)
               /\ UNCHANGED <<params, segs>>

Truncate ==
  /\ mgr.pc = "truncate"
  /\ \/ /\ segs' = [segs EXCEPT ![<<mgr.start, NextBuffer>>].sized = TRUE]
        /\ mgr' = [mgr EXCEPT !.pc = "header"]
        /\ UNCHANGED <<params, names, clt>>
     \/ CreateFails

\* *hdr = header is a copy in several stores, syncWord and shmVersion first
WriteHeader ==
  /\ mgr.pc \in {"header", "fields"}
  /\ IF mgr.pc = "header"
     THEN /\ segs' = [segs EXCEPT ![<<mgr.start, NextBuffer>>].valid = TRUE]
          /\ mgr' = [mgr EXCEPT !.pc = "fields"]
     ELSE /\ segs' = [segs EXCEPT ![<<mgr.start, NextBuffer>>].fields = TRUE]
          /\ mgr' = [mgr EXCEPT !.pc = "publish",
                       !.headerVec = Append(@, <<mgr.start, NextBuffer>>)]
  /\ UNCHANGED <<params, names, clt>>

\* numBuffers goes into every header; clients read that of buffer 0
Publish ==
  /\ mgr.pc = "publish"
  /\ segs' = [s \in DOMAIN segs |-> IF s \in Range(mgr.headerVec)
                THEN [segs[s] EXCEPT !.numBuffers = NextBuffer] ELSE segs[s]]
  /\ mgr' = [mgr EXCEPT !.pc = "lock"]
  /\ UNCHANGED <<params, names, clt>>

\* Mutant: the clients are not told
AnnounceNobody(m) ==
  /\ mgr' = [m EXCEPT !.pc = IF m.for = None THEN "loop" ELSE "reserve", !.slabBuffers = m.target,
                      !.target = 0]
  /\ UNCHANGED <<names, clt>>

\* slabManager learns of the buffers, then each client
Announce(m) ==
  /\ mgr' = [m EXCEPT !.pc = IF m.for = None THEN "loop" ELSE "reserve", !.slabBuffers = m.target,
                      !.target = 0]
  /\ clt' = SendTo(Connected, Msg("ShmName", 0))
  /\ UNCHANGED names

\* LockOrTouch ends CreateAndMap; after the last buffer IncreaseNumBuffers goes on
Lock ==
  /\ mgr.pc = "lock"
  /\ \E fails \in BOOLEAN :
       LET m == [mgr EXCEPT !.lockErrors = @ \/ fails]
       IN  IF NextBuffer < m.target
           THEN mgr' = [m EXCEPT !.pc = "open"] /\ UNCHANGED <<names, clt>>
           ELSE IF m.lockErrors /\ ~allowUnlockedMemory THEN Throw(names, m.headerVec)
           ELSE Announce(m)
  /\ UNCHANGED <<params, segs>>

\* ClientProxy::ClientProxy tells the client of the shared memory at once
Accept(c) ==
  /\ mgr.pc = "loop" /\ clt[c].pc = "idle" /\ connects < MaxConnects
  /\ c \notin DOMAIN mgr.proxies
  /\ mgr' = [mgr EXCEPT !.proxies = FnWith(@, c, [reserved |-> 0, slab |-> -1])]
  /\ clt' = [clt EXCEPT ![c].pc = "poll", ![c].start = mgr.start,
                        ![c].inbox = <<Msg("ShmName", 0)>>]
  /\ connects' = connects + 1 /\ UNCHANGED <<params, segs, names>>

Slabs     == 0..(mgr.slabBuffers * params.slabsPerBuffer - 1)
FreeSlabs == Slabs \ {mgr.proxies[c].slab : c \in DOMAIN mgr.proxies}

\* GetSlabReservation, which adds buffers until the reservation succeeds, and
\* the rest of HandleNumSlabs
Reserve ==
  /\ mgr.pc = "reserve"
  /\ LET c    == mgr.for
         more == Need - mgr.proxies[c].reserved
     IN  IF NumReserved + more <= Cardinality(Slabs)
         THEN \E slab \in IF more = 0 THEN {mgr.proxies[c].slab} ELSE FreeSlabs :
                /\ mgr' = [mgr EXCEPT !.pc = "loop", !.for = None,
                             !.proxies[c] = [reserved |-> Need, slab |-> slab]]
                /\ clt' = [clt EXCEPT ![c].inbox = @ \o <<Msg("NumSlabs", TRUE)>> \o
                             IF more = 0 THEN <<>> ELSE <<Msg("SlabIDs", slab)>>]
         ELSE IF Len(mgr.headerVec) + 1 <= maxNumBuffers
         THEN /\ mgr' = [mgr EXCEPT !.pc = "open", !.target = Len(mgr.headerVec) + 1]
              /\ UNCHANGED clt
         ELSE /\ mgr' = [mgr EXCEPT !.pc = "loop", !.for = None, !.proxies = FnWithout(@, c)]
              /\ clt' = [clt EXCEPT ![c].inbox = Append(@, Msg("NumSlabs", FALSE)),
                                    ![c].toMgr = <<>>]
  /\ UNCHANGED <<params, segs, names>>

\* Readable: a NumSlabs, a block that is sent on, or a client that is gone
Readable(c) ==
  /\ mgr.pc = "loop" /\ c \in DOMAIN mgr.proxies
  /\ IF clt[c].start # mgr.start
     THEN mgr' = [mgr EXCEPT !.proxies = FnWithout(@, c)] /\ UNCHANGED clt
     ELSE LET msg == Head(clt[c].toMgr)
          IN  /\ clt[c].toMgr # <<>>
              /\ IF msg.type = "NumSlabs"
                 THEN /\ mgr' = [mgr EXCEPT !.pc = "reserve", !.for = c]
                      /\ clt' = [clt EXCEPT ![c].toMgr = Tail(@)]
                 ELSE IF msg.arg >= Len(mgr.headerVec) * params.numBlocks
                 THEN /\ mgr' = [mgr EXCEPT !.proxies = FnWithout(@, c)]
                      /\ clt' = HangUp({c})
                 ELSE /\ clt' = [SendTo({d \in Connected \ {c} : mgr.proxies[d].reserved > 0}, msg)
                                   EXCEPT ![c].toMgr = Tail(@)]
                      /\ UNCHANGED mgr
  /\ UNCHANGED <<params, segs, names>>

\* SIGINT, SIGTERM, or a SIGSEGV or SIGBUS, whose handlers clean up: in the loop (one
\* that comes while a buffer is made is not modelled)
Stop ==
  /\ mgr.pc = "loop"
  /\ mgr' = Ended(TRUE) /\ names' = Unlinked
  /\ clt' = HangUp(Connected)
  /\ UNCHANGED <<params, segs>>

\* SIGKILL, or any signal without a handler: SIGHUP, SIGQUIT, SIGABRT
Killed ==
  /\ mgr.pc # "down"
  /\ mgr' = Ended(FALSE)
  /\ clt' = HangUp(Connected)
  /\ UNCHANGED <<params, segs, names>>

-----------------------------------------------------------------------------
(***************************************************************************)
(* A client                                                                *)
(***************************************************************************)
Live(c) == mgr.pc # "down" /\ clt[c].start = mgr.start /\ c \in DOMAIN mgr.proxies

Become(c, r) == clt' = [clt EXCEPT ![c] = r] /\ UNCHANGED <<params, segs, names, mgr>>

\* Mutant: the shared memory stays mapped
CloseKeeps(c) == Become(c, [NoShm(c) EXCEPT !.headerVec = clt[c].headerVec])

\* BaseClient::Close deletes the ClientImpl, and ~ShmClient unmaps
Close(c) == Become(c, NoShm(c))

\* an access outside of the file: SIGBUS
Dies(c, how) == Become(c, [NoShm(c) EXCEPT !.pc = how])

CloseCall(c) == clt[c].pc = "poll" /\ Close(c)

\* ShmClient::GetFirstHeader opens and maps the header of buffer 0
FirstHeader(c) ==
  IF names[0] = NoSeg THEN Close(c)
  ELSE Become(c, [clt[c] EXCEPT !.pc = "valid", !.hdr = names[0]])

\* and reads it, up to 100 times.  A header without sizes yields an mmap of no
\* bytes, which fails.
ValidHeader(c) ==
  /\ clt[c].pc = "valid"
  /\ LET hdr == segs[clt[c].hdr]
     IN  \/ ~hdr.sized /\ Dies(c, "bus")
         \/ hdr.fields /\ Become(c, [clt[c] EXCEPT !.pc = "map0", !.hdr = NoSeg])
         \/ hdr.sized /\ ~hdr.fields /\ Close(c)  \* or, not valid, it tries again: a stuttering step

\* Initialize maps buffer 0; then it and HandleCtrlString call MapBuffers
MapFirst(c) ==
  /\ clt[c].pc = "map0"
  /\ IF names[0] = NoSeg THEN Close(c)
     ELSE Become(c, [clt[c] EXCEPT !.pc = "mapBuffers", !.todo = 2, !.headerVec = <<names[0]>>])

Returns(c) == Become(c, [clt[c] EXCEPT !.pc = IF clt[c].todo = 1 THEN "numSlabs" ELSE "mapBuffers",
                                       !.todo = @ - 1])

\* MapBuffers reads headerVec[0]->numBuffers
MapBuffers(c) ==
  /\ clt[c].pc = "mapBuffers"
  /\ LET hdr == segs[clt[c].headerVec[1]]
         n   == Len(clt[c].headerVec)
     IN  IF ~hdr.sized THEN Dies(c, "bus")
         ELSE IF n = hdr.numBuffers THEN Returns(c)
         ELSE IF n > hdr.numBuffers THEN Close(c)
         ELSE Become(c, [clt[c] EXCEPT !.pc = "map", !.avail = hdr.numBuffers])

\* ShmClient::Map of the next buffer, until there are as many as were available
Map(c) ==
  /\ clt[c].pc = "map"
  /\ LET b == Len(clt[c].headerVec)
     IN  IF names[b] = NoSeg THEN Close(c)
         ELSE Become(c, [clt[c] EXCEPT !.headerVec = Append(@, names[b]),
                                       !.pc = IF b + 1 = clt[c].avail THEN "assert" ELSE @])

\* bufsAvailable == headerVec[0]->numBuffers
MapAsserts(c) ==
  /\ clt[c].pc = "assert"
  /\ IF clt[c].avail = segs[clt[c].headerVec[1]].numBuffers THEN Returns(c)
     ELSE Dies(c, "aborted")

\* ComputeAndSendNumSlabs, unless it has them
NumSlabs(c) ==
  /\ clt[c].pc = "numSlabs"
  /\ LET done == [clt[c] EXCEPT !.pc = "poll", !.inbox = Tail(@), !.avail = 0]
     IN  IF clt[c].granted THEN Become(c, done)
         ELSE IF Live(c) THEN Become(c, [done EXCEPT !.toMgr = Append(@, Msg("NumSlabs", 0))])
         ELSE Close(c)

\* HandleSlabIDs and HandleBlockIDs: what the client reads and writes from then on
Given(c, kind, id) ==
  [clt[c] EXCEPT !.inbox = Tail(@), !.ids = @ \cup {[kind |-> kind, id |-> id]}]

\* Poll: the next message, or the end of the connection.
Poll(c) ==
  /\ clt[c].pc = "poll"
  /\ IF clt[c].inbox = <<>> THEN ~Live(c) /\ Close(c)
     ELSE LET msg == Head(clt[c].inbox)
          IN  \/ /\ msg.type = "ShmName"
                 /\ IF clt[c].headerVec = <<>> THEN FirstHeader(c)
                    ELSE Become(c, [clt[c] EXCEPT !.pc = "mapBuffers", !.todo = 1])
              \/ /\ msg.type = "NumSlabs"
                 /\ IF msg.arg THEN Become(c, [clt[c] EXCEPT !.inbox = Tail(@), !.granted = TRUE])
                    ELSE Close(c)
              \/ msg.type = "SlabIDs" /\ Become(c, Given(c, "slab", msg.arg))
              \/ msg.type = "BlockIDs" /\ Become(c, Given(c, "block", msg.arg))

\* a segment in the client's slab is sent, once: its last block
SendBlock(c) ==
  /\ clt[c].pc = "poll" /\ Live(c) /\ clt[c].toMgr = <<>>
  /\ \E x \in clt[c].ids :
       /\ x.kind = "slab"
       /\ Become(c, [clt[c] EXCEPT !.toMgr = <<Msg("BlockIDs", (x.id + 1) * BlocksPerSlab - 1)>>,
                                   !.ids = (@ \ {x}) \cup {[kind |-> "sent", id |-> x.id]}])

Manages == Start \/ OpenShm \/ Truncate \/ WriteHeader \/ Publish \/ Lock \/ Reserve \/ Stop \/ Killed
Runs(c) == CloseCall(c) \/ ValidHeader(c) \/ MapFirst(c) \/ MapBuffers(c) \/ Map(c)
           \/ MapAsserts(c) \/ NumSlabs(c) \/ Poll(c) \/ SendBlock(c)

Next == \/ (Manages \/ \E c \in Clients : Readable(c) \/ Runs(c)) /\ UNCHANGED connects
        \/ \E c \in Clients : Accept(c)
Spec == Init /\ [][Next]_vars

-----------------------------------------------------------------------------
(***************************************************************************)
(* Properties                                                              *)
(***************************************************************************)
\* The blocks that an ID which a client was given stands for
FirstBlock(x) == IF x.kind = "block" THEN x.id ELSE x.id * BlocksPerSlab
NumBlocks(x)  == IF x.kind = "block" THEN 1 ELSE BlocksPerSlab
BlocksOf(x)   == FirstBlock(x)..(FirstBlock(x) + NumBlocks(x) - 1)

\* A message that gives a client slabs or blocks, and what it gives
GivesIDs(msg) == msg.type \in {"SlabIDs", "BlockIDs"}
GivenBy(msg)  == [kind |-> IF msg.type = "SlabIDs" THEN "slab" ELSE "block", id |-> msg.arg]

\* When a client handles slabs or blocks it has mapped their buffer, whoever died or
\* was started meanwhile (HandleSlabIDs does not check).  Up to the next start of a
\* manager, also when its own has been killed, the header that it reads is complete
\* and the segments that it maps have their size, though nothing keeps the manager
\* from adding buffers at that moment.
AccessesMapped ==
  \A c \in Clients :
    /\ (clt[c].pc = "poll" /\ clt[c].inbox # <<>> /\ GivesIDs(Head(clt[c].inbox)))
         => \A blk \in BlocksOf(GivenBy(Head(clt[c].inbox))) : BufferOf(blk) < Len(clt[c].headerVec)
    /\ clt[c].start = mgr.start =>
         /\ clt[c].hdr # NoSeg => segs[clt[c].hdr].sized /\ segs[clt[c].hdr].fields
         /\ \A s \in Range(clt[c].headerVec) : segs[s].sized /\ segs[s].fields

\* A client that dies of SIGBUS, which ShmClient does not handle, was connected to an
\* earlier manager than the one that was started last: it looks into a segment that
\* this one has just created under the same name and not yet given its size.  Its own
\* manager never makes it look into such a one.
OnlyRestartKills ==
  [][\A c \in Clients :
       clt[c].pc # "bus" /\ clt'[c].pc = "bus" => clt[c].start < mgr.start]_vars

\* Header, infos and blocks of a buffer share no byte and lie within the file;
\* the writeable mapping starts on a page, and holds nothing but blocks.
BytesApart ==
  LET h     == ShmHeader(params)
      n     == params.numBlocks
      Block(i) == h.blockOffset + ((i * params.blockSize) % Word)
      spans == <<<<0, HeaderSize>>>>
                 \o [i \in 1..n |-> <<h.infoOffset + (i - 1) * InfoSize, InfoSize>>]
                 \o [i \in 1..n |-> <<Block(i - 1), params.blockSize>>]
  IN  /\ \A i, j \in DOMAIN spans : i < j => \/ spans[i][1] + spans[i][2] <= spans[j][1]
                                             \/ spans[j][1] + spans[j][2] <= spans[i][1]
      /\ \A i \in DOMAIN spans : spans[i][1] + spans[i][2] <= h.bufSize
      /\ h.blockOffset % pageSize = 0 /\ h.blockOffset + h.blksSize = h.bufSize

\* What the manager and a client mean by an ID are the same bytes: of the same
\* segment, through both of the client's mappings, a slab in one piece; and no two
\* of them share a byte.
SameBytes ==
  BytesApart /\ \A c \in Clients : Live(c) =>
    \A x \in clt[c].ids :
      LET first == FirstBlock(x)
      IN  \A blk \in BlocksOf(x) :
            LET here == MapperBlock(blk)
            IN  /\ GetBlockPtr(c, blk) = here
                /\ GetBlockInfo(c, blk) = MapperInfo(blk)
                /\ here = [GetWriteableBlockPtr(c, first)
                             EXCEPT !.off = @ + (blk - first) * params.blockSize]

\* A manager leaves nothing behind: while it runs, the names that are its own
\* are those of the buffers it uses, also after a buffer could not be made; when
\* it has ended by itself or by a signal that it handles (Stop), none is.  Else it,
\* or the next one, could not create that buffer (without force).
NoLeftovers ==
  /\ mgr.pc = "loop" => OwnNames = 0..(Len(mgr.headerVec) - 1)
  /\ (mgr.pc = "down" /\ mgr.clean) => OwnNames = {}

=============================================================================
