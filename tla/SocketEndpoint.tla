--------------------------- MODULE SocketEndpoint ---------------------------
(***************************************************************************)
(* The framing of the control socket (src/SocketEndpoint.cc,               *)
(* SocketProtocol.h): one endpoint sends, the other one reads.             *)
(*                                                                         *)
(* The stream is made of words.  A word that is not in a control message   *)
(* is a block ID or a slab ID; a control message is a token, a header with *)
(* message ID and length, and a payload, in which any word may occur.      *)
(* The socket carries bytes: it takes part of what is sent, and a read     *)
(* ends anywhere, also within a word.                                      *)
(*                                                                         *)
(* Sending is one step per system call, since the socket may be full;      *)
(* Poll is one step: it reads and handles every complete message.          *)
(***************************************************************************)
EXTENDS Integers, SequencesExt, FiniteSetsExt

CONSTANTS
  WordSize,       \* bytes of a word, 4 in the program; 2 suffice to split one
  MaxPayloadSize, \* kMaxPayloadSize, in words
  InfoWords,      \* words of a BlockInfo
  RecvBufCap,     \* bytes that the owner asks for in recvBuf
  SockBufSize,    \* bytes that the socket can hold
  Calls,          \* calls that the owner of the sending endpoint makes
  MaxCalls        \* bound: number of calls

ASSUME EndpointAssumption ==
  /\ {WordSize, InfoWords, SockBufSize} \subseteq Nat \ {0}
  /\ {RecvBufCap, MaxCalls} \subseteq Nat
  /\ MaxPayloadSize \in Nat /\ MaxPayloadSize > InfoWords

VARIABLES
  tx,       \* the sending endpoint
  wire,     \* bytes in the socket
  rx,       \* the reading endpoint
  sent,     \* history: what the owner passed to the calls, in order
  handled   \* history: what the handlers of the reading endpoint were given

vars == <<tx, wire, rx, sent, handled>>

-----------------------------------------------------------------------------
(***************************************************************************)
(* Words and bytes.                                                        *)
(***************************************************************************)
Block(b) == <<"block", b>>
Slab(s)  == <<"slab", s>>           \* an ID with kSlabMask
Token    == <<"token">>             \* CtrlMsgHdr::kToken, has the mask's bit too
Header(msgID, length) == <<"header", msgID, length>>
Data(x)  == <<"data", x>>
Torn     == <<"torn">>              \* bytes of different words

kProtocolVersion == 1

kSlabMaskIn(w) == w[1] \in {"slab", "token"}

BytesOf(words) ==
  [i \in 1..(WordSize * Len(words)) |->
     <<words[((i - 1) \div WordSize) + 1], ((i - 1) % WordSize) + 1>>]

\* the words that bytes are read as; an incomplete one at the end is left out
WordsOf(bytes) ==
  [k \in 1..(Len(bytes) \div WordSize) |->
     LET first == WordSize * (k - 1)
         w     == bytes[first + 1][1]
     IN  IF \A i \in 1..WordSize : bytes[first + i] = <<w, i>> THEN w ELSE Torn]

-----------------------------------------------------------------------------
(***************************************************************************)
(* What the calls put on the stream: a sequence of messages, each an array *)
(* of IDs or the iovec of a control message.                               *)
(***************************************************************************)
IDArray(words) == [ctrl |-> FALSE, iov |-> <<BytesOf(words)>>]

\* SendCtrlMsg; parts are byte sequences
CtrlMsg(msgID, parts) ==
  LET length == Len(FlattenSeq(parts)) \div WordSize
  IN  [ctrl |-> TRUE, iov |-> <<BytesOf(<<Token, Header(msgID, length)>>)>> \o parts]

MsgBytes(msg) == FlattenSeq(msg.iov)

ValidatePeer(version) == CtrlMsg("ValidatePeer", <<BytesOf(<<Data("magic"), Data(version)>>)>>)

\* SendCtrlString: len bytes, zero padded to whole words
CtrlString(len) ==
  LET words == (len + WordSize - 1) \div WordSize
      bytes == BytesOf([i \in 1..words |-> Data("string")])
      pad   == SubSeq(bytes, len + 1, WordSize * words)
      str   == <<BytesOf(<<Data("which")>>), SubSeq(bytes, 1, len)>>
  IN  CtrlMsg("CtrlString", IF pad = <<>> THEN str ELSE Append(str, pad))

MaxPerSend == MaxPayloadSize \div (1 + InfoWords)

RECURSIVE BlocksAndInfo(_, _)
(***************************************************************************)
(* SendBlocksAndInfo.  The information about block b is b, InfoWords times.*)
(* The loop compares the bytes sent so far with the number of blocks left; *)
(* the two are equal only for messages of 1016 segments and more.          *)
(***************************************************************************)
BlocksAndInfo(blocks, totalSent) ==
  IF blocks = <<>> THEN <<>>
  ELSE LET toSend == Min({Len(blocks), MaxPerSend})
           info   == [i \in 1..(InfoWords * toSend) |-> Data(blocks[((i - 1) \div InfoWords) + 1])]
           msg    == CtrlMsg("BlocksAndInfo",
                       <<BytesOf([i \in 1..toSend |-> Block(blocks[i])]), BytesOf(info)>>)
           total  == totalSent + Len(MsgBytes(msg))
       IN  IF total = Len(blocks) THEN <<msg>>
           ELSE <<msg>> \o BlocksAndInfo(SubSeq(blocks, toSend + 1, Len(blocks)), total)

kMaxMsgIDs == MaxPayloadSize - 1

\* SendRegistration: one header per message, as many IDs as fit
RECURSIVE Registration(_)
Registration(msgIDs) ==
  IF msgIDs = <<>> THEN <<>>
  ELSE LET count == Min({Len(msgIDs), kMaxMsgIDs})
           words == <<Data("client")>> \o [i \in 1..count |-> Data(msgIDs[i])]
       IN  <<CtrlMsg("Registration", <<BytesOf(words)>>)>>
             \o Registration(SubSeq(msgIDs, count + 1, Len(msgIDs)))

\* The other control messages have a fixed size (DropReport, NumSlabs: 2 words,
\* ClientID, SequenceToken...: 1 word, DropReportAck: none); an echo has any payload.
Messages(call) ==
  CASE call.op = "SendBlockIDs" ->
         <<IDArray([i \in 1..Len(call.ids) |-> Block(call.ids[i])])>>
    [] call.op = "SendSlabIDs" ->
         <<IDArray([i \in 1..Len(call.ids) |-> Slab(call.ids[i])])>>
    [] call.op = "SendBlocksAndInfo" -> BlocksAndInfo(call.ids, 0)
    [] call.op = "SendRegistration"  -> Registration(call.ids)
    [] call.op = "SendCtrlString"    -> <<CtrlString(call.len)>>
    [] call.op = "SendManagerEcho"   -> <<CtrlMsg("ManagerEcho", <<BytesOf(call.words)>>)>>
    [] call.op = "SendDropReport"    -> <<CtrlMsg("DropReport", <<BytesOf(<<Data(1), Data(2)>>)>>)>>
    [] call.op = "SendDropReportAck" -> <<CtrlMsg("DropReportAck", <<>>)>>

\* what the reader's handlers should be told, one element per ID
Items(call) ==
  CASE call.op = "SendBlockIDs"      -> [i \in 1..Len(call.ids) |-> Block(call.ids[i])]
    [] call.op = "SendSlabIDs"       -> [i \in 1..Len(call.ids) |-> Slab(call.ids[i])]
    [] call.op = "SendBlocksAndInfo" ->
         [i \in 1..Len(call.ids) |-> <<"segment", call.ids[i], Data(call.ids[i])>>]
    [] call.op = "SendRegistration"  -> [i \in 1..Len(call.ids) |-> <<"registration", Data(call.ids[i])>>]
    [] OTHER -> LET words == WordsOf(MsgBytes(Messages(call)[1]))
                IN  <<<<words[2][2], SubSeq(words, 3, Len(words))>>>>

-----------------------------------------------------------------------------
(***************************************************************************)
(* The constructor sends ValidatePeer.  cut is history: a send loop lost   *)
(* track of what the socket accepted.  What the peers then do is not       *)
(* modelled.                                                               *)
(***************************************************************************)
Init ==
  /\ \E version \in {kProtocolVersion, kProtocolVersion + 1} :
       tx = [msgs |-> <<ValidatePeer(version)>>, \* still to be sent; the first may be begun
             totalSent |-> 0,                   \* bytes of the first that were accepted
             version |-> version, sendFailed |-> FALSE, calls |-> 0, cut |-> FALSE]
  /\ wire = <<>>
  /\ rx = [recvBuf |-> <<>>, validPeer |-> FALSE, failed |-> FALSE]
  /\ sent = <<>>
  /\ handled = <<>>

kMaxCtrlMsgSize == WordSize * (2 + MaxPayloadSize)

TooLong(msg) == msg.ctrl /\ Len(MsgBytes(msg)) > kMaxCtrlMsgSize

\* A call begins; after a failure, and for a message that is too long, it throws instead.
Call(call) ==
  /\ tx.msgs = <<>> /\ tx.calls < MaxCalls
  /\ ~tx.sendFailed
  /\ \A i \in 1..Len(Messages(call)) : ~TooLong(Messages(call)[i])
  /\ tx' = [tx EXCEPT !.msgs = Messages(call), !.calls = @ + 1]
  /\ sent' = sent \o Items(call)
  /\ UNCHANGED <<wire, rx, handled>>

Room == SockBufSize - Len(wire)

NextMsg == [tx EXCEPT !.msgs = Tail(@), !.totalSent = 0]

\* The iovec after n bytes of it were accepted, n at the end of one of its parts.
Advance(iov, n) ==
  LET ends == {k \in 1..Len(iov) : Len(FlattenSeq(SubSeq(iov, 1, k))) = n}
  IN  SubSeq(iov, Max(ends) + 1, Len(iov))

AtPartEnd(iov, n) == \E k \in 1..Len(iov) : Len(FlattenSeq(SubSeq(iov, 1, k))) = n

(***************************************************************************)
(* One sendmsg of SendCtrlMsg that accepts n bytes.  The loop that then    *)
(* advances the iovec compares an unsigned difference with 0: unless n is  *)
(* the end of a part it runs off the array.                                *)
(***************************************************************************)
SendCtrlMsg(n) ==
  LET msg == Head(tx.msgs)
  IN  /\ msg.ctrl
      /\ \/ /\ n = Len(MsgBytes(msg))
            /\ tx' = NextMsg
         \/ /\ n < Len(MsgBytes(msg)) /\ AtPartEnd(msg.iov, n)
            /\ tx' = [tx EXCEPT !.msgs[1].iov = Advance(@, n)]
         \/ /\ n < Len(MsgBytes(msg)) /\ ~AtPartEnd(msg.iov, n)
            /\ tx' = [tx EXCEPT !.cut = TRUE]

(***************************************************************************)
(* One send of SendBlockIDs that accepts n bytes.  The loop adds them to   *)
(* totalSent and takes them from len, and ends when totalSent reaches len: *)
(* with half of what was left accepted, the other half is not sent.        *)
(***************************************************************************)
SendBlockIDs(n) ==
  LET msg == Head(tx.msgs)
      len == Len(MsgBytes(msg)) - n
      totalSent == tx.totalSent + n
  IN  /\ ~msg.ctrl
      /\ tx' = IF totalSent < len
               THEN [tx EXCEPT !.totalSent = totalSent,
                               !.msgs[1].iov = <<SubSeq(MsgBytes(msg), n + 1, n + len)>>]
               ELSE [NextMsg EXCEPT !.cut = len > 0]

Send(n) ==
  /\ tx.msgs # <<>>
  /\ n <= Min({Room, Len(MsgBytes(Head(tx.msgs)))})
  /\ SendCtrlMsg(n) \/ SendBlockIDs(n)
  /\ wire' = wire \o SubSeq(MsgBytes(Head(tx.msgs)), 1, n)
  /\ UNCHANGED <<rx, sent, handled>>

\* EAGAIN: a client waits until the socket is writable (it does not take this step),
\* the manager's proxy gives up and throws.
SendWouldBlock ==
  /\ tx.msgs # <<>>
  /\ Room < Len(MsgBytes(Head(tx.msgs)))
  /\ tx' = [tx EXCEPT !.msgs = <<>>, !.sendFailed = TRUE]
  /\ UNCHANGED <<wire, rx, sent, handled>>

-----------------------------------------------------------------------------
(***************************************************************************)
(* Reading.  p is the state of a parse: words to parse, validPeer, the     *)
(* items handled, and whether a handler threw.                             *)
(***************************************************************************)
\* Mutant: the buffer is as small as its owner asked for.
RecvBufAsAsked == RecvBufCap

RecvBufSize == IF RecvBufCap < kMaxCtrlMsgSize THEN kMaxCtrlMsgSize ELSE RecvBufCap

\* the sizes that LocalHandleCtrlMsg demands
RightSize(msgID, length) ==
  CASE msgID = "BlocksAndInfo" -> length % (1 + InfoWords) = 0
    [] msgID = "Registration"  -> length >= 1
    [] msgID \in {"ValidatePeer", "DropReport"} -> length = 2
    [] msgID = "DropReportAck" -> length = 0
    [] OTHER -> TRUE

CtrlItems(msgID, payload) ==
  CASE msgID = "BlocksAndInfo" ->
         LET count == Len(payload) \div (1 + InfoWords)
         IN  [i \in 1..count |-> <<"segment", payload[i][2], payload[count + InfoWords * (i - 1) + 1]>>]
    [] msgID = "Registration" -> [i \in 1..(Len(payload) - 1) |-> <<"registration", payload[i + 1]>>]
    [] msgID = "ValidatePeer" -> <<>>
    [] OTHER -> <<<<msgID, payload>>>>

LocalHandleCtrlMsg(p, msgID, payload) ==
  IF \/ ~p.validPeer /\ msgID # "ValidatePeer"
     \/ ~RightSize(msgID, Len(payload))
     \/ msgID = "ValidatePeer" /\ payload # <<Data("magic"), Data(kProtocolVersion)>>
  THEN [p EXCEPT !.threw = TRUE]
  ELSE [p EXCEPT !.items = @ \o CtrlItems(msgID, payload),
                 !.validPeer = @ \/ msgID = "ValidatePeer"]

\* the leading IDs that are of one kind
IDRun(words) ==
  LET ends == {k \in 0..Len(words) :
                 \A i \in 1..k : words[i] # Token /\ kSlabMaskIn(words[i]) = kSlabMaskIn(words[1])}
  IN  Max(ends)

RECURSIVE Parse(_)
\* Mutant: a run of IDs ends only at a token.
ParseMixed(p) ==
  LET run == Max({k \in 0..Len(p.words) : \A i \in 1..k : p.words[i] # Token})
      ids == [i \in 1..run |-> IF kSlabMaskIn(p.words[1]) THEN Slab(p.words[i][2]) ELSE p.words[i]]
  IN  IF run > 0
      THEN Parse([p EXCEPT !.words = SubSeq(@, run + 1, Len(@)), !.items = @ \o ids])
      ELSE IF Len(p.words) < 2 \/ Len(p.words) < 2 + p.words[2][3] THEN p
      ELSE LET length == p.words[2][3]
               q == LocalHandleCtrlMsg(p, p.words[2][2], SubSeq(p.words, 3, 2 + length))
           IN  IF q.threw THEN q
               ELSE Parse([q EXCEPT !.words = SubSeq(@, 3 + length, Len(@))])

\* Mutant: a message is taken for incomplete until more follows it.
ParseWaits(p) ==
  LET run    == IDRun(p.words)
      length == p.words[2][3]
  IN  IF p.words # <<>> /\ run > 0 /\ p.validPeer
      THEN Parse([p EXCEPT !.words = SubSeq(@, run + 1, Len(@)),
                           !.items = @ \o SubSeq(p.words, 1, run)])
      ELSE IF Len(p.words) < 2 \/ (p.validPeer /\ Len(p.words) <= 2 + length)
              \/ Len(p.words) < 2 + length THEN p
      ELSE LET q == LocalHandleCtrlMsg(p, p.words[2][2], SubSeq(p.words, 3, 2 + length))
           IN  IF q.threw THEN q
               ELSE Parse([q EXCEPT !.words = SubSeq(@, 3 + length, Len(@))])

Parse(p) ==
  LET run    == IDRun(p.words)
      header == p.words[2]
      length == header[3]
  IN  IF p.words # <<>> /\ run > 0
      THEN IF ~p.validPeer THEN [p EXCEPT !.threw = TRUE]
           ELSE Parse([p EXCEPT !.words = SubSeq(@, run + 1, Len(@)),
                                !.items = @ \o SubSeq(p.words, 1, run)])
      ELSE IF Len(p.words) < 2 THEN p                          \* incomplete header
      ELSE IF Len(p.words) < 2 + length THEN p                 \* incomplete message
      ELSE LET q == LocalHandleCtrlMsg(p, header[2], SubSeq(p.words, 3, 2 + length))
           IN  IF q.threw THEN q
               ELSE Parse([q EXCEPT !.words = SubSeq(@, 3 + length, Len(@))])

\* Poll reads n bytes.  With a full buffer it would ask for none, and take the
\* answer for the end of the connection.
Poll(n) ==
  LET buf == rx.recvBuf \o SubSeq(wire, 1, n)
      p   == Parse([words |-> WordsOf(buf), validPeer |-> rx.validPeer,
                    items |-> <<>>, threw |-> FALSE])
      parsed == WordSize * ((Len(buf) \div WordSize) - Len(p.words))
      full   == Len(rx.recvBuf) = RecvBufSize
  IN  /\ ~rx.failed /\ wire # <<>>
      /\ n <= Min({Len(wire), RecvBufSize - Len(rx.recvBuf)})
      /\ n = 0 => full
      /\ wire' = SubSeq(wire, n + 1, Len(wire))
      /\ rx' = [recvBuf |-> SubSeq(buf, parsed + 1, Len(buf)),
                validPeer |-> p.validPeer,
                failed |-> p.threw \/ full]
      /\ handled' = handled \o p.items
      /\ UNCHANGED <<tx, sent>>

Next ==
  /\ ~tx.cut
  /\ \/ \E call \in Calls : Call(call)
     \/ \E n \in 1..SockBufSize : Send(n)
     \/ SendWouldBlock
     \/ \E n \in 0..RecvBufSize : Poll(n)

Spec == Init /\ [][Next]_vars

-----------------------------------------------------------------------------
\* The reader's handlers get the IDs, segments and messages that the calls were
\* given, in that order and nothing else, wherever sends and reads end and whatever
\* words a payload holds, while no send loop has lost track of its buffer (cut);
\* and nothing at all from a peer of another version.
FramedUnlessCut ==
  ~tx.cut => IsPrefix(handled, IF tx.version = kProtocolVersion THEN sent ELSE <<>>)

\* Reading fails only at a peer that speaks another version: what an endpoint of
\* this version sends is never taken for a protocol error or a closed connection.
NoFalseFailure == ~tx.cut /\ tx.version = kProtocolVersion => ~rx.failed

\* Nothing is left behind in recvBuf: with the sender idle and the socket drained,
\* every message has been handled.
AllHandledWhenQuiet ==
  /\ tx.version = kProtocolVersion /\ tx.msgs = <<>>
  /\ ~tx.sendFailed /\ ~tx.cut /\ wire = <<>>
  => rx.recvBuf = <<>> /\ handled = sent
=============================================================================
