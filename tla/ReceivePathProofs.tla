--------------------------- MODULE ReceivePathProofs ---------------------------
(***************************************************************************)
(* Proofs about ReceivePath: it is WsReassembly with bytes for units, so   *)
(* what is proved of that module holds of it; every block the parser is    *)
(* handed consists of bytes the server has sent, which is what the         *)
(* parser's first theorem asks for; and a block that is a message holds    *)
(* the bytes of that message, which is what its second one asks for.       *)
(***************************************************************************)
EXTENDS ReceivePath, WsReassemblyProofs, DoubaoProtocolProofs

(* A unit of the buffer names a byte of a message in said. *)
Names(u, said) == u.msg \in 1..Len(said) /\ u.at \in 1..Len(Encode(said[u.msg]))

(* The frame that is arriving is the encoding of the last message. *)
Arriving == frames # <<>> => sent # 0 /\ Head(frames) = Len(Encode(content[sent]))

Named == \A i \in 1..Len(recv_buf) : Names(recv_buf[i], content)

PathInv ==
  /\ content \in Seq(Meanings) /\ Len(content) = sent
  /\ Arriving
  /\ Named
  /\ given \in Seq(Byte)

LEMMA EveryMessageIsOneFrame == OneFrameEach
  BY EncodingAssumption DEF OneFrameEach

-----------------------------------------------------------------------------
(* The refinement *)

LEMMA StepIsReassembly ==
  ASSUME [PathNext]_pathVars
  PROVE  [Next]_vars
  <1>1. ASSUME NEW msg \in Meanings, Says(msg) PROVE [Next]_vars
    BY <1>1 DEF Says, Next
  <1>2. ASSUME NEW n \in 1..ChunkSize, Receives(n) PROVE [Next]_vars
    BY <1>2 DEF Receives, Next
  <1>3. ASSUME Fault PROVE [Next]_vars
    BY <1>3 DEF Fault, Next
  <1>4. CASE UNCHANGED pathVars
    BY <1>4 DEF pathVars
  <1>5. QED
    BY <1>1, <1>2, <1>3, <1>4 DEF PathNext

(* The receive path is a reassembly: on_ws_receive's parser changes        *)
(* nothing of what ws_event_handler keeps.                                 *)
THEOREM PathIsReassembly == PathSpec => Spec
  <1>1. PathInit => Init
    BY DEF PathInit
  <1>2. QED
    BY <1>1, StepIsReassembly, PTL DEF PathSpec, Spec

(* recv_buf is not written past its end, for any messages of the server.   *)
THEOREM PathNeverOverflows == PathSpec => []NoOverflow
  BY PathIsReassembly, BufferNeverOverflows, PTL

(* on_ws_receive is told the server's messages whole, in order and at most *)
(* once, but for one damaged block per fault, for any messages and sizes.  *)
THEOREM PathImplementsChannel == PathSpec => ImplementsChannel
  BY PathIsReassembly, ReassemblyImplementsChannel, EveryMessageIsOneFrame, PTL

LEMMA PathHasChannelInv == PathSpec => [](TypeOK /\ OneFrame)
  <1>1. Spec => [](TypeOK /\ ChannelInv)
    BY EveryMessageIsOneFrame, InitIsTyped, InitHasChannelInv, NextIsTyped, NextKeepsChannel,
       TypedAndFitting, PTL DEF Spec
  <1>2. TypeOK /\ ChannelInv => TypeOK /\ OneFrame
    BY DEF ChannelInv
  <1>3. QED
    BY <1>1, <1>2, PathIsReassembly, PTL

-----------------------------------------------------------------------------
(* Every block consists of bytes the server sent *)

LEMMA InitIsNamed == PathInit => PathInv
  BY DEF PathInit, Init, PathInv, Arriving, Named

LEMMA ArrivesKeepsArriving ==
  ASSUME TypeOK, OneFrame, Arriving, NEW n \in 1..ChunkSize, Arrives(n), content' = content
  PROVE  Arriving'
  <1>1. frames # <<>> /\ Len(frames) = 1 /\ frames \in Seq(Nat \ {0})
    BY DEF Arrives, OneFrame, TypeOK
  <1>2. Tail(frames) = <<>>
    BY <1>1, TailOfOne
  <1>3. frames' = <<>> \/ frames' = frames
    BY <1>2 DEF Arrives
  <1>4. sent' = sent
    BY DEF Arrives
  <1>5. QED
    BY <1>3, <1>4 DEF Arriving

LEMMA BlockIsNamed ==
  ASSUME TypeOK, OneFrame, PathInv, NEW n \in 1..ChunkSize, Arrives(n)
  PROVE  LET block == recv_buf \o Data(n)
         IN  block \in Seq(Unit) /\ \A i \in 1..Len(block) : Names(block[i], content)
  <1> DEFINE block == recv_buf \o Data(n)
  <1>1. recv_buf \in Seq(Unit) /\ Data(n) \in Seq(Unit) /\ Len(Data(n)) = n /\ n \in Nat
    BY DataIsTyped, SizesAssumption DEF TypeOK
  <1>2. /\ block \in Seq(Unit) /\ Len(block) = Len(recv_buf) + n
        /\ \A i \in 1..Len(recv_buf) : block[i] = recv_buf[i]
        /\ \A i \in 1..n : block[Len(recv_buf) + i] = Data(n)[i]
    <2> HIDE DEF block
    <2>1. block \in Seq(Unit)
      BY <1>1, Concatenation DEF block
    <2>2. Len(block) = Len(recv_buf) + n
      BY <1>1, Concatenation DEF block
    <2>3. \A i \in 1..Len(recv_buf) : block[i] = recv_buf[i]
      BY <1>1, Concatenation DEF block
    <2>4. \A i \in 1..n : block[Len(recv_buf) + i] = Data(n)[i]
      BY <1>1, Concatenation DEF block
    <2>5. QED
      BY <2>1, <2>2, <2>3, <2>4
  <1>3. ASSUME NEW i \in 1..n PROVE Names(Data(n)[i], content)
    <2>1. Data(n)[i] = [msg |-> sent, at |-> position + i]
      BY DEF Data
    <2>2. /\ offset = position /\ Head(frames) = Len(Encode(content[sent])) /\ sent # 0
          /\ n <= Head(frames) - offset
      BY DEF Arrives, OneFrame, PathInv, Arriving
    <2>3. /\ sent \in Nat /\ position \in Nat /\ Len(content) = sent
          /\ Head(frames) \in Nat
      BY BoundsAssumption DEF TypeOK, PathInv, Arrives
    <2>4. sent \in 1..Len(content) /\ position + i \in 1..Len(Encode(content[sent]))
      BY <1>1, <2>2, <2>3
    <2>5. QED
      BY <2>1, <2>4 DEF Names
  <1> HIDE DEF block
  <1>4. ASSUME NEW i \in 1..Len(block) PROVE Names(block[i], content)
    <2>1. Len(recv_buf) \in Nat
      BY <1>1
    <2>2. CASE i <= Len(recv_buf)
      BY <1>2, <2>1, <2>2 DEF PathInv, Named
    <2>3. CASE i > Len(recv_buf)
      <3>1. i - Len(recv_buf) \in 1..n /\ i = Len(recv_buf) + (i - Len(recv_buf))
        BY <1>1, <1>2, <2>1, <2>3
      <3>2. block[i] = Data(n)[i - Len(recv_buf)]
        BY <1>2, <3>1
      <3>3. QED
        BY <1>3, <3>1, <3>2
    <2>4. QED
      BY <2>1, <2>2, <2>3
  <1>5. QED
    BY <1>2, <1>4 DEF block

LEMMA NamedUnitsAreBytes ==
  ASSUME content \in Seq(Meanings), NEW block \in Seq(Unit),
         \A i \in 1..Len(block) : Names(block[i], content)
  PROVE  [i \in DOMAIN block |-> Encode(content[block[i].msg])[block[i].at]] \in Seq(Byte)
  <1>1. ASSUME NEW i \in 1..Len(block) PROVE Encode(content[block[i].msg])[block[i].at] \in Byte
    <2>1. block[i].msg \in 1..Len(content)
          /\ block[i].at \in 1..Len(Encode(content[block[i].msg]))
      BY DEF Names
    <2>2. content[block[i].msg] \in Meanings
      BY <2>1
    <2>3. Encode(content[block[i].msg]) \in Seq(Byte)
      BY <2>2, EncodingAssumption
    <2>4. QED
      BY <2>1, <2>3
  <1>2. DOMAIN block = 1..Len(block) /\ Len(block) \in Nat
    OBVIOUS
  <1>3. QED
    BY <1>1, <1>2

LEMMA SaysKeeps ==
  ASSUME TypeOK, PathInv, NEW msg \in Meanings, Says(msg)
  PROVE  PathInv'
  <1>1. /\ sent' = sent + 1 /\ frames' = <<Len(Encode(msg))>> /\ recv_buf' = recv_buf
        /\ content' = Append(content, msg) /\ given' = given
    BY DEF Says, ServerSends
  <1>2. content \in Seq(Meanings) /\ Len(content) = sent /\ sent \in Nat
    BY DEF PathInv
  <1>3. /\ content' \in Seq(Meanings) /\ Len(content') = sent' /\ content'[sent'] = msg
        /\ \A i \in 1..Len(content) : content'[i] = content[i]
    BY <1>1, <1>2
  <1>4. Arriving'
    BY <1>1, <1>2, <1>3 DEF Arriving
  <1>5. \A u : Names(u, content) => Names(u, content')
    <2> SUFFICES ASSUME NEW u, Names(u, content) PROVE Names(u, content')
      OBVIOUS
    <2>1. u.msg \in 1..Len(content) /\ u.msg \in 1..Len(content')
      BY <1>1, <1>2, <1>3 DEF Names
    <2>2. content'[u.msg] = content[u.msg]
      BY <1>3, <2>1
    <2>3. QED
      BY <2>1, <2>2 DEF Names
  <1>6. Named'
    BY <1>1, <1>5 DEF Named, PathInv
  <1>7. QED
    BY <1>1, <1>3, <1>4, <1>6 DEF PathInv

LEMMA ReceivesKeeps ==
  ASSUME TypeOK, OneFrame, PathInv, NEW n \in 1..ChunkSize, Receives(n)
  PROVE  PathInv'
  <1> DEFINE block == recv_buf \o Data(n)
  <1>1. Arrives(n) /\ content' = content /\ sent' = sent
    BY DEF Receives, ReceiveData, Arrives
  <1>2. block \in Seq(Unit) /\ \A i \in 1..Len(block) : Names(block[i], content)
    BY <1>1, BlockIsNamed
  <1>3. recv_buf' = <<>> \/ recv_buf' = block
    BY DEF Receives, ReceiveData
  <1>4. given' = given \/ given' = [i \in DOMAIN block |-> Encode(content[block[i].msg])[block[i].at]]
    BY DEF Receives
  <1> HIDE DEF block
  <1>5. given' \in Seq(Byte)
    BY <1>2, <1>4, NamedUnitsAreBytes DEF PathInv
  <1>6. Named'
    BY <1>1, <1>2, <1>3 DEF Named
  <1>7. Arriving'
    BY <1>1, ArrivesKeepsArriving DEF PathInv
  <1>8. QED
    BY <1>1, <1>5, <1>6, <1>7 DEF PathInv

LEMMA FaultKeeps ==
  ASSUME TypeOK, OneFrame, PathInv, Fault, UNCHANGED <<content, given, meant>>
  PROVE  PathInv'
  <1>1. ASSUME NEW n \in 1..ChunkSize, ReallocFails(n) PROVE PathInv'
    <2>1. Arrives(n) /\ content' = content /\ sent' = sent /\ recv_buf' = <<>> /\ given' = given
      BY <1>1 DEF ReallocFails, Arrives
    <2>2. Arriving'
      BY <2>1, ArrivesKeepsArriving DEF PathInv
    <2>3. Named'
      BY <2>1 DEF Named
    <2>4. QED
      BY <2>1, <2>2, <2>3 DEF PathInv
  <1>2. CASE ConnectionLost
    BY <1>2 DEF ConnectionLost, PathInv, Arriving, Named
  <1>3. CASE ClientReplaced
    BY <1>3 DEF ClientReplaced, PathInv, Arriving, Named
  <1>4. QED
    BY <1>1, <1>2, <1>3 DEF Fault

LEMMA StepKeepsNames ==
  ASSUME TypeOK, OneFrame, PathInv, [PathNext]_pathVars
  PROVE  PathInv'
  <1>1. CASE UNCHANGED pathVars
    BY <1>1 DEF pathVars, vars, PathInv, Arriving, Named
  <1>2. CASE PathNext
    BY <1>2, SaysKeeps, ReceivesKeeps, FaultKeeps DEF PathNext
  <1>3. QED
    BY <1>1, <1>2

LEMMA BlocksAreBytes == PathSpec => []PathInv
  <1>1. TypeOK /\ OneFrame /\ PathInv /\ [PathNext]_pathVars => PathInv'
    BY StepKeepsNames
  <1>2. QED
    BY <1>1, InitIsNamed, PathHasChannelInv, PTL DEF PathSpec

(* The parser never looks behind the block ws_event_handler hands it, for  *)
(* any messages of the server, any sizes of the pieces, and however lost   *)
(* connections and failed allocations have cut and spliced the block.      *)
THEOREM ParserAlwaysStaysInside == PathSpec => []ParserStaysInside
  <1>1. PathInv => ParserStaysInside
    <2> SUFFICES ASSUME given \in Seq(Byte), NEW beyond \in {1, 128, 255}
                 PROVE  Result(beyond) = Result(0)
      BY DEF PathInv, ParserStaysInside
    <2>1. beyond \in Byte /\ 0 \in Byte
      BY DEF Byte
    <2>2. \A b \in Byte : InMemory(given, b) \in Memory
      BY DEF InMemory, Memory
    <2>3. Alike(InMemory(given, beyond), InMemory(given, 0), Len(given))
      BY DEF Alike, InMemory
    <2>4. Len(given) \in Nat
      OBVIOUS
    <2>5. QED
      BY <2>1, <2>2, <2>3, <2>4, ParserReadsItsBlockOnly DEF Result
  <1>2. QED
    BY <1>1, BlocksAreBytes, PTL

-----------------------------------------------------------------------------
(* Whole messages are understood *)

(* A block that is said to be a message holds the bytes of that message. *)
MeantIsGiven ==
  meant = <<>> \/ \E msg \in Meanings : meant = <<msg>> /\ given = Encode(msg)

LEMMA MessageIsGiven ==
  ASSUME TypeOK, OneFrame, PathInv, NEW n \in 1..ChunkSize, Receives(n), IsFinal(n),
         IsMessage(recv_buf \o Data(n), n)
  PROVE  MeantIsGiven'
  <1> DEFINE block == recv_buf \o Data(n)
             msg   == content[sent]
  <1>1. Arrives(n)
    BY DEF Receives, ReceiveData
  <1>2. frames # <<>> /\ sent # 0 /\ offset = position /\ Head(frames) = Len(Encode(msg))
    BY <1>1 DEF Arrives, OneFrame, PathInv, Arriving
  <1>3. /\ sent \in Nat /\ position \in Nat /\ n \in Nat /\ Len(content) = sent
        /\ content \in Seq(Meanings)
    BY SizesAssumption, BoundsAssumption DEF TypeOK, PathInv
  <1>4. msg \in Meanings
    BY <1>2, <1>3
  <1>5. Encode(msg) \in Seq(Byte) /\ Len(Encode(msg)) \in Nat
    BY <1>4, EncodingAssumption
  <1>6. /\ Len(block) = position + n
        /\ \A i \in 1..Len(block) : block[i] = [msg |-> sent, at |-> i]
    BY DEF IsMessage
  <1>7. position + n = Len(Encode(msg))
    <2>1. offset + n >= Head(frames) /\ n <= Head(frames) - offset
      BY <1>1 DEF Arrives, IsFinal
    <2>2. QED
      BY <1>2, <1>3, <1>5, <2>1
  <1>8. block \in Seq(Unit)
    BY <1>1, BlockIsNamed
  <1>9. /\ given' = [i \in DOMAIN block |-> Encode(content[block[i].msg])[block[i].at]]
        /\ meant' = <<msg>>
    BY DEF Receives
  <1> HIDE DEF block
  <1>10. DOMAIN block = 1..Len(Encode(msg))
    BY <1>6, <1>7, <1>8
  <1>11. \A i \in DOMAIN block : Encode(content[block[i].msg])[block[i].at] = Encode(msg)[i]
    <2> SUFFICES ASSUME NEW i \in DOMAIN block
                 PROVE  Encode(content[block[i].msg])[block[i].at] = Encode(msg)[i]
      OBVIOUS
    <2>1. block[i] = [msg |-> sent, at |-> i]
      BY <1>6, <1>7, <1>10
    <2>2. QED
      BY <2>1
  <1> HIDE DEF msg
  <1>12. given' = [i \in 1..Len(Encode(msg)) |-> Encode(msg)[i]]
    BY <1>9, <1>10, <1>11
  <1>13. \A s \in Seq(Byte) : s = [i \in 1..Len(s) |-> s[i]]
    OBVIOUS
  <1>14. given' = Encode(msg)
    BY <1>5, <1>12, <1>13
  <1>15. QED
    BY <1>4, <1>9, <1>14 DEF MeantIsGiven

LEMMA StepKeepsMeant ==
  ASSUME TypeOK, OneFrame, PathInv, MeantIsGiven, [PathNext]_pathVars
  PROVE  MeantIsGiven'
  <1>1. ASSUME NEW msg \in Meanings, Says(msg) PROVE MeantIsGiven'
    BY <1>1 DEF Says, MeantIsGiven
  <1>2. ASSUME NEW n \in 1..ChunkSize, Receives(n) PROVE MeantIsGiven'
    <2>1. CASE IsFinal(n) /\ IsMessage(recv_buf \o Data(n), n)
      BY <1>2, <2>1, MessageIsGiven
    <2>2. CASE IsFinal(n) /\ ~IsMessage(recv_buf \o Data(n), n)
      BY <1>2, <2>2 DEF Receives, MeantIsGiven
    <2>3. CASE ~IsFinal(n)
      BY <1>2, <2>3 DEF Receives, MeantIsGiven
    <2>4. QED
      BY <2>1, <2>2, <2>3
  <1>3. ASSUME UNCHANGED <<given, meant>> PROVE MeantIsGiven'
    BY <1>3 DEF MeantIsGiven
  <1>4. QED
    BY <1>1, <1>2, <1>3 DEF PathNext, pathVars

LEMMA MessagesAreGivenWhole == PathSpec => []MeantIsGiven
  <1>1. PathInit => MeantIsGiven
    BY DEF PathInit, MeantIsGiven
  <1>2. TypeOK /\ OneFrame /\ PathInv /\ MeantIsGiven /\ [PathNext]_pathVars => MeantIsGiven'
    BY StepKeepsMeant
  <1>3. QED
    BY <1>1, <1>2, PathHasChannelInv, BlocksAreBytes, PTL DEF PathSpec

(* A message that arrives whole, over whatever pieces and after whatever   *)
(* faults, is told to on_ws_receive as the server meant it: for every set  *)
(* of messages laid out by the protocol, every size of the pieces and of   *)
(* the buffer, and every number of faults.                                 *)
THEOREM MessagesAreUnderstood ==
  ASSUME \A msg \in Meanings : \E body, compression : SaysIt(Encode(msg), msg, body, compression)
  PROVE  PathSpec => []WholeMessagesAreUnderstood
  <1>1. MeantIsGiven => WholeMessagesAreUnderstood
    <2> SUFFICES ASSUME MeantIsGiven, NEW i \in DOMAIN meant
                 PROVE  Result(0) = Meaning(meant[i])
      BY DEF WholeMessagesAreUnderstood
    <2>1. PICK msg \in Meanings : meant = <<msg>> /\ given = Encode(msg)
      BY DEF MeantIsGiven
    <2>2. meant[i] = msg
      BY <2>1
    <2>3. given \in Seq(Byte)
      BY <2>1, EncodingAssumption
    <2>4. PICK body, compression : SaysIt(given, msg, body, compression)
      BY <2>1
    <2>5. InMemory(given, 0) \in Memory
      <3>1. 0 \in Byte
        BY DEF Byte
      <3>2. QED
        BY <2>3, <3>1 DEF InMemory, Memory
    <2>6. Holds(InMemory(given, 0), 0, given)
      <3> SUFFICES ASSUME NEW j \in 1..Len(given) PROVE InMemory(given, 0)[0 + j] = given[j]
        BY DEF Holds
      <3>1. 0 + j \in Nat /\ 0 + j = j /\ j \in DOMAIN given
        BY <2>3
      <3>2. QED
        BY <3>1 DEF InMemory
    <2>7. ParseResponse(InMemory(given, 0), Len(given)) = Meaning(msg)
      BY <2>4, <2>5, <2>6, ParserUnderstandsServer
    <2>8. QED
      BY <2>2, <2>7 DEF Result
  <1>2. QED
    BY <1>1, MessagesAreGivenWhole, PTL

=============================================================================
