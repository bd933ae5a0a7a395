-------------------------- MODULE WsReassemblyProofs --------------------------
(***************************************************************************)
(* What TLAPS proves of WsReassembly: the receive buffer never overflows,  *)
(* for any sizes and any framing; and it implements MessageChannel when    *)
(* the server sends every message in one frame.                            *)
(***************************************************************************)
EXTENDS WsReassembly, TLAPS

(* What the framing of the server decides. *)
OneFrameEach == \A shape \in Shapes : Len(shape) = 1

Fits == Len(recv_buf) <= recv_buf_cap

(* The message that is arriving was not delivered yet. *)
InOrder == last <= sent /\ (frames # <<>> => last < sent)

(* The offset within the frame is the position in the message. *)
OneFrame == frames # <<>> => Len(frames) = 1 /\ offset = position

(* The buffer holds the part of the message that has arrived. *)
Clean ==
  IF frames = <<>> THEN recv_buf = <<>>
  ELSE /\ Len(recv_buf) = position
       /\ \A i \in 1..Len(recv_buf) : recv_buf[i] = [msg |-> sent, at |-> i]

(* A buffer that is not clean will cost one damaged block: a fault that    *)
(* has not caused one yet pays for it.                                     *)
DamageIsPaid == damaged <= faults /\ (Clean \/ damaged < faults)

ChannelInv == InOrder /\ OneFrame /\ DamageIsPaid

-----------------------------------------------------------------------------
LEMMA InitIsTyped == Init => TypeOK /\ Fits
BY SizesAssumption, BoundsAssumption DEF Init, TypeOK, Fits

LEMMA Concatenation ==
  ASSUME NEW S, NEW s \in Seq(S), NEW t \in Seq(S)
  PROVE  /\ s \o t \in Seq(S)
         /\ Len(s \o t) = Len(s) + Len(t)
         /\ \A i \in 1..Len(s) : (s \o t)[i] = s[i]
         /\ \A i \in 1..Len(t) : (s \o t)[Len(s) + i] = t[i]
OBVIOUS

LEMMA TailOfOne ==
  ASSUME NEW S, NEW s \in Seq(S), Len(s) = 1
  PROVE  Tail(s) = <<>>
<1>1. Tail(s) \in Seq(S) /\ Len(Tail(s)) = 0
  OBVIOUS
<1>2. \A u \in Seq(S) : Len(u) = 0 => u = <<>>
  OBVIOUS
<1>3. QED
  BY <1>1, <1>2, Zenon

(* A piece of a frame. *)
LEMMA DataIsTyped ==
  ASSUME TypeOK, NEW n \in 1..ChunkSize
  PROVE  Data(n) \in Seq(Unit) /\ Len(Data(n)) = n
<1>1. n \in Nat
  BY SizesAssumption
<1>2. \A i \in 1..n : [msg |-> sent, at |-> position + i] \in Unit
  BY <1>1, BoundsAssumption DEF TypeOK, Unit
<1>3. Data(n) \in [1..n -> Unit]
  BY <1>2 DEF Data
<1>4. QED
  BY <1>1, <1>3

(* A piece moves the arrival on. *)
LEMMA ArrivesIsTyped ==
  ASSUME TypeOK, NEW n \in 1..ChunkSize, Arrives(n)
  PROVE  /\ sent' \in 0..MaxMessages
         /\ frames' \in Seq(Nat \ {0})
         /\ offset' \in Nat /\ position' \in Nat
         /\ frames' # <<>> => offset' < Head(frames')
<1>1. n \in Nat /\ Head(frames) \in Nat \ {0} /\ Tail(frames) \in Seq(Nat \ {0})
  BY SizesAssumption DEF Arrives, TypeOK
<1>2. CASE IsFinal(n)
  <2>1. frames' = Tail(frames) /\ offset' = 0
    BY <1>2 DEF Arrives
  <2>2. frames' # <<>> => Head(frames') \in Nat \ {0}
    BY <1>1, <2>1
  <2>3. sent' = sent /\ position' = position + n
    BY DEF Arrives
  <2>4. sent' \in 0..MaxMessages /\ position' \in Nat
    BY <1>1, <2>3 DEF TypeOK
  <2>5. QED
    BY <1>1, <2>1, <2>2, <2>4
<1>3. CASE ~IsFinal(n)
  BY <1>1, <1>3 DEF Arrives, IsFinal, TypeOK
<1>4. QED
  BY <1>2, <1>3

LEMMA CapacityIsEnough ==
  ASSUME TypeOK, NEW needed \in Nat
  PROVE  /\ CapacityFor(needed) \in Nat
         /\ needed <= CapacityFor(needed) /\ recv_buf_cap <= CapacityFor(needed)
BY SizesAssumption DEF CapacityFor, TypeOK

LEMMA NextIsTyped == TypeOK /\ Fits /\ [Next]_vars => TypeOK' /\ Fits'
<1> SUFFICES ASSUME TypeOK, Fits, [Next]_vars PROVE TypeOK' /\ Fits'
  OBVIOUS
<1>1. CASE ServerSends
  <2>1. frames' \in Seq(Nat \ {0}) /\ (frames' # <<>> => Head(frames') \in Nat \ {0})
    BY <1>1, ShapesAssumption DEF ServerSends
  <2>2. sent' \in 0..MaxMessages
    BY <1>1, BoundsAssumption DEF ServerSends, TypeOK
  <2>3. QED
    BY <1>1, <2>1, <2>2 DEF ServerSends, TypeOK, Fits
<1>2. ASSUME NEW n \in 1..ChunkSize, ReceiveData(n)
      PROVE  TypeOK' /\ Fits'
  <2> DEFINE block == recv_buf \o Data(n)
  <2>1. block \in Seq(Unit) /\ Len(block) \in Nat
    BY DataIsTyped DEF TypeOK
  <2>2. /\ recv_buf_cap' \in Nat /\ recv_buf_cap' >= InitSize
        /\ Len(block) <= recv_buf_cap'
    <3>1. recv_buf_cap' = CapacityFor(Len(block))
      BY <1>2 DEF ReceiveData
    <3> HIDE DEF block
    <3>2. QED
      BY <2>1, <3>1, CapacityIsEnough, SizesAssumption DEF TypeOK
  <2>3. recv_buf' \in {<<>>, block}
    BY <1>2 DEF ReceiveData
  <2>4. recv_buf' \in Seq(Unit) /\ Len(recv_buf') <= recv_buf_cap'
    <3>1. <<>> \in Seq(Unit) /\ Len(<<>>) = 0
      OBVIOUS
    <3> HIDE DEF block
    <3>2. CASE recv_buf' = <<>>
      BY <2>2, <3>1, <3>2
    <3>3. CASE recv_buf' = block
      BY <2>1, <2>2, <3>3
    <3>4. QED
      BY <2>3, <3>2, <3>3
  <2>5. last' \in Nat /\ damaged' \in Nat /\ faults' \in 0..MaxFaults
    BY <1>2 DEF ReceiveData, Deliver, TypeOK
  <2>6. QED
    BY <1>2, <2>2, <2>4, <2>5, ArrivesIsTyped DEF ReceiveData, TypeOK, Fits
<1>3. ASSUME NEW n \in 1..ChunkSize, ReallocFails(n)
      PROVE  TypeOK' /\ Fits'
  <2>1. faults' \in 0..MaxFaults
    BY <1>3, BoundsAssumption DEF ReallocFails, TypeOK
  <2>2. QED
    BY <1>3, <2>1, ArrivesIsTyped DEF ReallocFails, TypeOK, Fits
<1>4. CASE ConnectionLost
  BY <1>4, BoundsAssumption DEF ConnectionLost, TypeOK, Fits
<1>5. CASE ClientReplaced
  BY <1>5, SizesAssumption DEF ClientReplaced, TypeOK, Fits
<1>6. CASE UNCHANGED vars
  BY <1>6 DEF vars, TypeOK, Fits
<1>7. QED
  BY <1>1, <1>2, <1>3, <1>4, <1>5, <1>6 DEF Next

LEMMA TypedAndFitting == Spec => [](TypeOK /\ Fits)
BY InitIsTyped, NextIsTyped, PTL DEF Spec

(* Types, for any framing, sizes and bounds. *)
THEOREM TypeCorrect == Spec => []TypeOK
BY TypedAndFitting, PTL

(* ws_event_handler never writes past recv_buf. *)
THEOREM BufferNeverOverflows == Spec => []NoOverflow
<1>1. Fits => NoOverflow
  BY DEF Fits, NoOverflow
<1>2. QED
  BY <1>1, TypedAndFitting, PTL

-----------------------------------------------------------------------------
(* The channel *)

LEMMA InitHasChannelInv == Init => ChannelInv /\ Channel!ChannelInit
BY DEF Init, ChannelInv, InOrder, OneFrame, DamageIsPaid, Clean, Channel!ChannelInit

(* A buffer that is clean stays so while a frame arrives. *)
LEMMA PieceKeepsClean ==
  ASSUME TypeOK, Clean, OneFrame, NEW n \in 1..ChunkSize, Arrives(n)
  PROVE  LET block == recv_buf \o Data(n)
         IN  /\ Len(block) = position + n
             /\ \A i \in 1..Len(block) : block[i] = [msg |-> sent, at |-> i]
<1> DEFINE block == recv_buf \o Data(n)
<1>1. n \in Nat /\ position \in Nat /\ Len(recv_buf) = position
  BY SizesAssumption DEF Arrives, TypeOK, Clean
<1>2. Len(block) = position + n
  <2>1. recv_buf \in Seq(Unit) /\ Data(n) \in Seq(Unit) /\ Len(Data(n)) = n
    BY DataIsTyped DEF TypeOK
  <2>2. QED
    BY <1>1, <2>1, Concatenation
<1>3. ASSUME NEW i \in 1..(position + n)
      PROVE  block[i] = [msg |-> sent, at |-> i]
  <2>1. CASE i <= position
    <3>1. i \in 1..Len(recv_buf)
      BY <1>1, <2>1
    <3>2. block[i] = recv_buf[i]
      BY <3>1, DataIsTyped, Concatenation DEF TypeOK
    <3>3. recv_buf[i] = [msg |-> sent, at |-> i]
      BY <3>1 DEF Clean, Arrives
    <3>4. QED
      BY <3>2, <3>3
  <2>2. CASE i > position
    <3>1. i - position \in 1..n
      BY <1>1, <2>2
    <3>2. block[i] = Data(n)[i - position]
      <4>1. i = Len(recv_buf) + (i - position)
        BY <1>1
      <4>2. \A k \in 1..n : block[Len(recv_buf) + k] = Data(n)[k]
        <5>1. /\ recv_buf \in Seq(Unit)
              /\ Data(n) \in Seq(Unit) /\ Len(Data(n)) = n
          BY DataIsTyped DEF TypeOK
        <5>2. QED
          BY <5>1, Concatenation
      <4> HIDE DEF block
      <4>3. QED
        BY <3>1, <4>1, <4>2
    <3>3. Data(n)[i - position] = [msg |-> sent, at |-> position + (i - position)]
      BY <3>1 DEF Data
    <3>4. QED
      BY <1>1, <3>2, <3>3
  <2> HIDE DEF block
  <2>3. QED
    BY <1>1, <2>1, <2>2
<1>4. QED
  BY <1>2, <1>3

LEMMA NextKeepsChannel ==
  OneFrameEach /\ TypeOK /\ TypeOK' /\ ChannelInv /\ [Next]_vars
    => ChannelInv' /\ [Channel!ChannelNext]_(Channel!channelVars)
<1> SUFFICES ASSUME OneFrameEach, TypeOK, TypeOK', ChannelInv, [Next]_vars
             PROVE  ChannelInv' /\ [Channel!ChannelNext]_(Channel!channelVars)
  OBVIOUS
<1> USE DEF ChannelInv, Channel!ChannelNext, Channel!channelVars
<1>1. CASE ServerSends
  <2>1. Len(frames') = 1
    BY <1>1 DEF ServerSends, OneFrameEach
  <2>2. InOrder' /\ OneFrame'
    BY <1>1, <2>1 DEF ServerSends, InOrder, OneFrame, TypeOK
  <2>3. Clean => Clean'
    BY <1>1 DEF ServerSends, Clean
  <2>4. DamageIsPaid'
    BY <1>1, <2>3 DEF ServerSends, DamageIsPaid
  <2>5. Channel!Send
    BY <1>1 DEF ServerSends, Channel!Send
  <2>6. QED
    BY <2>2, <2>4, <2>5
<1>2. ASSUME NEW n \in 1..ChunkSize, ReceiveData(n)
      PROVE  ChannelInv' /\ [Channel!ChannelNext]_(Channel!channelVars)
  <2> DEFINE block == recv_buf \o Data(n)
  <2>1. Arrives(n) /\ frames # <<>> /\ Len(frames) = 1 /\ offset = position
    BY <1>2 DEF ReceiveData, Arrives, OneFrame
  <2>2. CASE IsFinal(n)
    <3>1. frames' = <<>> /\ recv_buf' = <<>> /\ Clean'
      <4>1. Tail(frames) = <<>>
        BY <2>1, TailOfOne DEF TypeOK
      <4>2. frames' = <<>> /\ recv_buf' = <<>>
        BY <1>2, <2>1, <2>2, <4>1 DEF ReceiveData, Arrives
      <4>3. QED
        BY <4>2 DEF Clean
    <3>2. CASE IsMessage(block, n)
      <4>1. last' = sent /\ UNCHANGED <<sent, damaged, faults>>
        BY <1>2, <2>1, <2>2, <3>2 DEF ReceiveData, Deliver, Arrives
      <4>2. last < sent
        BY <2>1 DEF InOrder
      <4>3. Channel!Deliver
        BY <4>1, <4>2 DEF Channel!Deliver, TypeOK
      <4>4. QED
        BY <3>1, <4>1, <4>3 DEF InOrder, OneFrame, DamageIsPaid, TypeOK
    <3>3. CASE ~IsMessage(block, n)
      <4>1. damaged' = damaged + 1 /\ UNCHANGED <<sent, last, faults>>
        BY <1>2, <2>1, <2>2, <3>3 DEF ReceiveData, Deliver, Arrives
      <4>2. ~Clean
        BY <2>1, <3>3, PieceKeepsClean DEF IsMessage
      <4>3. damaged < faults
        BY <4>2 DEF DamageIsPaid
      <4>4. Channel!Damage
        BY <4>1, <4>3 DEF Channel!Damage
      <4>5. QED
        BY <3>1, <4>1, <4>3, <4>4 DEF InOrder, OneFrame, DamageIsPaid, TypeOK
    <3>4. QED
      BY <3>2, <3>3
  <2>3. CASE ~IsFinal(n)
    <3>1. /\ recv_buf' = block
          /\ frames' = frames /\ offset' = offset + n /\ position' = position + n
          /\ UNCHANGED <<sent, last, damaged, faults>>
      BY <1>2, <2>1, <2>3 DEF ReceiveData, Arrives
    <3>2. Clean => Clean'
      <4>1. SUFFICES ASSUME Clean PROVE Clean'
        OBVIOUS
      <4>2. /\ Len(block) = position + n
            /\ \A i \in 1..Len(block) : block[i] = [msg |-> sent, at |-> i]
        BY <2>1, <4>1, PieceKeepsClean
      <4> HIDE DEF block
      <4>3. QED
        BY <2>1, <3>1, <4>2 DEF Clean
    <3>3. QED
      BY <2>1, <3>1, <3>2 DEF InOrder, OneFrame, DamageIsPaid
  <2>4. QED
    BY <2>2, <2>3
<1>3. ASSUME NEW n \in 1..ChunkSize, ReallocFails(n)
      PROVE  ChannelInv' /\ [Channel!ChannelNext]_(Channel!channelVars)
  <2>1. Arrives(n) /\ faults' = faults + 1 /\ UNCHANGED <<sent, last, damaged>>
    BY <1>3 DEF ReallocFails, Arrives
  <2>2. frames' = <<>> \/ (frames' = frames /\ offset' = offset + n
                                           /\ position' = position + n)
    <3>1. frames # <<>> /\ Tail(frames) = <<>>
      BY <2>1, TailOfOne DEF Arrives, OneFrame, TypeOK
    <3>2. QED
      BY <2>1, <3>1 DEF Arrives
  <2>3. InOrder' /\ OneFrame'
    BY <2>1, <2>2 DEF InOrder, OneFrame
  <2>4. DamageIsPaid'
    BY <2>1 DEF DamageIsPaid, TypeOK
  <2>5. Channel!Fault
    BY <2>1 DEF Channel!Fault
  <2>6. QED
    BY <2>3, <2>4, <2>5
<1>4. CASE ConnectionLost
  <2>1. InOrder' /\ OneFrame' /\ DamageIsPaid'
    BY <1>4 DEF ConnectionLost, InOrder, OneFrame, DamageIsPaid, TypeOK
  <2>2. Channel!Fault
    BY <1>4 DEF ConnectionLost, Channel!Fault
  <2>3. QED
    BY <2>1, <2>2
<1>5. CASE ClientReplaced
  BY <1>5 DEF ClientReplaced, InOrder, OneFrame, DamageIsPaid, Clean
<1>6. CASE UNCHANGED vars
  BY <1>6 DEF vars, InOrder, OneFrame, DamageIsPaid, Clean
<1>7. QED
  BY <1>1, <1>2, <1>3, <1>4, <1>5, <1>6 DEF Next

(* With one frame per message the parser gets the messages whole, in order *)
(* and at most once, but for one damaged block per fault.                  *)
THEOREM ReassemblyImplementsChannel ==
  ASSUME OneFrameEach
  PROVE  Spec => ImplementsChannel
<1>1. Spec => Channel!ChannelInit
  BY InitHasChannelInv DEF Spec
<1>2. Spec => [](TypeOK /\ ChannelInv)
  BY OneFrameEach, InitIsTyped, InitHasChannelInv, NextIsTyped, NextKeepsChannel,
     TypedAndFitting, PTL DEF Spec
<1>3. QED
  BY <1>1, <1>2, OneFrameEach, NextKeepsChannel, PTL
     DEF Spec, ImplementsChannel, Channel!ChannelSpec

=============================================================================
