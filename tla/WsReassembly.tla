----------------------------- MODULE WsReassembly -----------------------------
(***************************************************************************)
(* How main/doubao_ws_client.c puts the server's messages together again:  *)
(* esp_websocket_client hands a frame over in pieces of at most its buffer *)
(* size, ws_event_handler appends them to recv_buf, lets it grow, and gives *)
(* the parser what it holds when a frame is complete.                      *)
(*                                                                         *)
(* A byte is a unit [msg, at]: which message it belongs to and where, so   *)
(* that a block the parser gets can be compared with what was sent.  The   *)
(* frame boundaries of a message (its shape) are the server's choice.      *)
(***************************************************************************)
EXTENDS Naturals, Sequences

CONSTANTS
  Shapes,       (* the frame lengths a message may be sent with            *)
  ChunkSize,    (* buffer_size of the client: the longest piece            *)
  InitSize,     (* RECV_BUF_INIT_SIZE                                      *)
  MinGrowth,    (* 8192: the smallest capacity a realloc asks for          *)
  MaxMessages,  (* bound: messages                                         *)
  MaxFaults     (* bound: lost connections and failed allocations          *)

ASSUME ShapesAssumption == Shapes \subseteq Seq(Nat \ {0})
ASSUME SizesAssumption ==
  ChunkSize \in Nat \ {0} /\ InitSize \in Nat \ {0} /\ MinGrowth \in Nat \ {0}
ASSUME BoundsAssumption == MaxMessages \in Nat /\ MaxFaults \in Nat

VARIABLES
  sent,      (* messages sent; the last one may still be arriving          *)
  frames,    (* the lengths of its frames that are not complete yet        *)
  offset,    (* payload_offset: how much of the first of them has arrived  *)
  position,  (* how much of the message has arrived                        *)
  recv_buf,  (* the first recv_buf_len units of the receive buffer         *)
  recv_buf_cap,
  last,      (* the last message given to the parser whole                 *)
  damaged,   (* how often the parser was given something else              *)
  faults

vars == <<sent, frames, offset, position, recv_buf, recv_buf_cap,
          last, damaged, faults>>

Unit == [msg : Nat, at : Nat]

TypeOK ==
  /\ sent \in 0..MaxMessages
  /\ frames \in Seq(Nat \ {0})
  /\ offset \in Nat /\ position \in Nat
  /\ frames # <<>> => offset < Head(frames)
  /\ recv_buf \in Seq(Unit)
  /\ recv_buf_cap \in Nat /\ recv_buf_cap >= InitSize
  /\ last \in Nat /\ damaged \in Nat
  /\ faults \in 0..MaxFaults

Init ==
  /\ sent = 0
  /\ frames = <<>>
  /\ offset = 0
  /\ position = 0
  /\ recv_buf = <<>>
  /\ recv_buf_cap = InitSize
  /\ last = 0
  /\ damaged = 0
  /\ faults = 0

-----------------------------------------------------------------------------
ServerSends ==
  /\ frames = <<>>
  /\ sent < MaxMessages
  /\ sent' = sent + 1
  /\ frames' \in Shapes
  /\ offset' = 0
  /\ position' = 0
  /\ UNCHANGED <<recv_buf, recv_buf_cap, last, damaged, faults>>

(* n units of the message that is arriving: the data of one event. *)
Data(n) == [i \in 1..n |-> [msg |-> sent, at |-> position + i]]

(* payload_offset + data_len >= payload_len *)
IsFinal(n) == offset + n >= Head(frames)

Arrives(n) ==
  /\ frames # <<>>
  /\ n <= ChunkSize
  /\ n <= Head(frames) - offset
  /\ position' = position + n
  /\ frames' = IF IsFinal(n) THEN Tail(frames) ELSE frames
  /\ offset' = IF IsFinal(n) THEN 0 ELSE offset + n
  /\ UNCHANGED sent

(* The block is the whole message: all of its units, and nothing else. *)
IsMessage(block, n) ==
  /\ Len(frames) = 1
  /\ Len(block) = position + n
  /\ \A i \in 1..Len(block) : block[i] = [msg |-> sent, at |-> i]

(* Mutant: the buffer is reallocated for every piece. *)
CapacityOfPiece(needed) == needed * 2

(* Mutant: the new capacity is computed from what the buffer holds now. *)
CapacityOfOldLength(needed) ==
  IF needed <= recv_buf_cap THEN recv_buf_cap
  ELSE IF Len(recv_buf) * 2 < MinGrowth THEN MinGrowth ELSE Len(recv_buf) * 2

CapacityFor(needed) ==
  IF needed <= recv_buf_cap THEN recv_buf_cap
  ELSE IF needed * 2 < MinGrowth THEN MinGrowth ELSE needed * 2

(* Hand a block over to the parser. *)
Deliver(block, n) ==
  IF IsMessage(block, n) THEN last' = sent /\ UNCHANGED damaged
  ELSE damaged' = damaged + 1 /\ UNCHANGED last

(* Mutant: recv_buf_len is not reset after a message. *)
ReceiveDataWithoutReset(n) ==
  /\ Arrives(n)
  /\ LET block == recv_buf \o Data(n)
     IN  /\ recv_buf_cap' = CapacityFor(Len(block))
         /\ recv_buf' = block
         /\ IF IsFinal(n) THEN Deliver(block, n) ELSE UNCHANGED <<last, damaged>>
  /\ UNCHANGED faults

ReceiveData(n) ==
  /\ Arrives(n)
  /\ LET block == recv_buf \o Data(n)
     IN  /\ recv_buf_cap' = CapacityFor(Len(block))
         /\ IF IsFinal(n) THEN recv_buf' = <<>> /\ Deliver(block, n)
            ELSE recv_buf' = block /\ UNCHANGED <<last, damaged>>
  /\ UNCHANGED faults

(* heap_caps_realloc fails: what the buffer held is dropped, and so is     *)
(* this piece, even when it completes the frame.                           *)
ReallocFails(n) ==
  /\ Arrives(n)
  /\ Len(recv_buf) + n > recv_buf_cap
  /\ faults < MaxFaults
  /\ faults' = faults + 1
  /\ recv_buf' = <<>>
  /\ UNCHANGED <<recv_buf_cap, last, damaged>>

(* The connection is lost within a message and opened again by the client. *)
(* WEBSOCKET_EVENT_DISCONNECTED leaves the buffer as it is.                *)
ConnectionLost ==
  /\ frames # <<>>
  /\ faults < MaxFaults
  /\ faults' = faults + 1
  /\ frames' = <<>>
  /\ offset' = 0
  /\ position' = 0
  /\ UNCHANGED <<sent, recv_buf, recv_buf_cap, last, damaged>>

(* doubao_ws_destroy and doubao_ws_init: a new buffer. *)
ClientReplaced ==
  /\ frames' = <<>>
  /\ offset' = 0
  /\ position' = 0
  /\ recv_buf' = <<>>
  /\ recv_buf_cap' = InitSize
  /\ UNCHANGED <<sent, last, damaged, faults>>

Next ==
  \/ ServerSends
  \/ \E n \in 1..ChunkSize : ReceiveData(n) \/ ReallocFails(n)
  \/ ConnectionLost
  \/ ClientReplaced

Spec == Init /\ [][Next]_vars

-----------------------------------------------------------------------------
(* The memcpy into recv_buf stays inside it, whatever the lengths, after   *)
(* any reallocation, failed or not.                                        *)
NoOverflow == Len(recv_buf) <= recv_buf_cap

(* The parser gets the messages whole, in order and at most once, but for  *)
(* one damaged block per fault.                                            *)
Channel == INSTANCE MessageChannel
ImplementsChannel == Channel!ChannelSpec

=============================================================================
