------------------------------ MODULE ReceivePath ------------------------------
(***************************************************************************)
(* From the frames of the WebSocket to what on_ws_receive is told: the     *)
(* reassembly of WsReassembly and, for every block it hands over, the      *)
(* parser of DoubaoProtocol.  A unit of WsReassembly is now a byte of a    *)
(* message the server has laid out.                                        *)
(***************************************************************************)
EXTENDS WsReassembly, DoubaoProtocol

CONSTANTS
  Meanings,       (* what the server may say                               *)
  Encode(_)       (* the bytes it says it with                             *)

ASSUME EncodingAssumption ==
  /\ \A msg \in Meanings : Encode(msg) \in Seq(Byte)
  /\ Shapes = {<<Len(Encode(msg))>> : msg \in Meanings}

VARIABLES
  content,   (* what the server has said                                   *)
  given,     (* the bytes of the last block the parser was handed          *)
  meant      (* <<what the server meant>> by it, or <<>> if the block is   *)
             (* no message                                                 *)

pathVars == <<vars, content, given, meant>>

PathInit == Init /\ content = <<>> /\ given = <<>> /\ meant = <<>>

Says(msg) ==
  /\ ServerSends
  /\ frames' = <<Len(Encode(msg))>>
  /\ content' = Append(content, msg)
  /\ UNCHANGED <<given, meant>>

(* recv_callback: ws_event_handler passes the buffer, on_ws_receive parses. *)
Receives(n) ==
  /\ ReceiveData(n)
  /\ LET block == recv_buf \o Data(n) IN
     IF IsFinal(n)
     THEN /\ given' = [i \in DOMAIN block |-> Encode(content[block[i].msg])[block[i].at]]
          /\ meant' = IF IsMessage(block, n) THEN <<content[sent]>> ELSE <<>>
     ELSE UNCHANGED <<given, meant>>
  /\ UNCHANGED content

Fault == (\E n \in 1..ChunkSize : ReallocFails(n)) \/ ConnectionLost \/ ClientReplaced

PathNext ==
  \/ \E msg \in Meanings : Says(msg)
  \/ \E n \in 1..ChunkSize : Receives(n)
  \/ Fault /\ UNCHANGED <<content, given, meant>>

PathSpec == PathInit /\ [][PathNext]_pathVars

-----------------------------------------------------------------------------
(* The block in memory, with something else after it. *)
InMemory(block, beyond) == [i \in Nat |-> IF i \in DOMAIN block THEN block[i] ELSE beyond]

Result(beyond) == ParseResponse(InMemory(given, beyond), Len(given))

(* The parser reads nothing outside the block it is handed, cut and        *)
(* spliced by lost connections and failed allocations as it may be: what   *)
(* it returns does not depend on what lies behind the block.               *)
ParserStaysInside == \A beyond \in {1, 128, 255} : Result(beyond) = Result(0)

(* A message that arrives whole, over whatever pieces and after whatever   *)
(* faults, is told to on_ws_receive as the server meant it.                *)
WholeMessagesAreUnderstood ==
  \A i \in DOMAIN meant : Result(0) = Meaning(meant[i])

=============================================================================
