---------------------------- MODULE DoubaoProtocol ----------------------------
(***************************************************************************)
(* The binary protocol (main/doubao_protocol.c, and build_command of       *)
(* main/doubao_ws_client.c): how a command is laid out and how a response  *)
(* is taken apart.  doubao_c_version/protocol.c parses alike.              *)
(*                                                                         *)
(* The parser is handed a pointer and a length.  Memory is a function of   *)
(* positions from 1, of which only the first len belong to the message, so *)
(* that a read past the end is a read of something.  A 32-bit field is the *)
(* tuple of its bytes; it becomes a number only where the code calculates  *)
(* with it.                                                                *)
(***************************************************************************)
EXTENDS Integers, Sequences

CONSTANTS
  Inflate(_),    (* tinfl: what a deflate stream holds, or CannotInflate   *)
  CannotInflate

Byte == 0..255
Word == Byte \X Byte \X Byte \X Byte

FULL_RESPONSE == 9
ACK == 11
ERROR == 15
COMPRESS_GZIP == 1
SERIAL_NONE == 0

(* The bits of the flags nibble that the parser looks at. *)
FLAG_NEG_SEQUENCE == 2
FLAG_MSG_WITH_EVENT == 4

HasBit(n, bit) == (n \div bit) % 2 = 1

-----------------------------------------------------------------------------
(* Building *)

(* write_u32_be *)
U32(n) == <<(n \div 16777216) % 256, (n \div 65536) % 256, (n \div 256) % 256, n % 256>>

GenerateHeader(type, flags, serial, compression) ==
  <<17, type * 16 + flags, serial * 16 + compression, 0>>

(* What build_command allocates ... *)
CommandSize(session, payload, includeSession) ==
  4 + 4 + (IF includeSession THEN 4 + Len(session) ELSE 0) + 4 + Len(payload)

(* ... and what it writes there; the compression it is asked for is not    *)
(* used.                                                                   *)
BuildCommand(type, flags, serial, cmd, session, payload, includeSession) ==
  GenerateHeader(type, flags, serial, 0)
    \o U32(cmd)
    \o (IF includeSession THEN U32(Len(session)) \o session ELSE <<>>)
    \o U32(Len(payload)) \o payload

-----------------------------------------------------------------------------
(* Reading *)

WordAt(m, at) == <<m[at + 1], m[at + 2], m[at + 3], m[at + 4]>>

Slice(m, from, to) == [i \in 1..(to - from) |-> m[from + i]]

(* A length the code reads into an int32_t: nothing follows a negative one. *)
Length32(w) ==
  IF w[1] >= 128 THEN 0
  ELSE w[1] * 16777216 + w[2] * 65536 + w[3] * 256 + w[4]

HeaderBytes(m) == (m[1] % 16) * 4
MessageType(m) == m[2] \div 16
Flags(m) == m[2] % 16
Serial(m) == m[3] \div 16
Compression(m) == m[3] % 16

(* Mutant: the test is for a positive sequence number. *)
SeqEndPositive(m) == HeaderBytes(m) + (IF HasBit(Flags(m), 1) THEN 4 ELSE 0)

(* Where the fields of a full response or an ACK end. *)
SeqEnd(m) == HeaderBytes(m) + (IF HasBit(Flags(m), FLAG_NEG_SEQUENCE) THEN 4 ELSE 0)

EventEnd(m) == SeqEnd(m) + (IF HasBit(Flags(m), FLAG_MSG_WITH_EVENT) THEN 4 ELSE 0)
SidStart(m) == EventEnd(m) + 4
SidEnd(m) == SidStart(m) + Length32(WordAt(m, EventEnd(m)))
PayloadStart(m) == SidEnd(m) + 4

(* Mutant: the session id is not checked against the end. *)
FieldsInsideUncheckedSid(m, len) ==
  SeqEnd(m) <= len /\ EventEnd(m) <= len /\ SidStart(m) <= len

(* The early returns, in their order. *)
FieldsInside(m, len) ==
  /\ SeqEnd(m) <= len
  /\ EventEnd(m) <= len
  /\ SidStart(m) <= len
  /\ SidEnd(m) <= len
  /\ PayloadStart(m) <= len

SESSION_ID_ROOM == 127
INT32_MAX == 2147483647

Shorter(a, b) == IF a <= b THEN a ELSE b

Sid(m) ==
  LET end == SidEnd(m) IN
  Slice(m, SidStart(m), Shorter(end, SidStart(m) + SESSION_ID_ROOM))

-----------------------------------------------------------------------------
(* gzip_decompress of the l bytes after position s *)

GzipFlags(m, s) == m[s + 4]

(* After the fixed header and FEXTRA. *)
ExtraEnd(m, s) ==
  IF HasBit(GzipFlags(m, s), 4) THEN 12 + m[s + 11] + 256 * m[s + 12] ELSE 10

Zeros(m, s, l, at) == {p \in at..(l - 1) : m[s + p + 1] = 0}

First(places) == CHOOSE p \in places : \A q \in places : p <= q

(* Past the next zero byte from at on, or past the end. *)
StringEnd(m, s, l, at) ==
  IF at >= l THEN at + 1
  ELSE IF Zeros(m, s, l, at) = {} THEN l + 1 ELSE 1 + First(Zeros(m, s, l, at))

NameEnd(m, s, l) ==
  IF HasBit(GzipFlags(m, s), 8) THEN StringEnd(m, s, l, ExtraEnd(m, s)) ELSE ExtraEnd(m, s)

CommentEnd(m, s, l) ==
  IF HasBit(GzipFlags(m, s), 16) THEN StringEnd(m, s, l, NameEnd(m, s, l)) ELSE NameEnd(m, s, l)

DeflateStart(m, s, l) ==
  CommentEnd(m, s, l) + (IF HasBit(GzipFlags(m, s), 2) THEN 2 ELSE 0)

IsGzip(m, s, l) ==
  /\ l >= 10
  /\ m[s + 1] = 31 /\ m[s + 2] = 139
  /\ HasBit(GzipFlags(m, s), 4) => 12 <= l
  /\ DeflateStart(m, s, l) < l

(* Before the eight bytes of the trailer, if anything is. *)
DeflateEnd(m, s, l) == IF DeflateStart(m, s, l) + 8 < l THEN l - 8 ELSE l

(* The output buffer does not grow. *)
InflateRoom(l) == IF 8 * l < 4096 THEN 4096 ELSE 8 * l

GzipDecompress(m, s, l) ==
  IF ~IsGzip(m, s, l) THEN CannotInflate
  ELSE LET out == Inflate(Slice(m, s + DeflateStart(m, s, l), s + DeflateEnd(m, s, l))) IN
       IF out = CannotInflate THEN CannotInflate
       ELSE IF Len(out) > InflateRoom(l) THEN CannotInflate ELSE out

-----------------------------------------------------------------------------
(* protocol_parse_response.  An absent field is the empty tuple.           *)
(* Allocations succeed here.  A failed one refuses a response like every   *)
(* other error; of an error message it leaves the payload out, as where it *)
(* cannot be inflated, and where it was not compressed its length stays    *)
(* without it (no caller reads the one without the other).                 *)

Refused == [ok |-> FALSE]

Parsed(type, seq, event, sid, payload, binary) ==
  [ok |-> TRUE, type |-> type, seq |-> seq, event |-> event, sid |-> sid,
   payload |-> payload, binary |-> binary]

PayloadAt(m, start, len) ==
  IF Compression(m) = COMPRESS_GZIP THEN GzipDecompress(m, start, len - start)
  ELSE Slice(m, start, len)

ParseFields(m, len) ==
  LET seq   == IF SeqEnd(m) > HeaderBytes(m) THEN WordAt(m, HeaderBytes(m)) ELSE <<>>
      event == IF EventEnd(m) > SeqEnd(m) THEN WordAt(m, SeqEnd(m)) ELSE <<>>
      start == PayloadStart(m)
      data  == PayloadAt(m, start, len)
  IN  IF ~FieldsInside(m, len) THEN Refused
      ELSE IF len = start \/ WordAt(m, SidEnd(m)) = <<0, 0, 0, 0>>
      THEN Parsed(MessageType(m), seq, event, Sid(m), <<>>, FALSE)
      ELSE IF data = CannotInflate THEN Refused
      ELSE Parsed(MessageType(m), seq, event, Sid(m), data, Serial(m) = SERIAL_NONE)

(* The error code takes the place of the event.  What cannot be inflated   *)
(* is left out.                                                            *)
ParseError(m, len) ==
  LET at   == HeaderBytes(m)
      data == PayloadAt(m, at + 8, len)
  IN  IF at + 8 > len THEN Refused
      ELSE Parsed(ERROR, <<>>, WordAt(m, at), <<>>,
                  IF at + 8 = len \/ data = CannotInflate THEN <<>> ELSE data, FALSE)

ParseResponse(m, len) ==
  IF len < 4 THEN Refused
  ELSE IF HeaderBytes(m) > len THEN Refused
  ELSE CASE MessageType(m) \in {FULL_RESPONSE, ACK} -> ParseFields(m, len)
         [] MessageType(m) = ERROR -> ParseError(m, len)
         [] OTHER -> Parsed(MessageType(m), <<>>, <<>>, <<>>, <<>>, FALSE)

-----------------------------------------------------------------------------
(* What the server means, and how it lays it out *)

ServerFlags(msg) ==
  (IF msg.seq = <<>> THEN 0 ELSE FLAG_NEG_SEQUENCE)
    + (IF msg.event = <<>> THEN 0 ELSE FLAG_MSG_WITH_EVENT)

(* body: the payload, compressed or not. *)
ServerMessage(msg, body, compression) ==
  GenerateHeader(msg.type, ServerFlags(msg), msg.serial, compression)
    \o msg.seq \o msg.event
    \o U32(Len(msg.sid)) \o msg.sid \o U32(Len(body)) \o body

(* An error's event is its code. *)
ServerError(msg, body, compression) ==
  GenerateHeader(ERROR, 0, msg.serial, compression)
    \o msg.event \o U32(Len(body)) \o body

(* body carries the payload; nothing is compressed to nothing.             *)
Carries(body, compression, payload) ==
  /\ body \in Seq(Byte) /\ Len(body) <= INT32_MAX
  /\ compression \in 0..15
  /\ body = <<>> <=> payload = <<>>
  /\ payload # CannotInflate
  /\ payload = IF compression = COMPRESS_GZIP /\ body # <<>>
               THEN GzipDecompress(body, 0, Len(body)) ELSE body

(* What a response and an error can say, and the bytes that say it.        *)
IsResponse(msg) ==
  /\ msg.type \in {FULL_RESPONSE, ACK} /\ msg.serial \in 0..15
  /\ msg.seq \in Word \cup {<<>>} /\ msg.event \in Word \cup {<<>>}
  /\ msg.sid \in Seq(Byte) /\ Len(msg.sid) <= SESSION_ID_ROOM

IsError(msg) ==
  /\ msg.type = ERROR /\ msg.serial \in 0..15
  /\ msg.seq = <<>> /\ msg.event \in Word /\ msg.sid = <<>>

SaysIt(bytes, msg, body, compression) ==
  /\ Carries(body, compression, msg.payload)
  /\ \/ IsResponse(msg) /\ bytes = ServerMessage(msg, body, compression)
     \/ IsError(msg) /\ bytes = ServerError(msg, body, compression)

Meaning(msg) ==
  Parsed(msg.type, msg.seq, msg.event, msg.sid, msg.payload,
         msg.type # ERROR /\ msg.payload # <<>> /\ msg.serial = SERIAL_NONE)

=============================================================================
