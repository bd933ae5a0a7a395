------------------------------- MODULE ByteRing -------------------------------
(***************************************************************************)
(* The ring buffers of audio_hal.c.  They are byte buffers of ESP-IDF      *)
(* (RINGBUF_TYPE_BYTEBUF, esp_ringbuf): xRingbufferReceive hands out all   *)
(* the bytes up to the end of the storage as one item, without copying     *)
(* them; their space is free again when vRingbufferReturnItem gives the    *)
(* item back; and until then a further xRingbufferReceive gets nothing.    *)
(* xRingbufferSend copies all of its bytes or none.                        *)
(***************************************************************************)
EXTENDS Naturals, Sequences

(* bytes: what is stored, the bytes that are handed out first; start: the  *)
(* place of the first of them in the storage; held: how many are out.      *)
Ring(Byte, size) == [bytes : Seq(Byte), start : 0..(size - 1), held : Nat]

EmptyRing == [bytes |-> <<>>, start |-> 0, held |-> 0]

InBounds(rb, size) == rb.held <= Len(rb.bytes) /\ Len(rb.bytes) <= size

Fits(rb, data, size) == Len(rb.bytes) + Len(data) <= size

Sent(rb, data) == [rb EXCEPT !.bytes = @ \o data]

(* The bytes xRingbufferReceive can hand out now. *)
Contiguous(rb, size) ==
  IF rb.held # 0 THEN 0
  ELSE IF Len(rb.bytes) <= size - rb.start THEN Len(rb.bytes) ELSE size - rb.start

Item(rb, size) == SubSeq(rb.bytes, 1, Contiguous(rb, size))

Received(rb, size) == [rb EXCEPT !.held = Contiguous(rb, size)]

Returned(rb, size) ==
  [bytes |-> SubSeq(rb.bytes, rb.held + 1, Len(rb.bytes)),
   start |-> (rb.start + rb.held) % size,
   held  |-> 0]

=============================================================================
