------------------------------ MODULE AudioUplink ------------------------------
(***************************************************************************)
(* From the microphone to the server.  afe_fetch_task (afe_handler.c) puts *)
(* the cleaned audio into capture_rb while streaming is on; ws_tx_task     *)
(* (app_main.c) takes it out, makes chunks of chunk_bytes and sends them   *)
(* while the dialog is LISTENING; the handlers of the dialog (AppHandlers) *)
(* switch streaming, drain capture_rb and change the state underneath.     *)
(*                                                                         *)
(* A byte of audio is the number of the moment it was picked up.           *)
(***************************************************************************)
EXTENDS AppHandlers, ByteRing

CONSTANTS
  ChunkBytes,   (* chunk_bytes of ws_tx_task: 640                          *)
  FetchBytes,   (* data_size of an AFE result                              *)
  CaptureSize,  (* CAPTURE_RB_SIZE                                         *)
  MaxItems,     (* bound: AFE results                                      *)
  MaxOutside    (* bound: what the user, the server and the network do     *)

ASSUME UplinkSizes ==
  ChunkBytes \in Nat \ {0} /\ FetchBytes \in Nat \ {0} /\ CaptureSize \in Nat \ {0}
ASSUME UplinkBounds == MaxItems \in Nat /\ MaxOutside \in Nat

VARIABLES
  app,       (* g_app_state                                                *)
  on,        (* those of the flags running, streaming, connected that hold *)
  script,    (* what the handler of the dialog that is running has to do   *)
  capture,   (* capture_rb                                                 *)
  items,     (* AFE results so far                                         *)
  fetched,   (* the result afe_fetch_task is about to put into capture_rb  *)
  tx,        (* where ws_tx_task is                                        *)
  chunk,     (* the first "accumulated" bytes of pcm_chunk                 *)
  lastSent,  (* the last byte sent                                         *)
  expected,  (* history: the byte the next chunk starts with, unless audio *)
             (* is given up on the way; 0: any                             *)
  outside

vars == <<app, on, script, capture, items, fetched, tx, chunk, lastSent,
          expected, outside>>

Moment == 1..(MaxItems * FetchBytes)

TypeOK ==
  /\ app \in AppState
  /\ on \subseteq {"running", "streaming", "connected"}
  /\ script \in Seq(Op)
  /\ capture \in Ring(Moment, CaptureSize)
  /\ InBounds(capture, CaptureSize)
  /\ items \in 0..MaxItems
  /\ fetched \in Seq(Moment)
  /\ tx \in {"loop", "receive", "copy", "send", "ended"}
  /\ tx = "copy" <=> capture.held # 0
  /\ chunk \in Seq(Moment)
  /\ lastSent \in Moment \cup {0}
  /\ expected \in Nat
  /\ outside \in 0..MaxOutside

Init ==
  /\ app = "CONNECTED_IDLE"
  /\ on = {"running", "connected"}
  /\ script = <<>>
  /\ capture = EmptyRing
  /\ items = 0
  /\ fetched = <<>>
  /\ tx = "loop"
  /\ chunk = <<>>
  /\ lastSent = 0
  /\ expected = 0
  /\ outside = MaxOutside

-----------------------------------------------------------------------------
(* The dialog, one handler at a time (DialogFsm has them interleave) *)

(* The operations that touch the state of this module. *)
OnUplink(op) ==
  \/ op.op = "enter"
  \/ op.op \in {"raise", "drop"} /\ op.flag \in {"running", "streaming"}
  \/ op.op = "clear" /\ "capture" \in op.bufs

Handlers ==
  CASE app = "CONNECTED_IDLE" -> {StartListening}
    [] app = "LISTENING" -> {OnUserQueryEnd, OnClearCache, ButtonEnds, OnFatalError}
    [] app = "SPEAKING"  -> {OnTurnEnded, OnClearCache, BargeIn, OnSessionFinished}
    [] app = "HANDSHAKING" -> {StartListening}

HandlerStarts ==
  /\ script = <<>>
  /\ outside > 0
  /\ outside' = outside - 1
  /\ script' \in Handlers
  /\ UNCHANGED <<app, on, capture, items, fetched, tx, chunk, lastSent, expected>>

LinkChanges ==
  /\ outside > 0
  /\ outside' = outside - 1
  /\ on' = IF "connected" \in on THEN on \ {"connected"} ELSE on \cup {"connected"}
  /\ UNCHANGED <<app, script, capture, items, fetched, tx, chunk, lastSent, expected>>

Do(op) ==
  /\ script # <<>>
  /\ Head(script).op = op
  /\ OnUplink(Head(script))
  /\ UNCHANGED <<items, fetched, tx, chunk, lastSent, outside>>

HandlerEnters ==
  /\ Do("enter")
  /\ script' = Tail(script)
  /\ app' = Head(script).state
  /\ expected' = 0
  /\ UNCHANGED <<on, capture>>

HandlerSwitches ==
  /\ \/ Do("raise") /\ on' = on \cup {Head(script).flag}
     \/ Do("drop") /\ on' = on \ {Head(script).flag}
  /\ script' = Tail(script)
  /\ UNCHANGED <<app, capture, expected>>

(* drain_ringbuf: one turn of its loop, which ends when nothing is handed  *)
(* out, because the buffer is empty or because ws_tx_task holds an item.   *)
HandlerDrains ==
  /\ Do("clear")
  /\ IF Contiguous(capture, CaptureSize) > 0
     THEN /\ capture' = Returned(Received(capture, CaptureSize), CaptureSize)
          /\ UNCHANGED script
     ELSE script' = Tail(script) /\ UNCHANGED capture
  /\ expected' = 0
  /\ UNCHANGED <<app, on>>

(* The operations on the rest of the device: the wake word, the session,   *)
(* the playback buffers, what is sent, and delays.                         *)
HandlerElsewhere ==
  /\ script # <<>>
  /\ ~OnUplink(Head(script))
  /\ script' = Tail(script)
  /\ UNCHANGED <<app, on, capture, items, fetched, tx, chunk, lastSent, expected,
                 outside>>

Dialog == HandlerEnters \/ HandlerSwitches \/ HandlerDrains \/ HandlerElsewhere

-----------------------------------------------------------------------------
(* afe_fetch_task *)

(* A result arrives; s_streaming is read once.  The wake word a result may *)
(* carry is in DialogFsm.                                                  *)
Fetch ==
  /\ fetched = <<>>
  /\ items < MaxItems
  /\ items' = items + 1
  /\ fetched' = IF "streaming" \in on
                THEN [i \in 1..FetchBytes |-> items * FetchBytes + i] ELSE <<>>
  /\ expected' = IF "streaming" \in on THEN expected ELSE 0
  /\ UNCHANGED <<app, on, script, capture, tx, chunk, lastSent, outside>>

(* xRingbufferSend waits 10 ms for space; a result that finds none is lost. *)
StoreFetched ==
  /\ fetched # <<>>
  /\ fetched' = <<>>
  /\ IF Fits(capture, fetched, CaptureSize)
     THEN capture' = Sent(capture, fetched) /\ UNCHANGED expected
     ELSE expected' = 0 /\ UNCHANGED capture
  /\ UNCHANGED <<app, on, script, items, tx, chunk, lastSent, outside>>

-----------------------------------------------------------------------------
(* ws_tx_task *)

TxOnly == UNCHANGED <<app, on, script, items, fetched, outside>>

TxLoop ==
  /\ tx = "loop"
  /\ IF "running" \notin on THEN tx' = "ended" /\ UNCHANGED chunk
     ELSE IF app # "LISTENING" THEN chunk' = <<>> /\ UNCHANGED tx
     ELSE IF "connected" \notin on THEN UNCHANGED <<chunk, tx>>
     ELSE tx' = "receive" /\ UNCHANGED chunk
  /\ UNCHANGED <<capture, lastSent, expected>>
  /\ TxOnly

(* An item, or none within 60 ms. *)
TxReceive ==
  /\ tx = "receive"
  /\ capture' = Received(capture, CaptureSize)
  /\ tx' = IF Contiguous(capture, CaptureSize) > 0 THEN "copy" ELSE "loop"
  /\ UNCHANGED <<chunk, lastSent, expected>>
  /\ TxOnly

(* Mutant: the whole item is copied. *)
WholeItem == capture.held

ToCopy ==
  IF Len(chunk) + capture.held > ChunkBytes THEN ChunkBytes - Len(chunk)
  ELSE capture.held

(* Mutant: the item is not returned when it fills the chunk. *)
TxCopyKeepsItem ==
  /\ tx = "copy"
  /\ chunk' = chunk \o SubSeq(capture.bytes, 1, ToCopy)
  /\ IF Len(chunk') >= ChunkBytes THEN tx' = "send" /\ UNCHANGED capture
     ELSE tx' = "loop" /\ capture' = Returned(capture, CaptureSize)
  /\ UNCHANGED <<lastSent, expected>>
  /\ TxOnly

TxCopy ==
  /\ tx = "copy"
  /\ chunk' = chunk \o SubSeq(capture.bytes, 1, ToCopy)
  /\ capture' = Returned(capture, CaptureSize)
  /\ tx' = IF Len(chunk') >= ChunkBytes THEN "send" ELSE "loop"
  /\ UNCHANGED <<lastSent, expected>>
  /\ TxOnly

(* Mutant: "accumulated" is not reset after a chunk was sent. *)
TxSendKeepsChunk ==
  /\ tx = "send"
  /\ tx' = "loop"
  /\ UNCHANGED chunk
  /\ lastSent' = IF app = "LISTENING" THEN chunk[Len(chunk)] ELSE lastSent
  /\ expected' = 0
  /\ UNCHANGED capture
  /\ TxOnly

(* The state is looked at again; the result of the send is not. *)
TxSend ==
  /\ tx = "send"
  /\ tx' = "loop"
  /\ chunk' = <<>>
  /\ \/ /\ app = "LISTENING" /\ "connected" \in on
        /\ lastSent' = chunk[Len(chunk)]
        /\ expected' = lastSent' + 1
     \/ /\ app # "LISTENING" \/ "connected" \notin on
        /\ expected' = 0
        /\ UNCHANGED lastSent
  /\ UNCHANGED capture
  /\ TxOnly

Tx == TxLoop \/ TxReceive \/ TxCopy \/ TxSend

Next ==
  \/ HandlerStarts \/ LinkChanges \/ Dialog
  \/ Fetch \/ StoreFetched
  \/ Tx

(* The tasks run on; nothing makes a handler start or the link change. *)
Fairness ==
  /\ WF_vars(Dialog)
  /\ WF_vars(StoreFetched)
  /\ WF_vars(Tx)

Spec == Init /\ [][Next]_vars /\ Fairness

-----------------------------------------------------------------------------
(* Properties *)

(* memcpy into pcm_chunk stays within its chunk_bytes, whatever the sizes  *)
(* of the items and of what the chunk already holds, and a chunk that is   *)
(* sent is full.                                                           *)
ChunkNeverOverflows ==
  /\ Len(chunk) <= ChunkBytes
  /\ tx = "send" => Len(chunk) = ChunkBytes

Increasing(s) == \A i, j \in 1..Len(s) : i < j => s[i] < s[j]

(* What is on its way to the server is in the order it was spoken, and     *)
(* nothing is sent twice: the chunk comes after all that was sent, and the *)
(* bytes of capture_rb that are not in the chunk after the chunk.          *)
SpokenOrder ==
  /\ Increasing(chunk)
  /\ chunk # <<>> => lastSent < chunk[1]
  /\ Increasing(capture.bytes)
  /\ \A i \in 1..Len(capture.bytes) :
       /\ lastSent < capture.bytes[i]
       /\ \A j \in 1..Len(chunk) : chunk[j] < capture.bytes[i]

(* "Reads PCM from capture ring buffer -> send raw PCM via WebSocket"      *)
(* (app_main.c:569): while nothing drains or overflows the buffer and the  *)
(* dialog stays in LISTENING, the chunks follow each other without a gap.  *)
NoSpeechIsSkipped ==
  [][tx = "send" /\ lastSent' # lastSent /\ expected # 0 => chunk[1] = expected]_vars

(* Captured audio does not stay in the buffer while the dialog listens     *)
(* over a connection that is up.                                           *)
SpeechIsTaken ==
  (app = "LISTENING" /\ capture.bytes # <<>>)
    ~> (capture.bytes = <<>> \/ app # "LISTENING" \/ on \cap {"running", "connected"}
                                                       # {"running", "connected"})

=============================================================================
