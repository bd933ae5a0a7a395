----------------------------- MODULE AudioDownlink -----------------------------
(***************************************************************************)
(* From the server's speech to the speaker.  The task of the WebSocket     *)
(* client takes Ogg pages apart and decodes their packets                  *)
(* (opus_processor.c); on_decoded_pcm puts the PCM into playback_rb;       *)
(* audio_play_task takes it out, copies it to ref_rb for the front end and *)
(* writes it to the speaker; afe_feed_task reads the reference.  The       *)
(* handlers of the dialog empty all of it: those of the server's events in *)
(* the task that also decodes, the wake word's barge-in in another task.   *)
(*                                                                         *)
(* Nothing guards the demultiplexer.  Each call of libogg, each test and   *)
(* each assignment of a flag is a step of its own, in the decoding as in   *)
(* the reset, and the two tasks take them in any order.  What the decoding *)
(* task points to may be freed under it, and two calls on one object may   *)
(* overlap.  Both are undefined: either nothing comes of it, as where the  *)
(* freed memory still holds what it held, or the run is ruined.  The model *)
(* follows a ruined run no further and claims nothing of it.               *)
(*                                                                         *)
(* A reply is one Ogg stream, its number the serial number; page 0 carries *)
(* OpusHead, page 1 OpusTags, every further page one audio packet, whose   *)
(* PCM is one unit of the ring buffers.  A page comes in one message, or   *)
(* its front and its back in two.                                          *)
(***************************************************************************)
EXTENDS ByteRing

CONSTANTS
  MaxReplies,    (* bound: replies                                         *)
  LastPage,      (* bound: the number of a reply's last page               *)
  PlaybackSize,  (* PLAYBACK_RB_SIZE                                       *)
  RefSize,       (* REF_RB_SIZE                                            *)
  RefBytes,      (* ref_buf_bytes of afe_feed_task                         *)
  MaxInFlight,   (* bound: messages on their way                           *)
  MaxOutside     (* bound: wake words, lost connections, fatal errors,     *)
                 (* replies the server breaks off                          *)

ASSUME DownlinkSizes ==
  PlaybackSize \in Nat \ {0} /\ RefSize \in Nat \ {0} /\ RefBytes \in Nat \ {0}
ASSUME DownlinkBounds ==
  MaxReplies \in Nat /\ LastPage \in Nat /\ MaxInFlight \in Nat /\ MaxOutside \in Nat

VARIABLES
  app,       (* g_app_state                                                *)
  running,   (* g_running                                                  *)
  server,    (* the reply being sent, its next page, whether the front of  *)
             (* that page has been sent; reply 0 and page 0: none yet      *)
  net,
  ws,        (* where the WebSocket task is                                *)
  todo,      (* what a handler has still to do, per task                   *)
  sync,      (* ogg_sync: what has arrived of the byte stream              *)
  stream,    (* ogg_stream: serial 0 when it is cleared, the page it       *)
             (* expects next, the packets of the pages it took             *)
  inited,    (* ogg_stream_inited                                          *)
  parsed,    (* ogg_headers_parsed                                         *)
  count,     (* ogg_header_count                                           *)
  item,      (* what the decoding task has at hand: a page, then a packet, *)
             (* then its PCM                                               *)
  seen,      (* the count it has read and not yet written back             *)
  freed,     (* what it points to has been freed                           *)
  playback,
  ref,
  collected, (* ref_collected                                              *)
  due,       (* history: the page of the stream whose packet comes next    *)
  intact,    (* history: no reset since the first page of the reply was    *)
             (* taken                                                      *)
  outside

vars == <<app, running, server, net, ws, todo, sync, stream, inited, parsed, count,
          item, seen, freed, playback, ref, collected, due, intact, outside>>

Page == [reply : 1..MaxReplies, no : 0..LastPage]

Fragment == [page : Page, part : {"all", "front", "back"}]

Message == [kind : {"audio"}, data : Fragment]
             \cup [kind : {"query_end", "tts_ended", "clear_cache", "fatal"}]

(* What a handler does here, one step after the other: empty the buffers,  *)
(* reset the demultiplexer, change the state.                              *)
Reset == <<"test", "stream", "inited", "sync", "sync again", "parsed", "count">>

Clearing(last) == <<"playback", "ref">> \o Reset \o <<last>>

Step == {"playback", "ref", "test", "stream", "inited", "sync", "sync again", "parsed",
         "count", "listening", "ready", "handshaking"}

(* Where the decoding task has a page at hand, and where a packet. *)
HasPage == {"page", "begin", "bos", "serial", "pagein"}

HasPacket == {"packet", "header", "decode", "pcm"}

(* What packetout finds where a page is missing. *)
Hole == [reply |-> 0, no |-> 0]

TypeOK ==
  /\ app \in {"CONNECTED_IDLE", "HANDSHAKING", "LISTENING", "SPEAKING"}
  /\ running \in BOOLEAN
  /\ server \in [reply : 0..MaxReplies, page : 0..(LastPage + 2), front : BOOLEAN]
  /\ net \in Seq(Message)
  /\ ws \in {"idle", "copy", "pages", "packets", "parse", "ruined"} \cup HasPage \cup HasPacket
  /\ todo \in [{"ws", "afe"} -> Seq(Step)]
  /\ sync \in Seq(Fragment)
  /\ stream \in [serial : 0..MaxReplies, next : 0..(LastPage + 1),
                 packets : Seq(Page \cup {Hole})]
  /\ inited \in BOOLEAN /\ parsed \in BOOLEAN
  /\ count \in 0..2 /\ seen \in 0..2
  /\ item \in Page \cup {Hole}
  /\ freed \in BOOLEAN
  /\ playback \in Ring(Page, PlaybackSize) /\ InBounds(playback, PlaybackSize)
  /\ ref \in Ring(Page, RefSize) /\ InBounds(ref, RefSize)
  /\ collected \in 0..RefBytes
  /\ due \in 0..(LastPage + 1)
  /\ intact \in BOOLEAN
  /\ outside \in 0..MaxOutside

NoStream == [serial |-> 0, next |-> 0, packets |-> <<>>]

Init ==
  /\ app = "LISTENING"
  /\ running = TRUE
  /\ server = [reply |-> 0, page |-> LastPage + 2, front |-> FALSE]
  /\ net = <<>>
  /\ ws = "idle"
  /\ todo = [t \in {"ws", "afe"} |-> <<>>]
  /\ sync = <<>>
  /\ stream = NoStream
  /\ inited = FALSE /\ parsed = FALSE /\ count = 0
  /\ item = Hole /\ seen = 0 /\ freed = FALSE
  /\ playback = EmptyRing
  /\ ref = EmptyRing
  /\ collected = 0
  /\ due = 0
  /\ intact = FALSE
  /\ outside = MaxOutside

-----------------------------------------------------------------------------
(* The server *)

device == <<app, running, ws, todo, sync, stream, inited, parsed, count, item, seen,
            freed, playback, ref, collected, due, intact>>

Spend == outside > 0 /\ outside' = outside - 1

Says(message) ==
  /\ Len(net) < MaxInFlight
  /\ net' = Append(net, message)
  /\ UNCHANGED device

ServerReplies ==
  /\ server.page = LastPage + 2
  /\ server.reply < MaxReplies
  /\ server' = [reply |-> server.reply + 1, page |-> 0, front |-> FALSE]
  /\ Says([kind |-> "query_end"])
  /\ UNCHANGED outside

ServerSendsPage ==
  /\ server.page <= LastPage
  /\ \E part \in IF server.front THEN {"back"} ELSE {"all", "front"} :
       /\ Says([kind |-> "audio",
                data |-> [page |-> [reply |-> server.reply, no |-> server.page],
                          part |-> part]])
       /\ server' = IF part = "front" THEN [server EXCEPT !.front = TRUE]
                    ELSE [server EXCEPT !.page = @ + 1, !.front = FALSE]
  /\ UNCHANGED outside

ServerEnds ==
  /\ server.page = LastPage + 1
  /\ server' = [server EXCEPT !.page = @ + 1]
  /\ Says([kind |-> "tts_ended"])
  /\ UNCHANGED outside

(* The user speaks, or something fails. *)
ServerBreaksOff ==
  /\ server.page <= LastPage
  /\ server' = [server EXCEPT !.page = LastPage + 2, !.front = FALSE]
  /\ \E kind \in {"clear_cache", "fatal"} : Says([kind |-> kind])
  /\ Spend

(* A lost connection; the next reply comes over another one. *)
NetDrops ==
  /\ net' = <<>>
  /\ server' = [server EXCEPT !.page = LastPage + 2, !.front = FALSE]
  /\ Spend
  /\ UNCHANGED device

-----------------------------------------------------------------------------
(* The task of the WebSocket client: opus_proc_decode_ogg *)

Idle(t) == todo[t] = <<>>

(* on_ws_receive.  What is to be copied is in ogg_sync as soon as          *)
(* ogg_sync_buffer has made room for it: nothing else looks at it before   *)
(* ogg_sync_wrote, and a reset in between loses it.                        *)
WsTakes ==
  /\ ws = "idle" /\ Idle("ws")
  /\ net # <<>>
  /\ net' = Tail(net)
  /\ LET message == Head(net)
     IN CASE message.kind = "audio" ->
               /\ sync' = Append(sync, message.data)
               /\ ws' = "copy"
               /\ UNCHANGED <<app, running, todo>>
          [] message.kind = "query_end" ->
               /\ app' = "SPEAKING"
               /\ UNCHANGED <<running, ws, todo, sync>>
          [] message.kind = "tts_ended" ->
               /\ \E last \in {"listening", "ready"} :
                    todo' = [todo EXCEPT !["ws"] = Clearing(last)]
               /\ UNCHANGED <<app, running, ws, sync>>
          [] message.kind = "clear_cache" ->
               /\ todo' = [todo EXCEPT !["ws"] = Clearing("listening")]
               /\ UNCHANGED <<app, running, ws, sync>>
          [] message.kind = "fatal" ->
               /\ running' = FALSE
               /\ UNCHANGED <<app, ws, todo, sync>>
  /\ UNCHANGED <<server, stream, inited, parsed, count, item, seen, freed,
                 playback, ref, collected, due, intact, outside>>

DecoderOnly == UNCHANGED <<app, running, server, net, todo, ref, collected, outside>>

Flags == <<inited, parsed, count>>

History == <<due, intact>>

(* A step that uses what the task points to. *)
Uses(next) == ws' \in {next} \cup (IF freed THEN {"ruined"} ELSE {})

(* memcpy into the buffer of ogg_sync. *)
CopyData ==
  /\ ws = "copy"
  /\ Uses("pages")
  /\ freed' = FALSE
  /\ UNCHANGED <<sync, stream, Flags, item, seen, playback, History>>
  /\ DecoderOnly

(* ogg_sync_pageout: a page, nothing yet, or bytes that begin no page. *)
WholePage ==
  /\ sync # <<>>
  /\ \/ sync[1].part = "all"
     \/ /\ sync[1].part = "front" /\ Len(sync) > 1
        /\ sync[2] = [sync[1] EXCEPT !.part = "back"]

NoPageYet == sync = <<>> \/ (sync[1].part = "front" /\ Len(sync) = 1)

PageOut ==
  /\ ws = "pages"
  /\ WholePage
  /\ item' = sync[1].page
  /\ sync' = IF sync[1].part = "all" THEN Tail(sync) ELSE Tail(Tail(sync))
  /\ IF item'.no = 0 THEN due' = 0 /\ intact' = TRUE ELSE UNCHANGED History
  /\ ws' = "page"
  /\ UNCHANGED <<stream, Flags, seen, freed, playback>>
  /\ DecoderOnly

(* Mutant: what begins no page yet is thrown away with the message.        *)
NoMorePagesForgets ==
  /\ ws = "pages"
  /\ ~WholePage
  /\ sync' = <<>>
  /\ ws' = "idle"
  /\ item' = Hole
  /\ UNCHANGED <<stream, Flags, seen, freed, playback, History>>
  /\ DecoderOnly

(* Either way the loop over the pages ends, and what follows in ogg_sync   *)
(* waits for the next message.                                             *)
NoMorePages ==
  /\ ws = "pages"
  /\ ~WholePage
  /\ sync' = IF NoPageYet THEN sync ELSE Tail(sync)
  /\ ws' = "idle"
  /\ item' = Hole
  /\ UNCHANGED <<stream, Flags, seen, freed, playback, History>>
  /\ DecoderOnly

NewStream(serial) == [serial |-> serial, next |-> 0, packets |-> <<>>]

(* ogg_stream_pagein: the page of another stream is refused, and any page  *)
(* by a stream that is cleared; a page out of order leaves a hole.         *)
PageIn(st, page) ==
  IF page.reply # st.serial THEN st
  ELSE [st EXCEPT !.packets = @ \o (IF page.no = st.next THEN <<page>>
                                    ELSE <<Hole, page>>),
                  !.next = page.no + 1]

(* The test of ogg_stream_inited, and ogg_stream_init where it is false.   *)
FirstPage ==
  /\ ws = "page"
  /\ IF inited THEN ws' = "bos" /\ UNCHANGED stream
     ELSE Uses("begin") /\ stream' = NewStream(item.reply)
  /\ UNCHANGED <<sync, Flags, item, seen, freed, playback, History>>
  /\ DecoderOnly

(* The three flags; a reset that comes between them sets them no other way *)
(* than before or after them.                                              *)
StreamInited ==
  /\ ws = "begin"
  /\ inited' = TRUE /\ parsed' = FALSE /\ count' = 0
  /\ ws' = "bos"
  /\ UNCHANGED <<sync, stream, item, seen, freed, playback, History>>
  /\ DecoderOnly

TestBos ==
  /\ ws = "bos"
  /\ Uses(IF item.no = 0 /\ inited THEN "serial" ELSE "pagein")
  /\ UNCHANGED <<sync, stream, Flags, item, seen, freed, playback, History>>
  /\ DecoderOnly

(* The first page of another reply begins another stream. *)
NewSerial ==
  /\ ws = "serial"
  /\ Uses("pagein")
  /\ IF item.reply = stream.serial THEN UNCHANGED <<stream, parsed, count>>
     ELSE stream' = NewStream(item.reply) /\ parsed' = FALSE /\ count' = 0
  /\ UNCHANGED <<sync, inited, item, seen, freed, playback, History>>
  /\ DecoderOnly

TakePage ==
  /\ ws = "pagein"
  /\ Uses("packets")
  /\ stream' = PageIn(stream, item)
  /\ item' = Hole /\ freed' = FALSE
  /\ UNCHANGED <<sync, Flags, seen, playback, History>>
  /\ DecoderOnly

Packet == stream.packets # <<>> /\ Head(stream.packets) # Hole

NextPacket == [stream EXCEPT !.packets = Tail(@)]

(* A hole ends the loop over the packets as the end does.                  *)
NoMorePackets ==
  /\ ws = "packets"
  /\ ~Packet
  /\ stream' = IF stream.packets = <<>> THEN stream ELSE NextPacket
  /\ ws' = "pages"
  /\ UNCHANGED <<sync, Flags, item, seen, freed, playback, History>>
  /\ DecoderOnly

(* ogg_stream_packetout: the packet lies in the memory of the stream.      *)
PacketOut ==
  /\ ws = "packets"
  /\ Packet
  /\ item' = Head(stream.packets)
  /\ due' = IF intact THEN item'.no + 1 ELSE 0
  /\ stream' = NextPacket
  /\ ws' = "packet"
  /\ UNCHANGED <<sync, Flags, seen, freed, playback, intact>>
  /\ DecoderOnly

(* The test of ogg_headers_parsed, and the read of ogg_header_count++.     *)
TestParsed ==
  /\ ws = "packet"
  /\ IF parsed THEN ws' = "decode" /\ UNCHANGED <<seen, freed>>
     ELSE ws' = "header" /\ seen' = count /\ freed' = FALSE
  /\ UNCHANGED <<sync, stream, Flags, item, playback, History>>
  /\ DecoderOnly

(* Mutant: one header packet. *)
OneHeaderIsEnough ==
  /\ ws = "header"
  /\ count' = IF seen = 0 THEN 1 ELSE 2
  /\ ws' = "parse"
  /\ seen' = 0 /\ item' = Hole
  /\ UNCHANGED <<sync, stream, inited, parsed, freed, playback, History>>
  /\ DecoderOnly

(* Its write, and the test of what was written, which the build keeps in a *)
(* register; a count above 2 is 2 here.                                    *)
SkipHeader ==
  /\ ws = "header"
  /\ count' = IF seen = 0 THEN 1 ELSE 2
  /\ ws' = IF seen = 0 THEN "packets" ELSE "parse"
  /\ seen' = 0 /\ item' = Hole
  /\ UNCHANGED <<sync, stream, inited, parsed, freed, playback, History>>
  /\ DecoderOnly

HeadersParsed ==
  /\ ws = "parse"
  /\ parsed' = TRUE
  /\ ws' = "packets"
  /\ UNCHANGED <<sync, stream, inited, count, item, seen, freed, playback, History>>
  /\ DecoderOnly

(* opus_decode. *)
Decode ==
  /\ ws = "decode"
  /\ Uses("pcm")
  /\ freed' = FALSE
  /\ UNCHANGED <<sync, stream, Flags, item, seen, playback, History>>
  /\ DecoderOnly

(* Mutant: the callback waits for space without a limit. *)
StorePcmForever ==
  /\ ws = "pcm"
  /\ Fits(playback, <<item>>, PlaybackSize)
  /\ playback' = Sent(playback, <<item>>)
  /\ ws' = "packets"
  /\ item' = Hole
  /\ UNCHANGED <<sync, stream, Flags, seen, freed, History>>
  /\ DecoderOnly

(* Mutant: the buffer is asked for space and not for as much as it takes. *)
StorePcmUnchecked ==
  /\ ws = "pcm"
  /\ playback' = Sent(playback, <<item>>)
  /\ ws' = "packets"
  /\ item' = Hole
  /\ UNCHANGED <<sync, stream, Flags, seen, freed, History>>
  /\ DecoderOnly

(* Mutant: the result is read the wrong way round, and what was stored is  *)
(* sent again.                                                             *)
StorePcmAgain ==
  /\ ws = "pcm"
  /\ playback' = IF Fits(playback, <<item>>, PlaybackSize)
                 THEN Sent(playback, <<item>>) ELSE playback
  /\ ws' = IF playback' = playback THEN "packets" ELSE "pcm"
  /\ item' = IF playback' = playback THEN Hole ELSE item
  /\ UNCHANGED <<sync, stream, Flags, seen, freed, History>>
  /\ DecoderOnly

(* on_decoded_pcm waits 500 ms for space, then drops. *)
StorePcm ==
  /\ ws = "pcm"
  /\ playback' = IF Fits(playback, <<item>>, PlaybackSize)
                 THEN Sent(playback, <<item>>) ELSE playback
  /\ ws' = "packets"
  /\ item' = Hole
  /\ UNCHANGED <<sync, stream, Flags, seen, freed, History>>
  /\ DecoderOnly

DecodeOgg ==
  \/ CopyData \/ PageOut \/ NoMorePages
  \/ FirstPage \/ StreamInited \/ TestBos \/ NewSerial \/ TakePage
  \/ NoMorePackets \/ PacketOut
  \/ TestParsed \/ SkipHeader \/ HeadersParsed \/ Decode \/ StorePcm

-----------------------------------------------------------------------------
(* The handlers, in the WebSocket task and in the AFE fetch task *)

WakeWord ==
  /\ app = "SPEAKING" /\ Idle("afe")
  /\ Spend
  /\ todo' = [todo EXCEPT !["afe"] = Clearing("handshaking")]
  /\ UNCHANGED <<app, running, server, net, ws, sync, stream, Flags, item, seen, freed,
                 playback, ref, collected, due, intact>>

Done(t) == todo' = [todo EXCEPT ![t] = Tail(@)]

Does(t, step) ==
  /\ todo[t] # <<>>
  /\ Head(todo[t]) = step
  /\ ws # "ruined"
  /\ UNCHANGED <<running, server, net, item, seen, collected, outside>>

Demuxer == <<sync, stream, Flags, freed, due, intact>>

(* One turn of the loop of drain_ringbuf. *)
DrainPlayback(t) ==
  /\ Does(t, "playback")
  /\ IF Contiguous(playback, PlaybackSize) = 0 THEN Done(t) /\ UNCHANGED playback
     ELSE /\ playback' = Returned(Received(playback, PlaybackSize), PlaybackSize)
          /\ UNCHANGED todo
  /\ UNCHANGED <<app, ws, ref, Demuxer>>

DrainRef(t) ==
  /\ Does(t, "ref")
  /\ IF Contiguous(ref, RefSize) = 0 THEN Done(t) /\ UNCHANGED ref
     ELSE /\ ref' = Returned(Received(ref, RefSize), RefSize)
          /\ UNCHANGED todo
  /\ UNCHANGED <<app, ws, playback, Demuxer>>

(* A call on an object another task may be in a call on: the decoding, or  *)
(* the other handler in its reset.                                         *)
Calls(t, steps, decoding) ==
  LET other == IF t = "ws" THEN "afe" ELSE "ws"
      meets == \/ ws \in decoding
               \/ ~Idle(other) /\ Head(todo[other]) \in steps
  IN ws' \in {ws} \cup (IF meets THEN {"ruined"} ELSE {})

(* The test of ogg_stream_inited. *)
TestStream(t) ==
  /\ Does(t, "test")
  /\ IF inited THEN Done(t) ELSE todo' = [todo EXCEPT ![t] = SubSeq(@, 4, Len(@))]
  /\ due' = 0 /\ intact' = FALSE
  /\ UNCHANGED <<app, ws, sync, stream, Flags, freed, playback, ref>>

(* ogg_stream_clear.  The stream may be another one than that of the test, *)
(* and its first page may be about to be taken.                            *)
ClearStream(t) ==
  /\ Does(t, "stream")
  /\ Calls(t, {"stream"}, {"serial", "pagein", "packets"}
                           \cup (IF inited THEN {} ELSE {"page"}))
  /\ stream' = NoStream
  /\ freed' = (freed \/ ws \in {"packet", "decode"})
  /\ Done(t)
  /\ due' = 0 /\ intact' = FALSE
  /\ UNCHANGED <<app, sync, Flags, playback, ref>>

StreamCleared(t) ==
  /\ Does(t, "inited")
  /\ Done(t)
  /\ inited' = FALSE
  /\ due' = 0 /\ intact' = FALSE
  /\ UNCHANGED <<app, ws, sync, stream, parsed, count, freed, playback, ref>>

(* ogg_sync_clear frees what has arrived, ogg_sync_init forgets it. *)
ClearSync(t) ==
  /\ \/ /\ Does(t, "sync")
        /\ freed' = (freed \/ ws = "copy" \/ ws \in HasPage)
     \/ Does(t, "sync again") /\ UNCHANGED freed
  /\ Calls(t, {"sync", "sync again"}, {"copy", "pages"})
  /\ Done(t)
  /\ sync' = <<>>
  /\ due' = 0 /\ intact' = FALSE
  /\ UNCHANGED <<app, stream, Flags, playback, ref>>

(* The flags, and with the second of them the state of the Opus decoder.   *)
ResetHeaders(t) ==
  /\ \/ Does(t, "parsed") /\ parsed' = FALSE /\ UNCHANGED <<ws, count>>
     \/ /\ Does(t, "count") /\ count' = 0 /\ UNCHANGED parsed
        /\ Calls(t, {"count"}, {"decode"})
  /\ Done(t)
  /\ due' = 0 /\ intact' = FALSE
  /\ UNCHANGED <<app, sync, stream, inited, freed, playback, ref>>

ResetOgg(t) ==
  TestStream(t) \/ ClearStream(t) \/ StreamCleared(t) \/ ClearSync(t) \/ ResetHeaders(t)

(* The state after the handler.  A barge-in is taken up by main_fsm_task,  *)
(* which finishes the session and goes to HANDSHAKING; the answer to a     *)
(* farewell ends the session.                                              *)
EnterState(t) ==
  /\ \/ Does(t, "listening") /\ app' = "LISTENING"
     \/ Does(t, "ready") /\ app' = "CONNECTED_IDLE"
     \/ Does(t, "handshaking") /\ app' = "HANDSHAKING"
  /\ Done(t)
  /\ UNCHANGED <<ws, playback, ref, Demuxer>>

Handle(t) == DrainPlayback(t) \/ DrainRef(t) \/ ResetOgg(t) \/ EnterState(t)

-----------------------------------------------------------------------------
(* audio_play_task and afe_feed_task *)

AudioOnly == UNCHANGED <<app, running, server, net, ws, todo, item, seen, Demuxer, outside>>

(* The item is copied to ref_rb if there is room for all of it.            *)
PlayReceives ==
  /\ running
  /\ Contiguous(playback, PlaybackSize) > 0
  /\ playback' = Received(playback, PlaybackSize)
  /\ LET lent == Item(playback, PlaybackSize)
     IN ref' = IF Fits(ref, lent, RefSize) THEN Sent(ref, lent) ELSE ref
  /\ UNCHANGED collected
  /\ AudioOnly

(* Mutant: the item is never given back. *)
PlayKeepsItem == FALSE /\ UNCHANGED vars

(* audio_hal_write has played the item, or failed: it is returned.         *)
PlayReturns ==
  /\ playback.held > 0
  /\ playback' = Returned(playback, PlaybackSize)
  /\ UNCHANGED <<ref, collected>>
  /\ AudioOnly

(* One turn of the loop that collects the reference; the rest of an item   *)
(* that does not fit is dropped.                                           *)
CollectRef ==
  /\ collected < RefBytes
  /\ Contiguous(ref, RefSize) > 0
  /\ ref' = Returned(Received(ref, RefSize), RefSize)
  /\ LET room == RefBytes - collected
         got == Contiguous(ref, RefSize)
     IN collected' = collected + (IF got < room THEN got ELSE room)
  /\ UNCHANGED playback
  /\ AudioOnly

(* afe->feed, with zeros for what is missing. *)
Feed ==
  /\ collected > 0
  /\ collected = RefBytes \/ Contiguous(ref, RefSize) = 0
  /\ collected' = 0
  /\ UNCHANGED <<playback, ref>>
  /\ AudioOnly

Play == PlayReceives \/ PlayReturns

Next ==
  \/ ServerReplies \/ ServerSendsPage \/ ServerEnds \/ ServerBreaksOff \/ NetDrops
  \/ WsTakes \/ DecodeOgg \/ Handle("ws")
  \/ WakeWord \/ Handle("afe")
  \/ Play
  \/ CollectRef \/ Feed

(* The tasks run on; nothing is asked of the server, the network, the user *)
(* or the front end.  Strong where another task may empty the buffer again *)
(* and again.                                                              *)
Fairness ==
  /\ WF_vars(WsTakes \/ DecodeOgg \/ Handle("ws"))
  /\ WF_vars(Handle("afe"))
  /\ SF_vars(PlayReceives)
  /\ WF_vars(PlayReturns)

Spec == Init /\ [][Next]_vars /\ Fairness

-----------------------------------------------------------------------------
(* Properties *)

(* Neither OpusHead nor OpusTags is given to the Opus decoder, however a   *)
(* reset cuts into the demultiplexing and the count of the headers, and    *)
(* whatever a reply that was broken off or a lost connection left behind.  *)
HeadersAreNotDecoded == ws \in {"decode", "pcm"} => item.no >= 2

(* Of a reply whose first page was taken after the last reset, every       *)
(* packet is taken once and in order, and only the headers are skipped.    *)
RepliesAreDecodedWhole ==
  intact =>
    /\ ws = "packets" /\ Packet
         => Head(stream.packets) = [reply |-> stream.serial, no |-> due]
    /\ ws = "header" => item.no < 2

(* What the speaker is given is in the order it was spoken, and after a    *)
(* reply none of the replies before it, as long as the run is not ruined.  *)
Before(p, q) == p.reply < q.reply \/ (p.reply = q.reply /\ p.no < q.no)

PlaybackInOrder ==
  ws # "ruined" =>
    /\ \A i, j \in 1..Len(playback.bytes) :
         i < j => Before(playback.bytes[i], playback.bytes[j])
    /\ ws = "pcm" => \A i \in 1..Len(playback.bytes) : Before(playback.bytes[i], item)

(* The task that reads the server's messages goes on, however full the     *)
(* playback buffer is, even when a fatal error has ended the play task.    *)
MessagesAreHandled == (net # <<>>) ~> (net = <<>> \/ ws = "ruined")

(* The speaker empties the buffer, as long as the device runs.             *)
SpeechIsPlayed ==
  (playback.bytes # <<>>) ~> (playback.bytes = <<>> \/ ~running \/ ws = "ruined")

(* "Clear playback buffer (for barge-in / interrupt)" (audio_hal.h:57):    *)
(* when the call returns the buffer holds nothing but the item that is     *)
(* being played.                                                           *)
ClearedPlaybackIsEmpty ==
  [][\A t \in {"ws", "afe"} :
       Idle(t) \/ Head(todo[t]) # "playback" \/ todo'[t] = todo[t]
         \/ Len(playback'.bytes) = playback'.held]_vars

=============================================================================
