# The Doubao voice speaker in TLA+

TLA+ models, TLC runs and TLAPS proofs for the firmware in `main/` (an
ESP32-S3-BOX-3 that talks to ByteDance's dialog server over a WebSocket) and
for its desktop sibling in `doubao_c_version/`.  `PROJECT.json` lists the
components, runs, mutants, findings, hazards and theorems, and maps every
definition to the lines it models.

## 1. The system

| Component | State it keeps | Operations | Modelled in |
| --- | --- | --- | --- |
| Dialog state machine, `app_main.c` | `g_app_state`, `g_running`, `g_session_active`, `g_say_hello_done`, `g_bargein_requested`, displayed text | `main_fsm_task` (polls every 50 ms), `on_ws_receive` (WebSocket task), `on_wake_word` (AFE task), `app_main` | `AppHandlers`, `DialogFsm` |
| Audio tasks of `app_main.c` | the 640-byte chunk | `ws_tx_task`, `audio_play_task`, `on_decoded_pcm` | `AudioUplink`, `AudioDownlink` |
| WebSocket client, `doubao_ws_client.c` | `connected`, `ws_handle`, event group, `recv_buf`, its length and capacity | init, connect, send, destroy; `ws_event_handler` in the task of `esp_websocket_client`, which also reconnects by itself after 5 s | `WsClient` (what it owns), `WsReassembly` (what it receives), `DialogFsm` (what the dialog sees) |
| Audio front end, `afe_handler.c` | `s_streaming`, the WakeNet switch, the collected reference | feed and fetch tasks, enable/disable, init, start | `AudioUplink`, `AudioDownlink`, `Startup`, `DialogFsm` |
| Audio HAL, `audio_hal.c` | capture, playback and reference ring buffers, codec devices | init, read, write, clear | `ByteRing`, `AudioUplink`, `AudioDownlink`, `Startup` |
| Ogg/Opus, `opus_processor.c` | Ogg sync and stream, header count, decoder | init, decode, reset | `AudioDownlink`, `Startup` |
| Binary protocol, `doubao_protocol.c` | none | build, parse, decompress | `DoubaoProtocol`, `ReceivePath` |
| WiFi station and start-up, `app_main.c` | retry counter, event bits, what has been initialised | event handler, wait, restart, time sync | `Startup`, `Device` |
| C client, `doubao_c_version/` | send queue, session flags, connection, player queue | `main`, service, input and player threads, libwebsockets callbacks, Ctrl+C | `SendQueue`, `CClient` |
| LCD, `ui_lcd.c` | widgets | set label, hint, text | not modelled: output only |
| Python demo, `doubao_py_demo/` | session flags, audio queue | asyncio loops | not modelled |
| `components/tcp_transport` | | | not modelled: vendored |

How they interact.  Three tasks write the globals of the dialog, and the
WakeNet and streaming switches, without any lock: the FSM task (priority 10),
the task of `esp_websocket_client`, which calls `ws_event_handler` and in it
`on_ws_receive`, and the AFE fetch task, which calls `on_wake_word`.  Speech
goes from the fetch task through `capture_rb` to `ws_tx_task` and out, and from
the WebSocket task through the Ogg demultiplexer and `playback_rb` to
`audio_play_task`, which also feeds `ref_rb`; the handlers empty all of these
underneath.  Handlers block as well: while the WebSocket task sits in the 500 ms
of the exit handler, or waits for room in `playback_rb`, it reads nothing.  The
FSM destroys the client, and waits in `esp_websocket_client_stop` for the task
that runs the handlers; it does not wait for `ws_tx_task`.  The C client has
four threads, a mutex for its queue, another with a condition variable for the
greeting, and flags that are shared without either.

What is hard: the order of the writes of two tasks; events of a session that is
over; a connection that is lost and reopened underneath a state that never
looks at it; flags that are set again after the clean-up that cleared them;
messages cut by a lost connection or a failed allocation; a ring buffer that
lends one item at a time; initialisations that fail half-way; a shutdown whose
last messages must still be sent by a thread that has been told to stop.

What makes the parts correct:

- dialog: the displayed state agrees with the microphone, the wake word and the
  session; the protocol starts with StartConnection; nobody waits forever for an
  answer that will not come;
- client: every block is owned by the structure, freed once and not used after;
- receive path: the parser gets whole messages, in order, stays inside its
  block, and understands them as the server meant them;
- uplink and downlink: order, no duplicates, chunk bounds, no header decoded as
  speech, no task stuck on a full buffer;
- start-up: no task without its resources; a network that comes back is used;
- C client: protocol order on the wire, no lost wakeup, a shutdown that ends.

## 2. The modules

**`AppHandlers`** holds the straight-line parts of `app_main.c`: each callback and
each branch of the FSM is a *script*, the sequence of its operations on the
shared globals (`Raise`, `Drop` a flag, `Enter` a state, `Send` a command,
`Clear` buffers, `StopWs`, `Delay`) in the order of the code.

**`DialogFsm`** runs the scripts.  `todo[t]` is what task `t` (`fsm`, `ws`, `afe`)
has still to do, and one step executes one operation, so another task may run
between any two statements.  `pc` says where `main_fsm_task` continues; every
place where it reads the globals and branches is an action (`FsmLoop`,
`FsmSwitch`, `FsmConnecting`, ..., `FsmTalkCheck`).  `WsReceive` takes the next
message of `net` and starts the handler of its event; `WsDisconnected`,
`WsReopens` and `WsReopened` are the library's view of the connection `link`;
`WakeWord` is `on_wake_word`; `PlayOut` the play task.  The server and the
network are external: a server that ignores a StartSession without
StartConnection, closes a session it was asked to finish, and may finish a
session, or report errors, whenever it likes.  **`MCDialog`** adds the history
variable `overlapped`: properties named `Serial...` speak about behaviours in
which no two scripts have interleaved yet.

Time is not counted.  A delay or timeout ends, and the blocking calls of the FSM
return, only when all other tasks wait as well (`TimePasses`): statements take
microseconds and waits 50 ms to 15 s, so the model does not let a task sit between
two statements while another's timeout runs out.  For the same reason a
reconnection (5 s) is due only while the FSM waits for the greeting, is blocked
in a send, or polls in a state that never looks at the connection, and
`app_main`'s own state change (100 ms after it started the FSM) comes before the
FSM's first connection is up.

**`WsReassembly`** is the receive side of `ws_event_handler`: pieces of at most
`ChunkSize` appended to `recv_buf`, `CapacityFor` the growth of the buffer,
`ReallocFails`, `ConnectionLost` (the buffer is *not* emptied) and
`ClientReplaced` (it is).  A byte is a pair of its message and its position.
**`MessageChannel`** is the abstract specification: messages whole, in order and at
most once; a fault may lose messages and damages at most one block.
**`DoubaoProtocol`** is the byte layout: `BuildCommand`, and `ParseResponse` with
its field offsets, sequence and session-id variants, error responses, and the
walk over a gzip header.  The parser gets a memory and a length, so that reading
past the end is expressible.  Inflating is a parameter (`Inflate`).
**`ReceivePath`** composes the two: the units of `recv_buf` become bytes of
messages the server has laid out (`Encode`), and the parser runs on every block
handed over.  **`MCReceivePath`** gives TLC four messages: audio with a session
id, an event with a negative sequence number and no payload, a compressed
event, and an error.

**`ByteRing`** is the byte ring buffer of FreeRTOS as this code uses it: an item is
what lies contiguously, one item is lent at a time, its space comes back when it
is returned.  **`AudioUplink`** is `afe_fetch_task`, `capture_rb`, `ws_tx_task` and
the handlers (from `AppHandlers`) that switch, drain and change the state.
**`AudioDownlink`** is the server's Ogg pages cut into messages, the decode loops
(`PageOut`, `FirstPage`, ..., `SkipHeader`, `Decode`, `StorePcm`), `playback_rb`, the
play task, `ref_rb` with the feed task's collection loop, and the handlers, of which
the barge-in runs in another task in the middle of a decode.  Nothing guards the
demultiplexer, so every call of libogg and libopus, every test and every write of a
flag is a step of its own, in `opus_proc_decode_ogg` as in `opus_proc_reset_ogg`
(`TestStream`, `ClearStream`, `StreamCleared`, `ClearSync`, `ResetHeaders`); `ws` says
between which two the decoding task is, `seen` is the count it has read and not yet
written.  Where a reset frees what the task points to (`freed`) and the task uses it
(`Uses`), or two calls on one object may overlap (`Calls`), C promises nothing: either
nothing comes of it or the run is `"ruined"`, and of a ruined run nothing more is
claimed.

**`WsClient`** is ownership: three blocks (`recv_buf`, `event_group`, `ws_handle`),
what the structure's pointers are worth (`null`, `held`, `freed`), how often each
block is allocated, and the three tasks that use them; `doubao_ws_destroy` takes
four steps.  A use of a freed block is a value of `crash`.  **`Startup`** is the WiFi
station's event handler and `app_main` with every step that may fail and what
it keeps or releases.  **`Device`** composes the two: a power-up with restarts, a
network that comes and goes, and tasks that exist only if they were created.

**`BoundedFifo`** is the abstract queue; **`SendQueue`** the ring of messages in
`client.c`; **`CClient`** the threads of the C client over it, from `main`'s first
call to its exit, with every failing initialisation and its clean-up path, the threads
`pthread_create` may not create (`NotCreated`) and the `recv_buf` that may be missing.
The undefined operations of the program are steps to `main = "crashed"`.

**`...Proofs`** modules hold the proofs about the module they are named after;
`CClientProofs` also those about `SendQueue`, `DeviceProofs` those about
`WsClient`, and `DialogFsmProofs` those about `MCDialog`.

Operators whose comment starts with "Mutant:" are deliberately wrong variants of
the definition that follows them: substituted for it, they break the property
`PROJECT.json` names, which shows that the property depends on that code.

## 3. What the runs check

| Run | Question | Bounds, distinct states |
| --- | --- | --- |
| `dialog` | `FreshSessionIsStarted`, `NoClientIsOverwritten`; `SerialModeMatchesState`, `SerialReadyHasNoSession`; `DeadSessionIsLeft`, `HandshakeEnds`, `LostConnectionIsNoticed`, `BargeInIsServed` | 1 message on its way, 2 outside events: 86,500 |
| `reassembly` | `NoOverflow`, `ParserStaysInside`, `WholeMessagesAreUnderstood`, `ImplementsChannel` | 2 of 4 kinds of message (10 to 42 bytes), pieces of 1 to 6, first buffer 8, growth at least 6, 2 faults: 583,000 |
| `audio_uplink` | `ChunkNeverOverflows`, `SpokenOrder`, `SpeechIsTaken` | chunk 5, result 8, ring 20, 4 results, 4 outside events: 170,000 |
| `audio_downlink` | `HeadersAreNotDecoded`, `RepliesAreDecodedWhole`, `PlaybackInOrder`, `MessagesAreHandled`, `SpeechIsPlayed` | 2 replies of 4 pages, rings of 2 and 1, 1 outside event: 456,000 |
| `cclient` | `SleepersHaveNotHeard`, `NoMessageIsStranded`, `WireFollowsProtocol`, `GoodbyeIsSaid`, `ThreadsHaveTheirResources`, `CrashesHaveACause`, `ImplementsFifo`, `ProgramEnds` | queue of 3 slots, 2 file chunks, 1 packet to play, 2 outside events: 444,000 |
| `device` | `HeapIsOwned`, `CrashesHaveACause`, `TasksHaveResources`, `GivesUpOnlyWhenCut`, `EndsUpConnected` | 1 retry, 4 outside events: 113,000 |
| `dialog_ready`, `dialog_autoreconnect`, `dialog_stale`, `dialog_zombie` | four statements of the repository the dialog does not keep | 3 outside events |
| `capture_gap`, `audio_clear` | two statements the audio path does not keep | as `audio_uplink`; 2 replies of 4 pages, rings of 2, 2 outside events |

Every passing run also checks the module's type invariant.

*Why the bounds are enough.*  `MaxOutside` bounds what the user, the network, the
server and the allocator do of their own accord (buttons, wake words, lost
connections, failures, errors); what follows from it, such as reconnections,
delays, turns of a conversation, retries and the greeting, is not bounded.  Two
outside events in `dialog` are a wake word and a lost connection, or a session's
end and a button; three reach every counterexample below; and what `dialog`
checks of safety under preemption is proved for any number.  One message on its
way is enough for a stale one, because a restarted session has the old session's
close and the new session's events behind each other.  In `reassembly` a message
makes the buffer grow at its first, a middle or its last piece, and two faults
hit the same message or two in a row; pieces of any length cut every field of the
header.  In `audio_uplink` a result is longer than a chunk and the ring wraps
around in the middle of a result; four interventions are a full listen, stop,
listen again with a lost connection in between.  In `audio_downlink` both rings
fill up with one reply, a page is cut in two, and a second reply follows one that
was broken off or reset; the outside event is the wake word, a broken-off reply or a
lost connection, and because the end of a reply resets the demultiplexer as well, and is
not counted, two resets cut into one decode and into each other.  (With two outside
events and both rings of 2, 2,392,000 states, the safety properties hold too; they
are proved for any number.)  A queue of three slots holds two messages, so that main and the
input thread fill it together and it wraps around.  `device` needs two failures
to give up on the network, and has two left for the client.

The runs say `CHECK_DEADLOCK FALSE`: after a fatal error or an early return of
`app_main` the tasks really end, the C client exits, and the reassembly stops when
its messages are used up.

**Fairness.**  FreeRTOS and Linux give every ready thread time; weak fairness of
the steps of each task says that, and no more.  Strong fairness stands where a
step's enabling comes and goes although the code waits for it: a delay or timeout
passes however often other tasks run meanwhile (`FsmStep`, `WsStep`, `MainStep` of
`CClient`), and an item in `playback_rb` is received although a handler may drain
the buffer again and again (`PlayReceives`).  Nothing is asked of the server, the
user, the microphone or the speech: these liveness properties hold with a server
that never answers.  `Device` asks that a dialing client is in the end connected or
refused, and `EndsUpConnected` has "the access point stays in reach" in its
premise.  The liveness properties of the dialog except a device that has stopped
after a fatal error (`Running`), those of the downlink a ruined run; `EndsUpConnected` excepts the five ends `Lost` names,
each of which is real.

### Where the code does not do what the repository says

- `dialog_ready`: "waiting for wake word/button" (`app_main.c:37`).  An event
  152/153 that interleaves with the FSM's transition to LISTENING leaves
  CONNECTED_IDLE with the wake word off and the microphone streaming.
- `dialog_autoreconnect`: "StartConnection already done" (`app_main.c:38`).  Not on
  a connection the library reopened while the dialog was in LISTENING or SPEAKING.
- `dialog_stale`: session-id filtering (`BOX3DESIGN.md:14`, `:28`).  There is none,
  and an event of the old session ends the new one.
- `dialog_zombie`: "Check if connected" (`doubao_ws_client.h:78`).
  `doubao_ws_destroy` clears the flag before it stops the client's task; a
  reconnection that succeeds in between sets it again, and the device stays
  "Already connected" without a client.
- `capture_gap`: "Reads PCM from capture ring buffer -> send raw PCM via WebSocket"
  (`app_main.c:569`).  The part of an item that does not fit the chunk is returned
  to the ring buffer and never sent.
- `audio_clear`: "Clear playback buffer (for barge-in / interrupt)"
  (`audio_hal.h:57`).  While the play task holds an item the drain gets nothing.

Two more disagreements are in the models without a run of their own, because each is the
order of two statements of one function:

- "播报完最后的结束语" (play the closing words to their end, `BOX3DESIGN.md:75`).  The
  handler of the TTS-ended event, which carries the exit intent, drains `playback_rb`
  (`app_main.c:432`) before it ends the session (`WsTakes`, `DrainPlayback`).
- "5. ... (cmd=200) ... 7. FinishSession (cmd=102) → FinishConnection (cmd=2)"
  (`doubao_c_version/README.md:94-96`).  `running` stays true until both are queued
  (`main.c:348-358`), and the input thread sends on behind them (`Goodbye`,
  `InputSends`).

Other defects the models contain, and the properties name, without a sentence of
the repository to hold them against: the second free of `recv_buf` after
`xEventGroupCreate` has failed, the send that outlives its handle
(`WsClient.CrashesHaveACause`); the second destroy of the lws context, the use of a
closed `wsi`, the join of a player, service or input thread that was never created,
the copy to a `recv_buf` that was not allocated, the destroy of a `state_mutex` that a
cancelled thread left locked (`CClient.CrashesHaveACause`); the pages and packets a
barge-in frees under the decoder (the ruined runs of `AudioDownlink`); the C client that goes on waiting after the server
has closed the connection (the premise of `ProgramEnds`).

## 4. What is proved

For every value of the constants (any bound, any buffer, chunk, item and queue
size, any number of faults), from the named assumptions of the modules, which
only give the constants their types and positive sizes:

- **Dialog.**  `TypeCorrect`, `FreshSessionsAreStarted`, `NoClientIsEverOverwritten`.
  Neither of the last two is inductive.  `Inv` adds why they hold: the scripts of
  the `ws` and `afe` tasks contain no operation that drops the connected flag or
  stops the client (`CallbacksKeepClient`); between a successful connect and
  StartConnection the FSM runs no script and the flag stays up as long as the
  link is (`ConnectionIsGreeted`), so a failed send at that place means a
  connection that is down; and an FSM that is about to connect with a client left
  over still has the destruction of that client before it (`OldClientIsStopped`).
- **Dialog without interruption.**  `SerialModeAlwaysMatches` and `SerialReadyIsIdle`,
  about every behaviour in which no two scripts have interleaved.  Both speak of the
  places where no script is under way; the invariant has to speak of those in the
  middle of one.  It does so through what the rest of the script will leave: the
  flags it raises and does not drop again (`HoldsAfter`) and the state it enters last
  (`EndsIn`).  `Steady` says that at most one task has a script, and that microphone,
  wake word, session and state will agree when it is done.  An operation of the script
  keeps `Steady` whatever the operation is (`OperationKeepsFlags` and its siblings);
  what remains are the beginnings: each handler and each branch of the FSM, whose
  whole script is unfolded once.  `CallbacksEnterLast` (the callbacks' last statement
  is the one that changes the state) and `NotBooted` (before `app_main`'s own state
  change only the start of the FSM happens) are needed beside it.
- **Reassembly.**  `TypeCorrect`, `BufferNeverOverflows`, and
  `ReassemblyImplementsChannel`: if every message is one frame (`OneFrameEach`),
  `Spec => ImplementsChannel`.  The invariant says that the buffer holds exactly
  what has arrived of the message in progress (`Clean`), or that a fault has not
  been paid for by a damaged block yet (`DamageIsPaid`).  `OneFrameEach` is a
  condition on the server, not on the code, which does not look at FIN.
- **Protocol.**  `ParserReadsItsBlockOnly`: for any two memories that agree on the
  first `len` bytes the parser returns the same; every read is covered by the
  check before it.  `CommandsFit`: what `build_command` writes is what it
  allocated.  `ParserUnderstandsServer`: what the server lays out is what the parser
  finds, for every combination of the optional fields, every session id the structure
  has room for, every payload, compressed or not.  The fields are peeled off from the
  end (`HoldsParts`), so that each stands where the sum of those before it says; that
  a payload inflates to the same wherever it lies is `SameInflated`, for any header
  of the gzip format and any `Inflate`.  `SaysIt` is what is asked of the server; in
  particular that an empty payload is not compressed, because the parser would report
  one as binary.
- **Receive path.**  `PathIsReassembly` (the composed specification implies that of
  `WsReassembly`), and with it `PathNeverOverflows` and `PathImplementsChannel`; here
  `OneFrameEach` follows from `EncodingAssumption`.  `ParserAlwaysStaysInside` needs
  the inductive `PathInv`: every unit of the buffer names a byte the server has
  sent, so every block, however cut and spliced, is a sequence of bytes, to which
  the parser's theorem applies.  `MessagesAreUnderstood`: a block that is a message
  holds the bytes of that message (`MeantIsGiven`), to which `ParserUnderstandsServer`
  applies, for every set of messages each of which `SaysIt`; that the four of
  `MCReceivePath` do is an assumption TLC evaluates (`ServerKeepsTheFormat`).
- **Uplink.**  `TypeCorrect`, `ChunkFits` and `SpeechStaysInOrder`.  The invariant
  orders three pieces of audio, `chunk`, `capture.bytes` and `fetched`, between the
  last byte sent and the last byte picked up, and says that the chunk is not full
  while it is being filled (`Filled`).  The types need that the handlers only ever
  enter the four states of a conversation (`TalkOp`).
- **Downlink.**  `TypeCorrect`, which contains that both ring buffers stay in their
  bounds whatever is drained under a lent item; `SpeechIsPlayedInOrder`;
  `OnlyAudioIsDecoded`; `RepliesDecodedWhole`.  The fragments in `ogg_sync` and on
  their way form one line, each before the next and all behind what the demultiplexer
  has taken; what was taken is past, and nothing past comes again, so the order of
  `playback_rb` survives every reset and drain.  Headers are kept from the decoder by
  counting (`Counted`): as many headers as `ogg_header_count` says will not come any
  more, and as long as fewer are counted the flag is down.  A reset may take the count
  or the flag back between any two steps of the decoder, and only makes it skip more;
  what it cannot do is raise them, and a stream that begins gets them fresh after it is
  there.  That a reply is decoded whole is about the halves of its
  pages: from the first half still on its way it arrives without a gap, so that a
  stream that was not reset always meets the page it expects, and what is thrown away
  is of another reply or was the last of its own (`Whole`).  `intact` says which replies
  that is about: its first page came out of `ogg_sync` after the last step of any reset.
  A reset that begins before that page and ends after it, or falls between its
  `ogg_sync_pageout` and the test of `ogg_stream_inited`, spoils the reply in the code
  and takes it out of the premise.
- **Device.**  `DeviceTypeCorrect`.  `ClientOwnership`: where the FSM is tells which blocks the client has,
  and its task runs only while it has all three (`Ownership`); this gives
  `HeapStaysOwned` and `CrashesStayCaused` for the device because every step of it is
  a step of `WsClient` or leaves it alone (`DeviceImplementsClient`).
  `TasksKeepResources`: tasks exist only where `app_main` has passed the
  initialisations they need (`Created`, `Started`).  `GivesUpOnlyThen`: the retry
  counter never exceeds the failures since the last address (`Counted`).
- **Send queue** (in `CClientProofs`).  `QueueHoldsMessages` and `QueueImplementsFifo`, with the waiting
  slots from `send_head` to `send_tail`, modulo the size, as refinement mapping.
- **C client.**  Every invariant the run checks, and the refinement.  `Control` ties
  the threads and what they use to the place of `main` (`Threads`, `Asking`,
  `Causes`) and says that a queue that is not empty has its callback due
  (`CallbackIsDue`); it gives `ThreadsKeepTheirResources`, `NoWakeupIsLost`,
  `EveryMessageIsAskedFor`, `CrashNeedsACause` and, because every step is a step of
  the queue, `ClientImplementsFifo`.  The causes of `CrashNeedsACause` are each needed
  (`Causes` has one conjunct for each): a lost connection, a failed dial or speaker, a
  missing `recv_buf`, a thread that was not created, and an input thread cancelled in
  its wait for a greeting that has not ended.  `WireIsTheProtocol` needs `Wire`: as long as the
  connection is not closed, what waits continues what was written (`QueueOrdered`),
  no command has a rank above `main`'s last (`Below(Due)`), and input waits behind
  StartSession (`InputBehindSession`).  Nothing is said of input after FinishSession,
  which the code lets through.  It assumes three slots: with two, TLC finds
  the run in which a stalled connection keeps StartSession out of a full queue and
  lets input in after it.  `UndisturbedRunSaysGoodbye` follows each farewell from
  the queue to the wire (`Goodbyes`) while connection and service thread are there
  (`Calm`): that `main`'s last delay suffices rests on `CallbackIsDue`.

Every invariant was checked by TLC before it was proved.

Every safety invariant that a passing run checks is stated by a theorem.  Only
model-checked: all liveness properties, because fairness and ENABLED are out of
TLAPS' reach (`DeadSessionIsLeft`, `HandshakeEnds`, `LostConnectionIsNoticed`,
`BargeInIsServed`, `SpeechIsTaken`, `MessagesAreHandled`, `SpeechIsPlayed`,
`ProgramEnds`, `EndsUpConnected`).  `Inflate` is a parameter of the theorems about
the parser, not a proved implementation of deflate.

## 5. Not modelled

- The Python demo: a demonstration client with the same sequence of commands as
  the C client, its counterpart (`doubao_c_version/README.md:3`), which has the
  threads and the failures.
- `components/tcp_transport`: vendored ESP-IDF code, behind `esp_websocket_client`.
- The LCD: labels and hints, nothing the program reads back; logging;
  `g_user_querying` and the C client's `user_querying`, written and never read.
- Code nothing calls: `gzip_compress` with its CRC, `opus_proc_encode`,
  `opus_proc_cleanup`, `audio_hal_deinit`, `afe_handler_stop`.
- Inside libraries: deflate, libogg and libopus, the AFE, TLS, libwebsockets and
  `esp_websocket_client` are modelled by what the code sees of them and marked
  external.  Where the code leaves them undefined in the demultiplexer (two calls that
  overlap, a page or packet freed before it is used) the run is ruined or nothing comes
  of it; what a ruined run does is not modelled.  `printf` in the C client's signal
  handler, and `lws_callback_on_writable` called from other threads than the service
  thread, are taken to work.
- In the C client: the bytes of its messages (the same format as
  `DoubaoProtocol`), its Ogg demultiplexer and `output.ogg`, by their outcomes only.
- JSON payloads: the fields `on_ws_receive` looks at are a choice among its
  branches.

## 6. Plan

Done: everything of sections 2 to 4.  What would come next: the dialog composed
with the ownership of `WsClient`, as one refinement instead of two modules that
describe the same `doubao_ws_destroy`; the bytes of the C client's messages, whose
parser is laid out like `DoubaoProtocol`; the asyncio session of the Python demo.
