------------------------------- MODULE CClient -------------------------------
(***************************************************************************)
(* The C client (doubao_c_version): its threads from main's first call to  *)
(* the end of the process, over the send queue of SendQueue.               *)
(*                                                                         *)
(*   main     main(), which connects, shakes hands, waits and shuts down;  *)
(*            in file mode it also sends the file;                         *)
(*   service  service_thread_func: libwebsockets and its callbacks;        *)
(*   input    mic_input_thread_func or text_input_thread_func;             *)
(*   player   player_thread_func.                                          *)
(*                                                                         *)
(* Any of the last three may fail to be created; main looks only whether   *)
(* the player was.                                                         *)
(*                                                                         *)
(* Ctrl+C may interrupt any of them.  Time is not counted: a delay of main *)
(* ends when the service thread has nothing left to do.  Text of messages, *)
(* files and logging are left out, and so is user_querying, which is never *)
(* read.                                                                   *)
(***************************************************************************)
EXTENDS SendQueue, FiniteSets

CONSTANTS
  MaxOutside,  (* bound: Ctrl+C, stalls, lost connections, failed          *)
               (* allocations and endings or errors from the server        *)
  MaxChunks,   (* bound: chunks of the audio file                          *)
  MaxNodes     (* bound: decoded packets that wait for the player          *)

ASSUME OutsideAssumption == MaxOutside \in Nat
ASSUME ChunksAssumption == MaxChunks \in Nat
ASSUME NodesAssumption == MaxNodes \in Nat

VARIABLES
  mode,      (* input_mod: "audio_file", or "dialog" for "audio" and       *)
             (* "text", which differ in how the input may end              *)
  main,      (* where main() is                                            *)
  service,   (* the service thread: "none", "loop" or "done"               *)
  input,     (* the input thread: "none", "failed" when it could not be    *)
             (* created, where it is, "done", or "holding" when it ended   *)
             (* with state_mutex locked                                    *)
  player,    (* the player thread                                          *)
  flags,     (* the booleans that are true                                 *)
  asking,    (* threads that have queued a message and not yet asked for   *)
             (* LWS_CALLBACK_CLIENT_WRITEABLE                              *)
  writable,  (* libwebsockets owes that callback                           *)
  link,      (* the connection, as libwebsockets sees it                   *)
  context,   (* the lws context: "none", "live" or "destroyed"             *)
  audio,     (* the audio manager's streams and codecs, likewise           *)
  play_queue, (* decoded packets that wait                                 *)
  written,   (* what went over the connection, runs of input as one        *)
  session,   (* the server's session                                       *)
  net,       (* server messages on their way                               *)
  received,  (* recv_buf between two messages: "empty", the event of the   *)
             (* message whose front was left in it, or "missing" when it   *)
             (* could not be allocated                                     *)
  chunks,    (* chunks of the audio file that are left                     *)
  trouble,   (* what has gone wrong or was interrupted, for the properties *)
             (* ("buffer": no recv_buf; "memory": any later allocation;    *)
             (* "thread": a thread that was not created; "other": Ctrl+C,  *)
             (* a stall, a full queue)                                     *)
  outside    (* how many of the events MaxOutside bounds are left          *)

lws   == <<asking, writable, link, context, received>>
world == <<written, session, net, chunks, trouble, outside>>
sound == <<player, audio, play_queue>>
vars  == <<queueVars, mode, main, service, input, player, flags, asking, writable, link,
           context, audio, play_queue, written, session, net, received, chunks,
           trouble, outside>>

Command == {"StartConnection", "StartSession", "SayHello", "Input",
            "FinishSession", "FinishConnection"}

ASSUME MessagesAssumption == Msg = Command

Event == {"audio", "clear_cache", "tts_ended", "finished", "error"}

HasAudio == mode # "audio_file"

Flag == {"running", "client_running", "connected", "session_finished",
         "hello_done", "playing", "cancelled"}

MainPc == {"init", "audio_init", "open_output", "connect", "dial",
           "start_connection", "connection_delay", "start_session", "session_delay",
           "say_hello", "begin_input", "file", "file_delay", "wait",
           "finish_session", "finishing", "finish_connection", "last_delay",
           "stop", "join_service", "join_input",
           "cleanup_audio", "join_player", "destroy", "exited", "crashed"}

Ended == main \in {"exited", "crashed"}

(* There is no input thread, not yet or not any more. *)
NoInput == input \in {"none", "failed", "done", "holding"}

TypeOK ==
  /\ QueueTypeOK
  /\ mode \in {"dialog", "audio_file"}
  /\ main \in MainPc
  /\ service \in {"none", "loop", "done"}
  /\ input \in {"none", "failed", "hello", "asleep", "loop", "read", "send", "done", "holding"}
  /\ player \in {"none", "loop", "done"}
  /\ flags \subseteq Flag
  /\ asking \subseteq {"main", "input"}
  /\ writable \in BOOLEAN
  /\ link \in {"none", "dialing", "up", "stalled", "closed"}
  /\ context \in {"none", "live", "destroyed"}
  /\ audio \in {"none", "live", "destroyed"}
  /\ play_queue \in 0..MaxNodes
  /\ written \in Seq(Command)
  /\ session \in {"none", "open", "closing"}
  /\ net \in Seq(Event) /\ Len(net) <= 1
  /\ received \in {"empty", "missing"} \cup Event
  /\ chunks \in 0..MaxChunks
  /\ trouble \subseteq {"closed", "buffer", "memory", "dial", "output", "thread", "other"}
  /\ outside \in 0..MaxOutside

(* After the options are read and g_session is filled in. *)
Init ==
  /\ QueueInit
  /\ mode \in {"dialog", "audio_file"}
  /\ main = "init"
  /\ service = "none" /\ input = "none" /\ player = "none"
  /\ flags = {"running"}
  /\ asking = {} /\ writable = FALSE
  /\ link = "none" /\ context = "none" /\ audio = "none"
  /\ play_queue = 0
  /\ written = <<>>
  /\ session = "none" /\ net = <<>> /\ received = "empty"
  /\ chunks = MaxChunks
  /\ trouble = {}
  /\ outside = MaxOutside

-----------------------------------------------------------------------------
Spend == outside > 0 /\ outside' = outside - 1

Suffers(what) == trouble' = trouble \cup {what}

(* The service thread has handled what there is, and runs on. *)
ServiceIdle ==
  service = "loop" =>
    "client_running" \in flags /\ net = <<>> /\ ~(writable /\ link = "up")

(* A delay of main ends: the other threads have come to a wait. *)
TimePasses ==
  /\ ServiceIdle
  /\ NoInput \/ input \in {"asleep", "read"}
  /\ "input" \notin asking

-----------------------------------------------------------------------------
(* Sending, from main and from the input thread *)

(* build_command, or client_send_raw after it, finds no memory. *)
BuildFails == Spend /\ Suffers("memory")

(* A command is built and queued.  The callers ignore a full queue and a   *)
(* failed allocation.                                                      *)
Queues(t, cmd) ==
  \/ /\ Push(cmd)
     /\ asking' = asking \cup {t}
     /\ UNCHANGED <<trouble, outside>>
  \/ /\ IsFull
     /\ Suffers("other")
     /\ UNCHANGED <<queueVars, asking, outside>>
  \/ BuildFails /\ UNCHANGED <<queueVars, asking>>

(* lws_callback_on_writable, after the mutex is released.  wsi still       *)
(* points to a connection that was closed and freed: undefined.            *)
AskForWritable(t) ==
  /\ t \in asking
  /\ asking' = asking \ {t}
  /\ \/ link # "closed" /\ writable' = TRUE /\ UNCHANGED main
     \/ link = "closed" /\ main' \in {main, "crashed"} /\ UNCHANGED writable
  /\ UNCHANGED <<queueVars, mode, service, input, flags, sound, world,
                 link, context, received>>

-----------------------------------------------------------------------------
(* main() *)

MainAt(label) == main = label /\ "main" \notin asking

(* After a failed connect, and at the end. *)
CleanUpFrom == IF HasAudio THEN "cleanup_audio" ELSE "destroy"

(* client_init: DOUBAO_APP_ID or the key is not set, or the client is      *)
(* ready, its recv_buf taken for allocated whether or not it is.           *)
ClientInit ==
  /\ MainAt("init")
  /\ \/ main' = "exited" /\ UNCHANGED <<flags, received, trouble, outside>>
     \/ /\ main' = IF HasAudio THEN "audio_init" ELSE "connect"
        /\ flags' = flags \cup {"client_running"}
        /\ \/ UNCHANGED <<received, trouble, outside>>
           \/ received' = "missing" /\ Suffers("buffer") /\ Spend
  /\ UNCHANGED <<queueVars, mode, service, input, sound, asking, writable, link, context,
                 written, session, net, chunks>>

(* Mutant: what audio_init did not set up is cleaned up. *)
AudioInitCleansUp ==
  /\ MainAt("audio_init")
  /\ \/ main' = "open_output" /\ audio' = "live"
     \/ main' = "cleanup_audio" /\ UNCHANGED audio
  /\ UNCHANGED <<queueVars, mode, service, input, player, flags, play_queue, lws, world>>

AudioInit ==
  /\ MainAt("audio_init")
  /\ \/ main' = "open_output" /\ audio' = "live"
     \/ main' = "destroy" /\ UNCHANGED audio
  /\ UNCHANGED <<queueVars, mode, service, input, player, flags, play_queue, lws, world>>

(* The stream may fail to open or start, or the thread to be created. *)
OpenOutput ==
  /\ MainAt("open_output")
  /\ \/ /\ main' = "connect"
        /\ player' = "loop"
        /\ flags' = flags \cup {"playing"}
        /\ UNCHANGED trouble
     \/ /\ main' = "cleanup_audio"
        /\ flags' \in {flags, flags \cup {"playing"}}
        /\ Suffers("output")
        /\ UNCHANGED player
  /\ UNCHANGED <<queueVars, mode, service, input, audio, play_queue, lws,
                 written, session, net, chunks, outside>>

(* client_connect: no context, no connection (the context is destroyed but *)
(* its pointer kept), or on with the dialing.                              *)
Connect ==
  /\ MainAt("connect")
  /\ \/ main' = CleanUpFrom /\ UNCHANGED <<context, link, trouble>>
     \/ /\ main' = CleanUpFrom
        /\ context' = "destroyed"
        /\ Suffers("dial")
        /\ UNCHANGED link
     \/ main' = "dial" /\ context' = "live" /\ link' = "dialing" /\ UNCHANGED trouble
  /\ UNCHANGED <<queueVars, mode, service, input, flags, sound, asking, writable,
                 received, written, session, net, chunks, outside>>

(* Callbacks of the lws_service calls that client_connect makes itself. *)
Dialing ==
  /\ MainAt("dial")
  /\ link = "dialing"
  /\ \/ /\ link' = "up"             \* LWS_CALLBACK_CLIENT_ESTABLISHED
        /\ flags' = flags \cup {"connected"}
        /\ writable' = TRUE
     \/ /\ link' = "closed"         \* LWS_CALLBACK_CLIENT_CONNECTION_ERROR
        /\ flags' = flags \ {"connected", "client_running"}
        /\ UNCHANGED writable
  /\ UNCHANGED <<queueVars, mode, main, service, input, sound, asking, context,
                 received, world>>

(* pthread_create fails; main goes on as if it had not. *)
NotCreated == Spend /\ Suffers("thread")

(* Connected, stopped, or ten seconds are over. *)
DialEnds ==
  /\ MainAt("dial")
  /\ IF "connected" \in flags
     THEN /\ main' = "start_connection"
          /\ \/ service' = "loop" /\ UNCHANGED <<trouble, outside>>
             \/ NotCreated /\ UNCHANGED service
     ELSE main' = CleanUpFrom /\ UNCHANGED <<service, trouble, outside>>
  /\ UNCHANGED <<queueVars, mode, input, flags, sound, lws, written, session, net, chunks>>

MainSends(label, cmd, next) ==
  /\ MainAt(label)
  /\ Queues("main", cmd)
  /\ main' = next
  /\ UNCHANGED <<mode, service, input, flags, sound, writable, link, context, received,
                 written, session, net, chunks>>

MainWaits(label, next) ==
  /\ MainAt(label)
  /\ main' = next
  /\ UNCHANGED <<queueVars, mode, service, input, flags, sound, lws, world>>

(* Mutant: the session is started first. *)
HandshakeSwapped ==
  \/ MainSends("start_connection", "StartSession", "connection_delay")
  \/ TimePasses /\ MainWaits("connection_delay", "start_session")
  \/ MainSends("start_session", "StartConnection", "session_delay")
  \/ /\ TimePasses
     /\ MainWaits("session_delay", IF HasAudio THEN "say_hello" ELSE "begin_input")
  \/ MainSends("say_hello", "SayHello", "begin_input")

Handshake ==
  \/ MainSends("start_connection", "StartConnection", "connection_delay")
  \/ TimePasses /\ MainWaits("connection_delay", "start_session")
  \/ MainSends("start_session", "StartSession", "session_delay")
  \/ /\ TimePasses
     /\ MainWaits("session_delay", IF HasAudio THEN "say_hello" ELSE "begin_input")
  \/ MainSends("say_hello", "SayHello", "begin_input")

(* audio_open_input: there is no microphone, or it does not start. *)
OpenInputFails == HasAudio /\ flags' = flags \ {"running"}

BeginInput ==
  /\ MainAt("begin_input")
  /\ \/ /\ ~HasAudio
        /\ main' = "file"
        /\ UNCHANGED <<input, flags, trouble, outside>>
     \/ /\ HasAudio
        /\ main' = "wait"
        /\ \/ input' = "hello" /\ UNCHANGED <<trouble, outside>>
           \/ input' = "failed" /\ NotCreated
        /\ UNCHANGED flags
     \/ /\ OpenInputFails
        /\ main' = "wait"
        /\ UNCHANGED <<input, trouble, outside>>
  /\ UNCHANGED <<queueVars, mode, service, sound, lws, written, session, net, chunks>>

(* process_audio_file: one chunk, or its end; the file may not open.       *)
SendFile ==
  \/ /\ MainAt("file")
     /\ "running" \in flags
     /\ chunks > 0
     /\ chunks' = chunks - 1
     /\ Queues("main", "Input")
     /\ main' = "file_delay"
     /\ UNCHANGED <<mode, service, input, flags, sound, writable, link, context,
                    received, written, session, net>>
  \/ TimePasses /\ MainWaits("file_delay", "file")
  \/ /\ "running" \notin flags \/ chunks \in {0, MaxChunks}
     /\ MainWaits("file", "wait")

(* Mutant: only the flag of the session ends the wait. *)
WaitForSessionEnd ==
  "session_finished" \in flags /\ MainWaits("wait", "finish_session")

WaitForEnd ==
  /\ "running" \notin flags \/ "session_finished" \in flags
  /\ MainWaits("wait", "finish_session")

(* Mutant: the process stops at once. *)
GoodbyeWithoutWaiting ==
  \/ MainSends("finish_session", "FinishSession", "finishing")
  \/ MainWaits("finishing", "finish_connection")
  \/ MainSends("finish_connection", "FinishConnection", "last_delay")
  \/ MainWaits("last_delay", "stop")

(* Three seconds for the server's answer, 200 ms for the last command. *)
Goodbye ==
  \/ MainSends("finish_session", "FinishSession", "finishing")
  \/ /\ "session_finished" \in flags \/ TimePasses
     /\ MainWaits("finishing", "finish_connection")
  \/ MainSends("finish_connection", "FinishConnection", "last_delay")
  \/ TimePasses /\ MainWaits("last_delay", "stop")

StopThreads ==
  /\ MainAt("stop")
  /\ main' = "join_service"
  /\ flags' = flags \ {"running", "client_running"}
  /\ UNCHANGED <<queueVars, mode, service, input, sound, lws, world>>

(* Mutant: the input thread is neither cancelled nor joined. *)
JoinServiceOnly ==
  /\ MainAt("join_service")
  /\ service = "done"
  /\ main' = CleanUpFrom
  /\ UNCHANGED <<queueVars, mode, service, input, flags, sound, lws, world>>

(* pthread_join of the service thread, pthread_cancel of the input thread. *)
(* To join or cancel a thread that was not created is undefined; s->       *)
(* input_thread may still be zero then, which main tests.                  *)
JoinService ==
  /\ MainAt("join_service")
  /\ service \in {"none", "done"}
  /\ \/ input \in {"none", "failed"} /\ main' = CleanUpFrom /\ UNCHANGED flags
     \/ /\ input \notin {"none", "failed"}
        /\ main' = "join_input"
        /\ flags' = flags \cup {"cancelled"}
     \/ (service = "none" \/ input = "failed") /\ main' = "crashed" /\ UNCHANGED flags
  /\ UNCHANGED <<queueVars, mode, service, input, sound, lws, world>>

JoinInput ==
  /\ MainAt("join_input")
  /\ input \in {"done", "holding"}
  /\ main' = CleanUpFrom
  /\ UNCHANGED <<queueVars, mode, service, input, flags, sound, lws, world>>

(* audio_cleanup, up to the join. *)
StopPlayer ==
  /\ MainAt("cleanup_audio")
  /\ main' = "join_player"
  /\ flags' = flags \ {"playing"}
  /\ UNCHANGED <<queueVars, mode, service, input, sound, lws, world>>

(* The join of a thread that was never created is undefined. *)
CleanUpAudio ==
  /\ MainAt("join_player")
  /\ player \in {"none", "done"}
  /\ \/ /\ main' = "destroy"
        /\ audio' = "destroyed"
        /\ play_queue' = 0
     \/ /\ player = "none"
        /\ main' = "crashed"
        /\ UNCHANGED <<audio, play_queue>>
  /\ UNCHANGED <<queueVars, mode, service, input, player, flags, lws, world>>

(* client_destroy, and the end.  A context that client_connect destroyed   *)
(* is destroyed again, or state_mutex destroyed while it is locked:        *)
(* undefined.                                                              *)
DestroyClient ==
  /\ MainAt("destroy")
  /\ main' \in {"exited"} \cup
              (IF context = "destroyed" \/ input = "holding" THEN {"crashed"} ELSE {})
  /\ FreeRest
  /\ context' = IF context = "live" THEN "destroyed" ELSE context
  /\ link' = IF link = "none" THEN "none" ELSE "closed"
  /\ flags' = flags \ {"client_running", "connected"}
  /\ UNCHANGED <<mode, service, input, sound, asking, writable, received, world>>

MainStep ==
  \/ ClientInit \/ AudioInit \/ OpenOutput \/ Connect \/ Dialing \/ DialEnds
  \/ Handshake \/ BeginInput \/ SendFile \/ WaitForEnd \/ Goodbye
  \/ StopThreads \/ JoinService \/ JoinInput \/ StopPlayer \/ CleanUpAudio \/ DestroyClient
  \/ AskForWritable("main")

-----------------------------------------------------------------------------
(* The service thread *)

Serving == service = "loop" /\ ~Ended

(* A client whose connection is gone. *)
LinkLost ==
  /\ link' = "closed"
  /\ flags' = flags \ {"connected", "client_running"}
  /\ writable' = FALSE
  /\ net' = <<>>
  /\ Suffers("closed")

(* The server's side of a command. *)
ServerTakes(cmd) ==
  session' = CASE cmd = "StartSession" -> "open"
               [] cmd = "FinishSession" /\ session = "open" -> "closing"
               [] OTHER -> session

Goes(cmd) ==
  written' = IF cmd = "Input" /\ written # <<>> /\ written[Len(written)] = "Input"
             THEN written ELSE Append(written, cmd)

(* Mutant: the callback is not asked for again. *)
WriteableOnce ==
  /\ Serving /\ writable /\ link = "up"
  /\ writable' = FALSE
  /\ \/ IsEmpty /\ UNCHANGED <<queueVars, written, session>>
     \/ Pop /\ Goes(send_queue[send_head]) /\ ServerTakes(send_queue[send_head])
  /\ UNCHANGED <<mode, main, service, input, flags, sound, asking, link, context,
                 received, net, chunks, trouble, outside>>

Writeable ==
  /\ Serving /\ writable /\ link = "up"
  /\ \/ /\ IsEmpty
        /\ writable' = FALSE
        /\ UNCHANGED <<queueVars, written, session>>
     \/ /\ Pop
        /\ writable' = (send_head' # send_tail')
        /\ Goes(send_queue[send_head])
        /\ ServerTakes(send_queue[send_head])
  /\ UNCHANGED <<mode, main, service, input, flags, sound, asking, link, context,
                 received, net, chunks, trouble, outside>>

(* lws_write fails: the message is freed, the connection closed. *)
WriteFails ==
  /\ Serving /\ writable /\ link = "up"
  /\ Pop
  /\ LinkLost
  /\ Spend
  /\ UNCHANGED <<mode, main, service, input, sound, asking, context, received,
                 written, session, chunks>>

ConnectionClosed ==
  /\ Serving /\ link \in {"up", "stalled"}
  /\ LinkLost
  /\ Spend
  /\ UNCHANGED <<queueVars, mode, main, service, input, sound, asking, context, received,
                 written, session, chunks>>

(* Mutant: the input thread is not woken. *)
HelloDoneSilently == flags' = flags \cup {"hello_done"} /\ UNCHANGED input

(* say_hello_done and hello_cond, under state_mutex *)
HelloDone ==
  /\ flags' = flags \cup {"hello_done"}
  /\ input' = IF input = "asleep" THEN "hello" ELSE input

(* The playback queue, of which the model keeps at most MaxNodes packets. *)
QueuePop   == play_queue > 0 /\ play_queue' = play_queue - 1
QueueClear == play_queue' = 0

(* Any number of packets of the message may be complete, decode and find   *)
(* memory.                                                                 *)
DecodeOggOpus == play_queue' \in play_queue..MaxNodes

(* on_ws_receive *)
Handle(event) ==
  \/ event = "audio" /\ HasAudio /\ DecodeOggOpus /\ UNCHANGED <<input, flags>>
  \/ event = "clear_cache" /\ HasAudio /\ QueueClear /\ UNCHANGED <<input, flags>>
  \/ /\ event \in {"audio", "clear_cache"} /\ ~HasAudio
     /\ UNCHANGED <<play_queue, input, flags>>
  \/ event = "tts_ended" /\ HelloDone /\ UNCHANGED play_queue
  \/ /\ event = "finished"
     /\ flags' = flags \cup {"session_finished"}
     /\ UNCHANGED <<play_queue, input>>
  \/ event = "error" /\ flags' = flags \ {"running"} /\ UNCHANGED <<play_queue, input>>

ReceiveOnly ==
  UNCHANGED <<queueVars, mode, service, player, asking, writable, link, context,
              audio, written, session, chunks>>

(* The final piece of a message hands over what recv_buf holds.  If there  *)
(* is the front of a message before it, the two are read as that one, or   *)
(* do not parse.                                                           *)
HandsOver ==
  /\ received' = "empty"
  /\ \/ Handle(IF received = "empty" THEN Head(net) ELSE received)
     \/ received # "empty" /\ UNCHANGED <<play_queue, input, flags>>

(* The first piece is copied to where no recv_buf is. *)
Receive ==
  /\ Serving /\ net # <<>>
  /\ net' = <<>>
  /\ \/ received # "missing" /\ HandsOver /\ UNCHANGED main
     \/ /\ received = "missing"
        /\ main' = "crashed"
        /\ UNCHANGED <<received, play_queue, input, flags>>
  /\ ReceiveOnly /\ UNCHANGED <<trouble, outside>>

(* realloc fails and a piece is dropped, but recv_buf_len stays.  Without  *)
(* its first piece the message does not parse, without one in the middle   *)
(* it is handed over with a hole, without the last its front stays.        *)
PieceLost ==
  /\ Serving /\ net # <<>> /\ received # "missing"
  /\ net' = <<>>
  /\ \/ /\ received' \in {received, IF received = "empty" THEN Head(net) ELSE received}
        /\ UNCHANGED <<play_queue, input, flags>>
     \/ HandsOver
  /\ Suffers("memory") /\ Spend
  /\ UNCHANGED main
  /\ ReceiveOnly

(* client_service_loop looks at the flag between two calls of lws_service. *)
ServiceEnds ==
  /\ Serving
  /\ "client_running" \notin flags
  /\ service' = "done"
  /\ UNCHANGED <<queueVars, mode, main, input, flags, sound, lws, world>>

-----------------------------------------------------------------------------
(* The input thread *)

InputAt(label) == input = label /\ "input" \notin asking /\ ~Ended

InputGoes(next) ==
  /\ input' = next
  /\ UNCHANGED <<queueVars, mode, main, service, flags, sound, lws, world>>

(* Either thread function: the wait for the greeting, under state_mutex. *)
InputWaitsForHello ==
  /\ InputAt("hello")
  /\ InputGoes(IF "running" \notin flags THEN "done"
               ELSE IF "hello_done" \in flags THEN "read" ELSE "asleep")

(* The condition of the loops. *)
IfRunning == IF "running" \in flags THEN "read" ELSE "done"

InputLoops == InputAt("loop") /\ InputGoes(IfRunning)

(* A frame of 60 ms or a line; nothing to send; the end of the text.  That *)
(* takes time too, hence ServiceIdle.                                      *)
InputReads ==
  /\ InputAt("read")
  /\ ServiceIdle
  /\ \/ InputGoes("send")
     \/ InputGoes(IfRunning)
     \/ InputGoes("done")

InputSends ==
  /\ InputAt("send")
  /\ Queues("input", "Input")
  /\ input' = "loop"
  /\ UNCHANGED <<mode, main, service, flags, sound, writable, link, context, received,
                 written, session, net, chunks>>

(* A cancellation takes effect where the thread blocks; the thread that    *)
(* waits on hello_cond ends with state_mutex locked again.                 *)
InputCancelled ==
  /\ "cancelled" \in flags
  /\ \/ InputAt("asleep") /\ InputGoes("holding")
     \/ InputAt("read") /\ InputGoes("done")

InputStep ==
  InputWaitsForHello \/ InputLoops \/ InputSends \/ InputCancelled \/ AskForWritable("input")

-----------------------------------------------------------------------------
(* The player thread *)

(* queue_pop and Pa_WriteStream, or the end when audio_cleanup asks for it. *)
PlayerStep ==
  /\ player = "loop" /\ ~Ended
  /\ \/ /\ "playing" \notin flags
        /\ player' = "done"
        /\ UNCHANGED play_queue
     \/ /\ "playing" \in flags
        /\ QueuePop
        /\ UNCHANGED player
  /\ UNCHANGED <<queueVars, mode, main, service, input, flags, audio, lws, world>>

-----------------------------------------------------------------------------
(* The user, the network and the server *)

CtrlC ==
  /\ ~Ended
  /\ flags' = flags \ {"running", "client_running"}
  /\ Suffers("other") /\ Spend
  /\ UNCHANGED <<queueVars, mode, main, service, input, sound, lws,
                 written, session, net, chunks>>

LinkStalls ==
  /\ Serving
  /\ \/ link = "up" /\ link' = "stalled" /\ Suffers("other") /\ Spend
     \/ link = "stalled" /\ link' = "up" /\ UNCHANGED <<trouble, outside>>
  /\ UNCHANGED <<queueVars, mode, main, service, input, flags, sound, asking, writable,
                 context, received, written, session, net, chunks>>

ServerSays(event) ==
  /\ Serving /\ link \in {"up", "stalled"}
  /\ net = <<>>
  /\ net' = <<event>>
  /\ \/ /\ event \in {"audio", "clear_cache", "tts_ended"} /\ session = "open"
        /\ UNCHANGED <<session, outside>>
     \/ /\ event = "finished" /\ session = "closing"
        /\ session' = "none" /\ UNCHANGED outside
     \/ /\ event \in {"finished", "error"} /\ session = "open"
        /\ session' = "none" /\ Spend
  /\ UNCHANGED <<queueVars, mode, main, service, input, flags, sound, lws,
                 written, chunks, trouble>>

Environment ==
  \/ InputReads
  \/ WriteFails \/ ConnectionClosed \/ PieceLost
  \/ CtrlC \/ LinkStalls
  \/ \E event \in Event : ServerSays(event)

Next ==
  \/ MainStep
  \/ Writeable \/ Receive \/ ServiceEnds
  \/ InputStep
  \/ PlayerStep
  \/ Environment

(* Every thread that can run does; a delay of main ends, however often the *)
(* other threads run meanwhile.  Nothing is asked of the server, the       *)
(* network, the user or the microphone.                                    *)
Fairness ==
  /\ SF_vars(MainStep)
  /\ WF_vars(Writeable) /\ WF_vars(Receive) /\ WF_vars(ServiceEnds)
  /\ WF_vars(InputStep)
  /\ WF_vars(PlayerStep)

Spec == Init /\ [][Next]_vars /\ Fairness

-----------------------------------------------------------------------------
(* Properties *)

(* No wakeup is lost between the input thread's look at say_hello_done and *)
(* its sleep: the thread that sleeps has a greeting still to come.         *)
SleepersHaveNotHeard == input = "asleep" => "hello_done" \notin flags

(* While the connection takes data, a message in the send queue has a      *)
(* callback coming that will write it: the requests of two senders and of  *)
(* the callback itself never leave one behind.                             *)
NoMessageIsStranded == Waiting > 0 /\ link = "up" => writable \/ asking # {}

Rank == [StartConnection |-> 1, StartSession |-> 2, SayHello |-> 3,
         FinishSession |-> 4, FinishConnection |-> 5]

(* What the server sees is the protocol, from any interleaving of main and *)
(* the input thread, with a queue that may fill up: each control command   *)
(* at most once and in its order, and no input before StartSession (unless *)
(* an allocation has swallowed it).  Input may follow FinishSession: the   *)
(* input thread runs on while main says goodbye.                           *)
WireFollowsProtocol ==
  \A j \in DOMAIN written :
    /\ written[j] # "Input" =>
         \A i \in 1..(j - 1) :
            written[i] # "Input" => Rank[written[i]] < Rank[written[j]]
    /\ written[j] = "Input" /\ "memory" \notin trouble =>
         \E i \in 1..(j - 1) : written[i] = "StartSession"

(* A run that nothing has disturbed leaves the server with the session and *)
(* the connection finished, although main only waits and does not look     *)
(* whether its last commands were sent.                                    *)
GoodbyeIsSaid ==
  main = "exited" /\ service = "done" /\ trouble = {} =>
    \A cmd \in {"FinishSession", "FinishConnection"} :
      \E i \in DOMAIN written : written[i] = cmd

(* No thread runs on what main has cleaned up, along every path that       *)
(* leads to a clean-up.                                                    *)
ThreadsHaveTheirResources ==
  ~Ended =>
    /\ service = "loop" => context = "live" /\ (HasAudio => audio = "live")
    /\ ~NoInput => context = "live" /\ audio = "live"
    /\ player = "loop" => audio = "live"

(* The undefined operations of the program (the callback asked for on a    *)
(* freed connection, the copy to a recv_buf that is missing, the join of a *)
(* thread that does not exist, the context destroyed twice, state_mutex    *)
(* destroyed while it is locked) are reached only after one of their       *)
(* causes: a lost connection, no memory for recv_buf, a failed dial, a     *)
(* failed speaker, a thread that was not created, or an end before the     *)
(* greeting's, which cancels the input thread in its wait.  Ctrl+C or an   *)
(* error later than that, a stall, a full queue, a command without memory  *)
(* and lost pieces of messages lead to none.                               *)
CrashesHaveACause ==
  main = "crashed" =>
    \/ trouble \cap {"closed", "buffer", "dial", "output", "thread"} # {}
    \/ "cancelled" \in flags /\ "hello_done" \notin flags

(* Ctrl+C, an error of the server or the end of the session ends the       *)
(* program: no thread waits for another that will not come.                *)
ProgramEnds == ("running" \notin flags \/ "session_finished" \in flags) ~> Ended

=============================================================================
