----------------------------- MODULE AppHandlers -----------------------------
(***************************************************************************)
(* The straight-line parts of main/app_main.c: what each callback and each *)
(* branch of the FSM task does, statement by statement, once its           *)
(* conditions are decided.  A script is a sequence of operations on the    *)
(* globals the tasks share without a lock, in the order of the code.  The  *)
(* tasks that run the scripts, and everything that may come between two    *)
(* operations (vTaskDelay, a blocking send, a preemption), are in          *)
(* DialogFsm.                                                              *)
(*                                                                         *)
(* Left out: the labels and hints ui_lcd shows, logging, and               *)
(* g_user_querying, which the code writes and never reads.                 *)
(***************************************************************************)
EXTENDS Sequences, FiniteSets

(* enum app_state_t *)
AppState == {"IDLE", "CONNECTING", "CONNECTED_IDLE",
             "HANDSHAKING", "LISTENING", "SPEAKING"}

(* The boolean globals: g_session_active, g_say_hello_done,                *)
(* g_bargein_requested and g_running of app_main.c, s_streaming and the    *)
(* WakeNet switch of afe_handler.c, client->connected of                   *)
(* doubao_ws_client.c.                                                     *)
Flag == {"active", "hello_done", "bargein", "running",
         "streaming", "wakenet", "connected"}

(* What the clear and reset calls empty: the ring buffers of audio_hal.c,  *)
(* the Ogg demuxer of opus_processor.c, and g_tts_text with                *)
(* g_last_reply_id.                                                        *)
Buffer == {"playback", "capture", "ref", "ogg", "text"}

(* The commands whose result the sender ignores. *)
Command == {"FinishSession", "SayHello"}

Raise(f) == [op |-> "raise", flag  |-> f]
Drop(f)  == [op |-> "drop",  flag  |-> f]
Enter(s) == [op |-> "enter", state |-> s]   \* set_app_state(s)
Send(c)  == [op |-> "send",  cmd   |-> c]
Clear(B) == [op |-> "clear", bufs  |-> B]   \* a run of clear/reset calls
StopWs   == [op |-> "stop"]                 \* stop, destroy and forget ws_handle
Delay    == [op |-> "delay"]                \* vTaskDelay of 300 ms or more

Op == [op : {"raise", "drop"}, flag : Flag]
        \cup [op : {"enter"}, state : AppState]
        \cup [op : {"send"}, cmd : Command]
        \cup [op : {"clear"}, bufs : SUBSET Buffer]
        \cup [op : {"stop", "delay"}]

-----------------------------------------------------------------------------
(* on_wake_word, in the AFE fetch task *)

WakeStarts == <<Drop("wakenet"), Enter("HANDSHAKING")>>

WakeInterrupts == <<Clear({"playback", "ref", "ogg"}), Raise("bargein")>>

-----------------------------------------------------------------------------
(* on_ws_receive, in the task of the WebSocket client *)

OnClearCache ==
  << Clear({"playback", "capture", "ref", "ogg"}),
     Drop("wakenet"), Raise("streaming"), Enter("LISTENING") >>

OnUserQueryEnd ==
  << Drop("streaming"), Raise("wakenet"), Clear({"capture"}), Enter("SPEAKING") >>

(* EVENT_TTS_ENDED: all three branches clear first. *)
ClearForTurn == <<Clear({"playback", "capture", "ref", "ogg"})>>

OnHelloEnded == ClearForTurn \o <<Raise("hello_done")>>

OnExitIntent ==
  ClearForTurn \o
  << Drop("streaming"), Raise("wakenet"), Send("FinishSession"), Delay,
     Drop("active"), Enter("CONNECTED_IDLE") >>

(* Mutant: the wake word stays on while the user is listened to. *)
OnTurnEndedHearsWakeWord ==
  ClearForTurn \o <<Raise("streaming"), Enter("LISTENING")>>

OnTurnEnded ==
  ClearForTurn \o <<Drop("wakenet"), Raise("streaming"), Enter("LISTENING")>>

(* Mutant: the session stays active. *)
OnSessionFinishedKeepsActive ==
  <<Drop("streaming"), Raise("wakenet"), Enter("CONNECTED_IDLE")>>

OnSessionFinished ==
  <<Drop("active"), Drop("streaming"), Raise("wakenet"), Enter("CONNECTED_IDLE")>>

OnRecoverableError ==
  << Clear({"playback", "capture", "ref", "ogg"}), Drop("streaming"),
     Drop("active"), Clear({"text"}), Send("FinishSession"), Delay,
     Raise("wakenet"), Enter("CONNECTED_IDLE") >>

OnFatalError == <<Drop("running")>>

-----------------------------------------------------------------------------
(* main_fsm_task *)

BargeIn ==
  << Drop("bargein"), Clear({"text"}), Send("FinishSession"), Delay,
     Drop("active"), Enter("HANDSHAKING") >>

(* Mutant: the client is not stopped. *)
DestroyWsKeepsClient == <<Drop("connected")>>

(* doubao_ws_destroy: the flag falls before the client's task is stopped. *)
DestroyWs == <<Drop("connected"), StopWs>>

(* Mutant: a state the enumeration does not have. *)
ReconnectElsewhere == DestroyWs \o <<Enter("DISCONNECTED")>>

Reconnect == DestroyWs \o <<Enter("CONNECTING")>>

Ready == <<Raise("wakenet"), Enter("CONNECTED_IDLE")>>

(* The three error paths of the CONNECTING branch show CONNECTED_IDLE for  *)
(* three seconds and go back to CONNECTING.                                *)
RetryConnect == Ready \o <<Delay, Enter("CONNECTING")>>

ButtonStarts == <<Drop("wakenet"), Enter("HANDSHAKING"), Delay>>

GreetServer == <<Delay, Drop("hello_done"), Raise("active"), Send("SayHello")>>

StartListening ==
  << Clear({"capture"}), Drop("wakenet"), Raise("streaming"), Enter("LISTENING") >>

ButtonEnds ==
  << Drop("streaming"), Send("FinishSession"), Delay, Drop("active"),
     Raise("wakenet"), Enter("CONNECTED_IDLE"), Delay >>

LeaveDeadSession ==
  <<Drop("streaming"), Raise("wakenet"), Enter("CONNECTED_IDLE")>>

=============================================================================
