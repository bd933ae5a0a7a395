------------------------------ MODULE DialogFsm ------------------------------
(***************************************************************************)
(* The dialog of the speaker (main/app_main.c): three tasks that change    *)
(* the same globals without a lock,                                        *)
(*                                                                         *)
(*   fsm  main_fsm_task, the polling state machine;                        *)
(*   ws   the task of esp_websocket_client, which runs ws_event_handler    *)
(*        and, inside it, on_ws_receive;                                   *)
(*   afe  afe_fetch_task, which runs on_wake_word;                         *)
(*                                                                         *)
(* and the network and the dialog server they talk to.  A task decides in  *)
(* one step (it reads the globals its condition names) and then runs the   *)
(* script of that branch (AppHandlers) one operation per step.  Time is    *)
(* not counted, but it passes (a vTaskDelay or a timeout ends) only when   *)
(* every other task waits too: the statements between two waits take       *)
(* microseconds, the waits hundreds of milliseconds.  The FSM's 50 ms      *)
(* pause between two polls is the gap between two of its steps.            *)
(***************************************************************************)
EXTENDS AppHandlers, Naturals

CONSTANTS
  MaxInFlight,  (* bound: messages the server has sent and ws has not read *)
  MaxOutside    (* bound: button presses, wake words, broken connections,  *)
                (* failed connects and endings or errors from the server   *)

ASSUME InFlightAssumption == MaxInFlight \in Nat \ {0}
ASSUME OutsideAssumption == MaxOutside \in Nat

VARIABLES
  app,      (* g_app_state                                                 *)
  flags,    (* the boolean globals that are true                           *)
  todo,     (* task -> the operations it has still to do                   *)
  pc,       (* where main_fsm_task is when todo["fsm"] is empty            *)
  booted,   (* app_main has made its own set_app_state(CONNECTING)         *)
  link,     (* ws_handle: "none", or the state of its TCP connection: "up", *)
            (* "broken" and not yet noticed, "waiting" to be opened again, *)
            (* or "opening" again                                             *)
  server,   (* the dialog server's side of that connection                 *)
  net,      (* server messages on their way                                *)
  stale,    (* ws is handling a message of an earlier session              *)
  tts,      (* whose speech playback_rb and the decoder hold               *)
  outside   (* how many of the outside events MaxOutside bounds are left   *)

vars == <<app, flags, todo, pc, booted, link, server, net, stale, tts, outside>>

Task == {"fsm", "ws", "afe"}

FsmPc == {"top", "switch", "connecting", "connect", "start_connection", "idle",
          "handshake", "start_session", "hello", "talk", "talk_check", "ended"}

(* What the server sends that changes state: "audio" is an ACK with Ogg    *)
(* data, "exit" a TTS-ended event with status 20000002, "finished" events  *)
(* 152 and 153.                                                            *)
Event == {"audio", "clear_cache", "query_end", "tts_ended", "exit",
          "finished", "recoverable", "fatal"}

Message == [event : Event, old : BOOLEAN]

(* origin: opened by doubao_ws_connect ("fresh"), or by the client's own   *)
(* reconnection ("auto").  turn: who speaks.                               *)
Server == [origin  : {"fresh", "auto"},
           started : BOOLEAN,
           session : {"none", "open", "closing"},
           turn    : {"silent", "query", "reply"}]

NewServer(origin) ==
  [origin |-> origin, started |-> FALSE, session |-> "none", turn |-> "silent"]

TypeOK ==
  /\ app \in AppState
  /\ flags \in SUBSET Flag
  /\ todo \in [Task -> Seq(Op)]
  /\ pc \in FsmPc
  /\ booted \in BOOLEAN
  /\ link \in {"none", "up", "broken", "waiting", "opening"}
  /\ server \in Server
  /\ net \in Seq(Message)
  /\ Len(net) <= MaxInFlight + 1
  /\ stale \in BOOLEAN
  /\ tts \in SUBSET {"current", "old"}
  /\ outside \in 0..MaxOutside

Init ==
  /\ app = "IDLE"
  /\ flags = {"running", "wakenet"}
  /\ todo = [t \in Task |-> <<>>]
  /\ pc = "top"
  /\ booted = FALSE
  /\ link = "none"
  /\ server = NewServer("fresh")
  /\ net = <<>>
  /\ stale = FALSE
  /\ tts = {}
  /\ outside = MaxOutside

-----------------------------------------------------------------------------
(* The server and the network *)

Spend == outside > 0 /\ outside' = outside - 1

Connected == "connected" \in flags

(* What the server makes of a command that reaches it. *)
TakeStartConnection == server' = [server EXCEPT !.started = TRUE]

(* A session supersedes the one before: its close, if still due, is sent   *)
(* first, and everything already on its way belongs to the old session.    *)
TakeStartSession ==
  LET due == IF server.session = "closing"
             THEN Append(net, [event |-> "finished", old |-> FALSE]) ELSE net
  IN  /\ Len(net) <= MaxInFlight
      /\ server' = IF server.started
                   THEN [server EXCEPT !.session = "open", !.turn = "silent"]
                   ELSE server
      /\ net' = [i \in DOMAIN due |-> [due[i] EXCEPT !.old = TRUE]]
      /\ tts' = IF tts = {} THEN {} ELSE {"old"}

TakeIgnored(cmd) ==
  server' = IF server.session # "open" THEN server
            ELSE IF cmd = "FinishSession" THEN [server EXCEPT !.session = "closing"]
            ELSE [server EXCEPT !.turn = "reply"]

(* send_command fails without the flag or the connection; on a connection  *)
(* that has just broken it may also report success for bytes that are lost. *)
SendDelivers == Connected /\ link = "up"
SendIsLost   == Connected /\ link = "broken"
SendFails    == ~Connected \/ link # "up"

(* Which events each state of the conversation can bring, and what follows. *)
ServerSays(event) ==
  /\ link = "up"
  /\ server.session = "open"
  /\ Len(net) < MaxInFlight
  /\ net' = Append(net, [event |-> event, old |-> FALSE])
  /\ \/ /\ event = "audio" /\ server.turn = "reply"
        /\ UNCHANGED server
     \/ /\ event = "clear_cache"
        /\ server' = [server EXCEPT !.turn = "query"]
     \/ /\ event = "query_end" /\ server.turn = "query"
        /\ server' = [server EXCEPT !.turn = "reply"]
     \/ /\ event \in {"tts_ended", "exit"} /\ server.turn = "reply"
        /\ server' = [server EXCEPT !.turn = "silent"]
     \/ /\ event = "recoverable"
        /\ \E s \in {"open", "none"} : server' = [server EXCEPT !.session = s]
     \/ /\ event \in {"finished", "fatal"}
        /\ server' = [server EXCEPT !.session = "none"]
  /\ IF event \in {"exit", "recoverable", "finished", "fatal"} THEN Spend
     ELSE UNCHANGED outside
  /\ UNCHANGED <<app, flags, todo, pc, booted, link, stale, tts>>

ServerCloses ==
  /\ link = "up"
  /\ server.session = "closing"
  /\ Len(net) < MaxInFlight
  /\ net' = Append(net, [event |-> "finished", old |-> FALSE])
  /\ server' = [server EXCEPT !.session = "none"]
  /\ UNCHANGED <<app, flags, todo, pc, booted, link, stale, tts, outside>>

NetDrops ==
  /\ link = "up"
  /\ link' = "broken"
  /\ net' = <<>>
  /\ server' = [server EXCEPT !.session = "none"]
  /\ Spend
  /\ UNCHANGED <<app, flags, todo, pc, booted, stale, tts>>

-----------------------------------------------------------------------------
(* Running a script, one operation at a time *)

(* t is between two runs, or in a call that blocks. *)
Waits(t) == todo[t] # <<>> => Head(todo[t]).op \in {"delay", "send", "stop"}

TimePasses(t) == \A u \in Task \ {t} : Waits(u)

Step(t, op) ==
  /\ todo[t] # <<>>
  /\ Head(todo[t]).op = op
  /\ todo' = [todo EXCEPT ![t] = Tail(@)]
  /\ UNCHANGED <<pc, booted, stale, outside>>

RaiseFlag(t) ==
  /\ Step(t, "raise")
  /\ flags' = flags \cup {Head(todo[t]).flag}
  /\ UNCHANGED <<app, link, server, net, tts>>

DropFlag(t) ==
  /\ Step(t, "drop")
  /\ flags' = flags \ {Head(todo[t]).flag}
  /\ UNCHANGED <<app, link, server, net, tts>>

SetAppState(t) ==
  /\ Step(t, "enter")
  /\ app' = Head(todo[t]).state
  /\ UNCHANGED <<flags, link, server, net, tts>>

(* capture_rb, ref_rb and the displayed text are not state of this module. *)
ClearBuffers(t) ==
  /\ Step(t, "clear")
  /\ tts' = IF "playback" \in Head(todo[t]).bufs THEN {} ELSE tts
  /\ UNCHANGED <<app, flags, link, server, net>>

SendCommand(t) ==
  /\ Step(t, "send")
  /\ \/ SendDelivers /\ TakeIgnored(Head(todo[t]).cmd)
     \/ (SendIsLost \/ SendFails) /\ UNCHANGED server
  /\ UNCHANGED <<app, flags, link, net, tts>>

(* esp_websocket_client_stop returns when the client's task is done, so it *)
(* waits for the handler that is running.                                  *)
StopClient(t) ==
  /\ Step(t, "stop")
  /\ todo["ws"] = <<>>
  /\ TimePasses(t)
  /\ link' = "none"
  /\ net' = <<>>
  /\ server' = NewServer("fresh")
  /\ UNCHANGED <<app, flags, tts>>

EndDelay(t) ==
  /\ Step(t, "delay")
  /\ TimePasses(t)
  /\ UNCHANGED <<app, flags, link, server, net, tts>>

RunScript(t) ==
  \/ EndDelay(t)
  \/ RaiseFlag(t)
  \/ DropFlag(t)
  \/ SetAppState(t)
  \/ ClearBuffers(t)
  \/ SendCommand(t)
  \/ StopClient(t)

-----------------------------------------------------------------------------
(* The WebSocket client's task *)

Free(t) == todo[t] = <<>>

WsFree == Free("ws") /\ link # "none"

(* The script on_ws_receive runs for an event. *)
HandlerOf(event) ==
  CASE event = "audio"       -> <<>>
    [] event = "clear_cache" -> OnClearCache
    [] event = "query_end"   -> OnUserQueryEnd
    [] event \in {"tts_ended", "exit"} ->
         IF "hello_done" \notin flags THEN OnHelloEnded
         ELSE IF event = "exit" THEN OnExitIntent ELSE OnTurnEnded
    [] event = "finished"    -> OnSessionFinished
    [] event = "recoverable" -> OnRecoverableError
    [] event = "fatal"       -> OnFatalError

(* on_ws_receive looks at the type and the event of a message, never at    *)
(* the session it names.                                                   *)
WsReceive ==
  /\ WsFree
  /\ net # <<>>
  /\ net' = Tail(net)
  /\ stale' = Head(net).old
  /\ todo' = [todo EXCEPT !["ws"] = HandlerOf(Head(net).event)]
  /\ tts' = IF Head(net).event # "audio" THEN tts
            ELSE tts \cup {IF Head(net).old THEN "old" ELSE "current"}
  /\ UNCHANGED <<app, flags, pc, booted, link, server, outside>>

WsDisconnected ==
  /\ WsFree
  /\ link = "broken"
  /\ link' = "waiting"
  /\ flags' = flags \ {"connected"}
  /\ UNCHANGED <<app, todo, pc, booted, server, net, stale, tts, outside>>

(* esp_websocket_client opens the connection again by itself once          *)
(* reconnect_timeout_ms, 5 s, have passed.  Only an FSM that is waiting    *)
(* for the greeting, blocked in a send, or polling the button in a state   *)
(* that never looks at the connection lets that happen: in the other       *)
(* states it sees the connection down before, and its delays are shorter.  *)
WsReopens ==
  /\ WsFree
  /\ link = "waiting"
  /\ \/ pc \in {"hello", "ended"}
     \/ app \in {"LISTENING", "SPEAKING"} /\ todo["fsm"] = <<>>
     \/ todo["fsm"] # <<>> /\ Head(todo["fsm"]).op = "send"
  /\ TimePasses("ws")
  /\ link' = "opening"
  /\ UNCHANGED <<app, flags, todo, pc, booted, server, net, stale, tts, outside>>

(* The attempt ends, whatever the other tasks did meanwhile. *)
WsReopened ==
  /\ WsFree
  /\ link = "opening"
  /\ TimePasses("ws")
  /\ \/ /\ link' = "up"
        /\ server' = NewServer("auto")
        /\ flags' = flags \cup {"connected"}
     \/ /\ link' = "waiting"
        /\ UNCHANGED <<server, flags>>
  /\ UNCHANGED <<app, todo, pc, booted, net, stale, tts, outside>>

-----------------------------------------------------------------------------
(* The AFE fetch task and the audio play task *)

WakeWord ==
  /\ Free("afe")
  /\ "wakenet" \in flags
  /\ \/ /\ app = "CONNECTED_IDLE" /\ Connected
        /\ todo' = [todo EXCEPT !["afe"] = WakeStarts]
     \/ /\ app = "SPEAKING"
        /\ todo' = [todo EXCEPT !["afe"] = WakeInterrupts]
  /\ Spend
  /\ UNCHANGED <<app, flags, pc, booted, link, server, net, stale, tts>>

PlayOut ==
  /\ "running" \in flags
  /\ tts # {}
  /\ tts' = {}
  /\ UNCHANGED <<app, flags, todo, pc, booted, link, server, net, stale, outside>>

-----------------------------------------------------------------------------
(* main_fsm_task *)

FsmAt(label) == Free("fsm") /\ pc = label

(* Run a script, then continue at a label. *)
FsmRun(script, label) ==
  /\ todo' = [todo EXCEPT !["fsm"] = script]
  /\ pc' = label

FsmOnly == UNCHANGED <<app, flags, booted, link, server, net, stale, tts>>

FsmDecides == FsmOnly /\ UNCHANGED outside

(* button_pressed(): the user may hold the button down or not. *)
PollButton(script, label) ==
  \/ FsmRun(<<>>, label) /\ UNCHANGED outside
  \/ FsmRun(script, label) /\ Spend

(* Mutant: the barge-in request is only read in SPEAKING. *)
FsmLoopForgetsBargeIn ==
  /\ FsmAt("top")
  /\ IF "running" \notin flags THEN FsmRun(<<>>, "ended")
     ELSE FsmRun(IF "bargein" \in flags /\ app = "SPEAKING" THEN BargeIn ELSE <<>>,
                 "switch")
  /\ FsmDecides

FsmLoop ==
  /\ FsmAt("top")
  /\ IF "running" \notin flags THEN FsmRun(<<>>, "ended")
     ELSE FsmRun(IF "bargein" \in flags THEN BargeIn ELSE <<>>, "switch")
  /\ FsmDecides

FsmSwitch ==
  /\ FsmAt("switch")
  /\ \/ app = "IDLE" /\ FsmRun(<<Enter("CONNECTING")>>, "top")
     \/ app = "CONNECTING" /\ FsmRun(<<Drop("wakenet")>>, "connecting")
     \/ app = "CONNECTED_IDLE" /\ FsmRun(<<>>, "idle")
     \/ app = "HANDSHAKING" /\ FsmRun(<<>>, "handshake")
     \/ app \in {"LISTENING", "SPEAKING"} /\ FsmRun(<<>>, "talk")
  /\ FsmDecides

FsmConnecting ==
  /\ FsmAt("connecting")
  /\ IF Connected THEN FsmRun(Ready, "top")
     ELSE FsmRun(IF link = "none" THEN <<>> ELSE DestroyWs, "connect")
  /\ FsmDecides

(* doubao_ws_init and doubao_ws_connect: the new handle is up, or either   *)
(* call failed and nothing of it is left after the clean-up.  app_main's   *)
(* own transition, 50 ms after this task's first, is past by then.         *)
FsmConnect ==
  /\ FsmAt("connect")
  /\ booted
  /\ TimePasses("fsm")
  /\ \/ /\ FsmRun(<<>>, "start_connection")
        /\ link' = "up"
        /\ server' = NewServer("fresh")
        /\ flags' = flags \cup {"connected"}
        /\ UNCHANGED outside
     \/ /\ Spend
        /\ \E cleanUp \in {<<>>, DestroyWs} : FsmRun(cleanUp \o RetryConnect, "top")
        /\ UNCHANGED <<link, server, flags>>
  /\ UNCHANGED <<app, booted, net, stale, tts>>

(* Mutant: ready without StartConnection. *)
FsmStartConnectionSkipped ==
  /\ FsmAt("start_connection")
  /\ FsmRun(Ready, "top")
  /\ FsmDecides

FsmStartConnection ==
  /\ FsmAt("start_connection")
  /\ \/ SendDelivers /\ TakeStartConnection /\ FsmRun(Ready, "top")
     \/ SendIsLost /\ FsmRun(Ready, "top") /\ UNCHANGED server
     \/ SendFails /\ FsmRun(DestroyWs \o RetryConnect, "top") /\ UNCHANGED server
  /\ UNCHANGED <<app, flags, booted, link, net, stale, tts, outside>>

(* Mutant: only the button is polled. *)
FsmIdleIgnoresConnection ==
  /\ FsmAt("idle")
  /\ PollButton(ButtonStarts, "top")
  /\ FsmOnly

FsmIdle ==
  /\ FsmAt("idle")
  /\ IF Connected THEN PollButton(ButtonStarts, "top")
     ELSE FsmRun(Reconnect, "top") /\ UNCHANGED outside
  /\ FsmOnly

(* The displayed text this branch clears is not state of this module. *)
FsmHandshake ==
  /\ FsmAt("handshake")
  /\ IF ~Connected THEN FsmRun(Reconnect, "top")
     ELSE FsmRun(<<>>, "start_session")
  /\ FsmDecides

FsmStartSession ==
  /\ FsmAt("start_session")
  /\ \/ SendDelivers /\ TakeStartSession /\ FsmRun(GreetServer, "hello")
     \/ SendIsLost /\ FsmRun(GreetServer, "hello") /\ UNCHANGED <<server, net, tts>>
     \/ SendFails /\ FsmRun(Ready, "top") /\ UNCHANGED <<server, net, tts>>
  /\ UNCHANGED <<app, flags, booted, link, stale, outside>>

(* Mutant: the wait for the greeting has no time limit. *)
FsmHelloWithoutTimeout ==
  /\ FsmAt("hello")
  /\ "hello_done" \in flags
  /\ FsmRun(StartListening, "top")
  /\ FsmDecides

(* The greeting's end, ten seconds, or g_running going down: whichever     *)
(* ends the wait, what follows is the same.                                *)
FsmHello ==
  /\ FsmAt("hello")
  /\ "hello_done" \in flags \/ TimePasses("fsm")
  /\ FsmRun(StartListening, "top")
  /\ FsmDecides

FsmTalk ==
  /\ FsmAt("talk")
  /\ PollButton(ButtonEnds, "talk_check")
  /\ FsmOnly

(* Mutant: a dead session is only left in LISTENING. *)
FsmTalkCheckListening ==
  /\ FsmAt("talk_check")
  /\ FsmRun(IF "active" \notin flags /\ app = "LISTENING"
            THEN LeaveDeadSession ELSE <<>>, "top")
  /\ FsmDecides

FsmTalkCheck ==
  /\ FsmAt("talk_check")
  /\ FsmRun(IF "active" \notin flags /\ app # "CONNECTED_IDLE"
            THEN LeaveDeadSession ELSE <<>>, "top")
  /\ FsmDecides

FsmStep ==
  \/ RunScript("fsm")
  \/ FsmLoop \/ FsmSwitch \/ FsmConnecting \/ FsmConnect \/ FsmStartConnection
  \/ FsmIdle \/ FsmHandshake \/ FsmStartSession \/ FsmHello
  \/ FsmTalk \/ FsmTalkCheck

(* app_main creates the tasks, waits 100 ms and sets the state itself. *)
Boot ==
  /\ ~booted
  /\ booted' = TRUE
  /\ app' = "CONNECTING"
  /\ UNCHANGED <<flags, todo, pc, link, server, net, stale, tts, outside>>

-----------------------------------------------------------------------------
WsStep == RunScript("ws") \/ WsReceive \/ WsDisconnected

Environment ==
  \/ \E event \in Event : ServerSays(event)
  \/ ServerCloses
  \/ NetDrops
  \/ WsReopens
  \/ WsReopened
  \/ WakeWord
  \/ PlayOut

Next ==
  \/ FsmStep
  \/ WsStep
  \/ RunScript("afe")
  \/ Boot
  \/ Environment

(* FreeRTOS gives every ready task time, and every wait of a script ends:  *)
(* stop waits for a handler, and handlers end; a delay or a timeout passes *)
(* however often other tasks run meanwhile, hence strong fairness.         *)
(* Nothing is asked of the server, the network, the user or the speech.    *)
Fairness ==
  /\ SF_vars(FsmStep)
  /\ SF_vars(WsStep)
  /\ WF_vars(RunScript("afe"))
  /\ WF_vars(Boot)

Spec == Init /\ [][Next]_vars /\ Fairness

-----------------------------------------------------------------------------
(* Properties *)

(* Every StartSession that reaches the server on a connection              *)
(* doubao_ws_connect opened finds StartConnection already sent on it, with *)
(* any order of drops, failed connects, wake words and server events: the  *)
(* order the comment on APP_STATE_HANDSHAKING relies on.                   *)
FreshSessionIsStarted ==
  (FsmAt("start_session") /\ SendDelivers /\ server.origin = "fresh")
    => server.started

(* The same for the connections esp_websocket_client opens by itself after *)
(* a drop, which no code path greets with a StartConnection.               *)
SessionIsStarted ==
  (FsmAt("start_session") /\ SendDelivers) => server.started

(* doubao_ws_init clears the client structure without looking at it.  When *)
(* the FSM gets there no earlier connection is left in it, whichever of    *)
(* the paths to CONNECTING it took: nothing is overwritten and leaked.     *)
NoClientIsOverwritten == FsmAt("connect") => link = "none"

AtRest == \A t \in Task : todo[t] = <<>>

(* Check if connected (doubao_ws_client.h:78): the client that is connected *)
(* exists.  CONNECTING trusts the flag ("Already connected",               *)
(* app_main.c:663-666) and does not open a connection then.                *)
ConnectedHasClient == AtRest /\ Connected => link # "none"

(* Between two handlers the state the user sees is the state the front end *)
(* is in: listening has the microphone streaming and the wake word off,    *)
(* speaking has the microphone off and the wake word on (barge-in), ready  *)
(* has the wake word on.                                                   *)
ModeMatchesState ==
  AtRest =>
    /\ app = "LISTENING" => "streaming" \in flags /\ "wakenet" \notin flags
    /\ app = "SPEAKING" => "streaming" \notin flags /\ "wakenet" \in flags
    /\ app = "CONNECTED_IDLE" => "wakenet" \in flags

(* Ready waits for the wake word or the button (app_main.c:37): at rest it *)
(* has the wake word on.                                                   *)
ReadyHearsWakeWord == AtRest /\ app = "CONNECTED_IDLE" => "wakenet" \in flags

(* A device that shows itself ready between two polls has no session it    *)
(* believes active: whichever of the six paths ended it cleared the flag.  *)
ReadyHasNoSession ==
  AtRest /\ pc = "top" /\ app = "CONNECTED_IDLE" => "active" \notin flags

(* A message of a session that is over does not move the state machine of  *)
(* the session after it ("Session ID filtering", BOX3DESIGN.md:14).        *)
StaleEventsAreIgnored ==
  [][stale /\ todo'["ws"] # todo["ws"] /\ todo["ws"] # <<>> => app' = app]_vars

Running == "running" \in flags

(* LISTENING or SPEAKING without a session does not last: whoever ended it *)
(* (the server, an error, a race with the button), the FSM goes on.        *)
DeadSessionIsLeft ==
  (app \in {"LISTENING", "SPEAKING"} /\ "active" \notin flags /\ Running)
    ~> (app \notin {"LISTENING", "SPEAKING"} \/ "active" \in flags \/ ~Running)

(* A handshake ends, even when neither the greeting nor the connection     *)
(* survives it.                                                            *)
HandshakeEnds == (app = "HANDSHAKING" /\ Running) ~> (app # "HANDSHAKING" \/ ~Running)

(* A device that has lost its connection while it shows that it waits for  *)
(* the user does not go on showing it: it connects again, or the client    *)
(* has done so, or a handshake that was still under way takes the state    *)
(* on.                                                                     *)
LostConnectionIsNoticed ==
  (app = "CONNECTED_IDLE" /\ ~Connected /\ Running)
    ~> (Connected \/ app # "CONNECTED_IDLE" \/ ~Running)

(* A barge-in request is taken up.                                         *)
BargeInIsServed == ("bargein" \in flags /\ Running) ~> ("bargein" \notin flags \/ ~Running)

=============================================================================
