------------------------------ MODULE WsClient ------------------------------
(***************************************************************************)
(* What a doubao_ws_client_t owns (main/doubao_ws_client.c) and the three  *)
(* tasks that use it without a lock:                                       *)
(*                                                                         *)
(*   fsm   main_fsm_task, which initialises, connects and destroys it;     *)
(*   task  the task esp_websocket_client_start creates, which runs         *)
(*         ws_event_handler;                                               *)
(*   tx    ws_tx_task, which sends audio with it.                          *)
(*                                                                         *)
(* A block of memory is a name; heap counts how often it is allocated, and *)
(* client says what the structure's pointer to it is worth.  What is said  *)
(* over the connection is in DialogFsm, what is received in WsReassembly.  *)
(***************************************************************************)
EXTENDS Naturals

VARIABLES
  client,    (* the pointers of g_ws_client                                *)
  heap,      (* how many of each block are allocated                       *)
  connected, (* client->connected                                          *)
  bits,      (* the bits of client->event_group connect waits for          *)
  task,      (* the client's own task: "none", "dialing", "up", "handling" *)
             (* a message, or "down" until it dials again                  *)
  fsm,       (* where main_fsm_task is                                     *)
  resume,    (* what follows the doubao_ws_destroy that is running         *)
  tx,        (* ws_tx_task is between two sends or inside one              *)
  app,       (* g_app_state; LISTENING stands for SPEAKING too             *)
  no_group,  (* xEventGroupCreate has failed once                          *)
  crash      (* the use of a block that is gone, if one happened           *)

clientVars == <<client, heap, connected, bits, task, fsm, resume, tx, app, no_group, crash>>

Block == {"recv_buf", "event_group", "ws_handle"}

Bit == {"CONNECTED", "DISCONNECTED"}

(* "stop", "free" and "delete" are inside doubao_ws_destroy.               *)
FsmPc == {"top", "init", "connect", "wait", "abort", "start_connection",
          "destroy", "stop", "free", "delete", "retry"}

ClientTypeOK ==
  /\ client \in [Block -> {"null", "held", "freed"}]
  /\ heap \in [Block -> Nat]
  /\ connected \in BOOLEAN
  /\ bits \in SUBSET Bit
  /\ task \in {"none", "dialing", "up", "handling", "down"}
  /\ fsm \in FsmPc
  /\ resume \in {"init", "retry", "reconnect"}
  /\ tx \in {"idle", "sending"}
  /\ app \in {"IDLE", "CONNECTING", "CONNECTED_IDLE", "HANDSHAKING", "LISTENING"}
  /\ no_group \in BOOLEAN
  /\ crash \in {"none", "double_free", "send", "event"}

ClientInit ==
  /\ client = [b \in Block |-> "null"]
  /\ heap = [b \in Block |-> 0]
  /\ connected = FALSE
  /\ bits = {}
  /\ task = "none"
  /\ fsm = "top"
  /\ resume = "init"
  /\ tx = "idle"
  /\ app = "IDLE"
  /\ no_group = FALSE
  /\ crash = "none"

-----------------------------------------------------------------------------
(* main_fsm_task: where it looks at the client *)

Owns(b) == client[b] = "held"

FsmAt(label) == crash = "none" /\ fsm = label

Destroy(then) == fsm' = "destroy" /\ resume' = then

KeepsClient == UNCHANGED <<client, heap, connected, bits, task, no_group, crash>>

FsmLeavesIdle ==
  /\ FsmAt("top") /\ app = "IDLE"
  /\ app' = "CONNECTING"
  /\ KeepsClient /\ UNCHANGED <<fsm, resume, tx>>

(* The connection is there already. *)
FsmFindsConnection ==
  /\ FsmAt("top") /\ app = "CONNECTING" /\ connected
  /\ app' = "CONNECTED_IDLE"
  /\ KeepsClient /\ UNCHANGED <<fsm, resume, tx>>

NeedsCleanup == \E b \in Block : client[b] # "null"

FsmBeginsToConnect ==
  /\ FsmAt("top") /\ app = "CONNECTING" /\ ~connected
  /\ \/ NeedsCleanup /\ Destroy("init")
     \/ ~NeedsCleanup /\ fsm' = "init" /\ UNCHANGED resume
  /\ KeepsClient /\ UNCHANGED <<tx, app>>

(* CONNECTED_IDLE and HANDSHAKING look at the connection. *)
FsmLosesConnection ==
  /\ FsmAt("top") /\ app \in {"CONNECTED_IDLE", "HANDSHAKING"} /\ ~connected
  /\ Destroy("reconnect")
  /\ KeepsClient /\ UNCHANGED <<tx, app>>

(* The button, the wake word, StartSession, the end of a session: DialogFsm. *)
DialogGoesOn ==
  /\ FsmAt("top")
  /\ \/ app = "CONNECTED_IDLE" /\ connected /\ app' = "HANDSHAKING"
     \/ app = "HANDSHAKING" /\ connected /\ app' \in {"CONNECTED_IDLE", "LISTENING"}
     \/ app = "LISTENING" /\ app' = "CONNECTED_IDLE"
  /\ KeepsClient /\ UNCHANGED <<fsm, resume, tx>>

-----------------------------------------------------------------------------
(* doubao_ws_init *)

InitClient ==
  /\ FsmAt("init")
  /\ client' = [client EXCEPT !["recv_buf"] = "held", !["event_group"] = "held",
                              !["ws_handle"] = "null"]
  /\ heap' = [heap EXCEPT !["recv_buf"] = @ + 1, !["event_group"] = @ + 1]
  /\ connected' = FALSE
  /\ bits' = {}
  /\ fsm' = "connect"
  /\ UNCHANGED <<task, resume, tx, app, no_group, crash>>

(* The failures leave ws_handle and event_group NULL.  recv_buf, already   *)
(* freed in the second, keeps its address.                                 *)
InitFails ==
  /\ FsmAt("init")
  /\ \/ /\ client' = [b \in Block |-> "null"]
        /\ UNCHANGED no_group
     \/ /\ client' = [[b \in Block |-> "null"] EXCEPT !["recv_buf"] = "freed"]
        /\ no_group' = TRUE
  /\ connected' = FALSE
  /\ fsm' = "retry"
  /\ app' = "CONNECTED_IDLE"
  /\ UNCHANGED <<heap, bits, task, resume, tx, crash>>

-----------------------------------------------------------------------------
(* doubao_ws_connect and doubao_ws_start_connection *)

OpenHandle ==
  /\ FsmAt("connect")
  /\ client' = [client EXCEPT !["ws_handle"] = "held"]
  /\ heap' = [heap EXCEPT !["ws_handle"] = @ + 1]
  /\ task' = "dialing"
  /\ fsm' = "wait"
  /\ UNCHANGED <<connected, bits, resume, tx, app, no_group, crash>>

(* esp_websocket_client_init or _start fails; the second one's handle is   *)
(* destroyed again.                                                        *)
OpenHandleFails ==
  /\ FsmAt("connect")
  /\ Destroy("retry")
  /\ KeepsClient /\ UNCHANGED <<tx, app>>

(* xEventGroupWaitBits clears the bits it has waited for. *)
WaitEnds ==
  /\ FsmAt("wait")
  /\ bits # {}
  /\ fsm' = IF "CONNECTED" \in bits THEN "start_connection" ELSE "abort"
  /\ bits' = {}
  /\ UNCHANGED <<client, heap, connected, task, resume, tx, app, no_group, crash>>

(* Fifteen seconds. *)
WaitTimesOut ==
  /\ FsmAt("wait")
  /\ bits = {}
  /\ fsm' = "abort"
  /\ UNCHANGED <<client, heap, connected, bits, task, resume, tx, app, no_group, crash>>

(* Mutant: the handle is forgotten, not destroyed. *)
DropHandleOnly ==
  /\ client' = [client EXCEPT !["ws_handle"] = "null"]
  /\ task' = "none"
  /\ UNCHANGED <<heap, crash>>

(* esp_websocket_client_stop and _destroy, and ws_handle = NULL.  A send   *)
(* that is inside the handle then goes on with what is freed.              *)
DestroyHandle ==
  /\ client' = [client EXCEPT !["ws_handle"] = "null"]
  /\ heap' = [heap EXCEPT !["ws_handle"] = @ - 1]
  /\ task' = "none"
  /\ crash' = IF tx = "sending" THEN "send" ELSE crash

(* esp_websocket_client_stop returns when the client's task has ended, so  *)
(* it waits for the handler that is running.                               *)
MayStop == task # "handling"

AbortConnect ==
  /\ FsmAt("abort")
  /\ MayStop
  /\ DestroyHandle
  /\ Destroy("retry")
  /\ UNCHANGED <<connected, bits, tx, app, no_group>>

StartConnection ==
  /\ FsmAt("start_connection")
  /\ \/ /\ connected /\ task \in {"up", "handling"}
        /\ fsm' = "top" /\ app' = "CONNECTED_IDLE" /\ UNCHANGED resume
     \/ ~(connected /\ task \in {"up", "handling"}) /\ Destroy("retry") /\ UNCHANGED app
  /\ KeepsClient /\ UNCHANGED tx

(* The three failures show CONNECTED_IDLE for three seconds. *)
RetryEnds ==
  /\ FsmAt("retry")
  /\ app' = "CONNECTING"
  /\ fsm' = "top"
  /\ KeepsClient /\ UNCHANGED <<resume, tx>>

-----------------------------------------------------------------------------
(* doubao_ws_destroy *)

DestroyBegins ==
  /\ FsmAt("destroy")
  /\ connected' = FALSE
  /\ bits' = IF Owns("event_group") THEN Bit ELSE bits
  /\ fsm' = "stop"
  /\ UNCHANGED <<client, heap, task, resume, tx, app, no_group, crash>>

(* Mutant: the buffer goes before the task that fills it has ended. *)
DestroyStopsWithoutWaiting ==
  /\ FsmAt("stop")
  /\ \/ Owns("ws_handle") /\ task # "handling" /\ DestroyHandle
     \/ /\ ~Owns("ws_handle") \/ task = "handling"
        /\ UNCHANGED <<client, heap, task, crash>>
  /\ fsm' = "free"
  /\ UNCHANGED <<connected, bits, resume, tx, app, no_group>>

(* Mutant: the handle is destroyed whether there is one or not. *)
DestroyStopsAnyway ==
  /\ FsmAt("stop")
  /\ MayStop
  /\ DestroyHandle
  /\ fsm' = "free"
  /\ UNCHANGED <<connected, bits, resume, tx, app, no_group>>

DestroyStops ==
  /\ FsmAt("stop")
  /\ \/ Owns("ws_handle") /\ MayStop /\ DestroyHandle
     \/ ~Owns("ws_handle") /\ UNCHANGED <<client, heap, task, crash>>
  /\ fsm' = "free"
  /\ UNCHANGED <<connected, bits, resume, tx, app, no_group>>

DestroyFrees ==
  /\ FsmAt("free")
  /\ client' = [client EXCEPT !["recv_buf"] = "null"]
  /\ heap' = [heap EXCEPT !["recv_buf"] = IF Owns("recv_buf") THEN @ - 1 ELSE @]
  /\ crash' = IF client["recv_buf"] = "freed" THEN "double_free" ELSE crash
  /\ fsm' = "delete"
  /\ UNCHANGED <<connected, bits, task, resume, tx, app, no_group>>

(* Ten milliseconds later. *)
DestroyDeletes ==
  /\ FsmAt("delete")
  /\ client' = [client EXCEPT !["event_group"] = "null"]
  /\ heap' = [heap EXCEPT !["event_group"] = IF Owns("event_group") THEN @ - 1 ELSE @]
  /\ fsm' = CASE resume = "init" -> "init" [] resume = "retry" -> "retry"
              [] resume = "reconnect" -> "top"
  /\ app' = CASE resume = "init" -> app [] resume = "retry" -> "CONNECTED_IDLE"
              [] resume = "reconnect" -> "CONNECTING"
  /\ UNCHANGED <<connected, bits, task, resume, tx, no_group, crash>>

-----------------------------------------------------------------------------
(* The client's task, in ws_event_handler *)

KeepsFsm == UNCHANGED <<client, heap, fsm, resume, tx, no_group>>

(* Every event uses the client structure. *)
UsesClient(blocks) ==
  crash' = IF \A b \in blocks : Owns(b) THEN crash ELSE "event"

TaskConnects ==
  /\ crash = "none"
  /\ task = "dialing"
  /\ task' = "up"
  /\ connected' = TRUE
  /\ bits' = bits \cup {"CONNECTED"}
  /\ UsesClient({"event_group"})
  /\ KeepsFsm /\ UNCHANGED app

(* A failed attempt, or a connection that is lost. *)
TaskDisconnects ==
  /\ crash = "none"
  /\ task \in {"dialing", "up"}
  /\ task' = "down"
  /\ connected' = FALSE
  /\ bits' = bits \cup {"DISCONNECTED"}
  /\ UsesClient({"event_group"})
  /\ KeepsFsm /\ UNCHANGED app

(* After reconnect_timeout_ms. *)
TaskDialsAgain ==
  /\ crash = "none"
  /\ task = "down"
  /\ task' = "dialing"
  /\ KeepsFsm /\ UNCHANGED <<connected, bits, app, crash>>

TaskReceives ==
  /\ crash = "none"
  /\ task = "up"
  /\ task' = "handling"
  /\ UsesClient({"recv_buf"})
  /\ KeepsFsm /\ UNCHANGED <<connected, bits, app>>

(* on_ws_receive leaves the session, turns to the next speaker, or does    *)
(* neither; the buffer is emptied after it.                                *)
TaskHandles ==
  /\ crash = "none"
  /\ task = "handling"
  /\ task' = "up"
  /\ UsesClient({"recv_buf"})
  /\ \/ UNCHANGED app
     \/ /\ app \in {"CONNECTED_IDLE", "HANDSHAKING", "LISTENING"}
        /\ app' \in {"CONNECTED_IDLE", "LISTENING"}
  /\ KeepsFsm /\ UNCHANGED <<connected, bits>>

-----------------------------------------------------------------------------
(* ws_tx_task *)

(* send_command has seen the flag and calls esp_websocket_client_send_bin; *)
(* with a NULL handle that call returns at once.                           *)
TxSends ==
  /\ crash = "none"
  /\ tx = "idle"
  /\ app = "LISTENING" /\ connected /\ Owns("ws_handle")
  /\ tx' = "sending"
  /\ UNCHANGED <<client, heap, connected, bits, task, fsm, resume, app, no_group, crash>>

TxReturns ==
  /\ crash = "none"
  /\ tx = "sending"
  /\ tx' = "idle"
  /\ UNCHANGED <<client, heap, connected, bits, task, fsm, resume, app, no_group, crash>>

-----------------------------------------------------------------------------
FsmFails == InitFails \/ OpenHandleFails \/ WaitTimesOut

FsmWorks ==
  \/ FsmLeavesIdle \/ FsmFindsConnection \/ FsmBeginsToConnect \/ FsmLosesConnection
  \/ InitClient \/ OpenHandle \/ WaitEnds \/ AbortConnect \/ StartConnection
  \/ RetryEnds \/ DestroyBegins \/ DestroyStops \/ DestroyFrees \/ DestroyDeletes

TaskEvents == TaskReceives \/ TaskHandles

(* app_main's own set_app_state(APP_STATE_CONNECTING). *)
AppMainConnects ==
  /\ crash = "none"
  /\ fsm \in {"top", "init", "connect", "wait"}
  /\ app \in {"IDLE", "CONNECTING"}
  /\ app' = "CONNECTING"
  /\ KeepsClient /\ UNCHANGED <<fsm, resume, tx>>

ClientNext ==
  \/ FsmWorks \/ FsmFails \/ DialogGoesOn \/ AppMainConnects
  \/ TaskConnects \/ TaskDisconnects \/ TaskDialsAgain \/ TaskEvents
  \/ TxSends \/ TxReturns

ClientSpec == ClientInit /\ [][ClientNext]_clientVars

-----------------------------------------------------------------------------
(* Properties *)

(* Every block that is allocated is reachable through the structure, and   *)
(* every pointer that is not NULL (but recv_buf's after a failed           *)
(* xEventGroupCreate) is to a block that is allocated: however a connect   *)
(* fails, is aborted, lost or retried, no block is leaked and none of them *)
(* is there twice.                                                         *)
HeapIsOwned == \A b \in Block : heap[b] = IF Owns(b) THEN 1 ELSE 0

(* doubao_ws_destroy takes the blocks away in an order that never leaves   *)
(* the client's task with a handler that uses one of them; what crashes is *)
(* the second free of recv_buf after xEventGroupCreate has failed, and a   *)
(* send of ws_tx_task that lasts until the FSM has found the connection    *)
(* lost and destroys the handle.                                           *)
CrashesHaveACause ==
  /\ crash = "double_free" => no_group
  /\ crash = "send" => tx = "sending" /\ task = "none"
  /\ crash # "event"

=============================================================================
