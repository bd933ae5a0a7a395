------------------------------- MODULE Device -------------------------------
(***************************************************************************)
(* The device from power-up: Startup brings up the network and the tasks,  *)
(* and once they run main_fsm_task keeps the client of WsClient connected  *)
(* over a network that comes and goes.                                     *)
(***************************************************************************)
EXTENDS Startup, WsClient

CONSTANT MaxOutside  (* bound: what fails, is lost, or is received *)

ASSUME OutsideAssumption == MaxOutside \in Nat

VARIABLE outside     (* how many of them are left *)

vars == <<bootVars, clientVars, outside>>

TypeOK ==
  /\ BootTypeOK
  /\ ClientTypeOK
  /\ outside \in 0..MaxOutside

Init == BootInit /\ ClientInit /\ outside = MaxOutside

-----------------------------------------------------------------------------
Spend == outside > 0 /\ outside' = outside - 1

Runs(t) == t \in tasks /\ crash = "none"

BootOnly == UNCHANGED clientVars

ClientOnly == UNCHANGED bootVars

(* app_main's last call, 50 ms after main_fsm_task's first poll: connect   *)
(* does not return before, because a TLS handshake takes longer.           *)
AppMainStep ==
  /\ AppMain
  /\ IF boot = "settle" THEN AppMainConnects ELSE BootOnly
  /\ IF boot' = "stopped" THEN Spend ELSE UNCHANGED outside

BootFails == Resets /\ BootOnly /\ Spend

NetworkStep == WifiEvents /\ BootOnly /\ UNCHANGED outside

NetworkChanges == ReachChanges /\ BootOnly /\ Spend

TasksStep == TasksStart /\ BootOnly /\ UNCHANGED outside

FsmStep ==
  /\ Runs("main_fsm")
  /\ fsm = "wait" => boot = "done"
  /\ FsmWorks
  /\ ClientOnly /\ UNCHANGED outside

FsmFailure ==
  /\ Runs("main_fsm")
  /\ fsm = "wait" => boot = "done"
  /\ FsmFails
  /\ ClientOnly /\ Spend

UserStep == Runs("main_fsm") /\ DialogGoesOn /\ ClientOnly /\ Spend

(* A connection needs the network; one that has it fails as often as the   *)
(* bound allows.                                                           *)
Dials == wifi = "up" /\ TaskConnects /\ ClientOnly /\ UNCHANGED outside

Disconnects ==
  /\ TaskDisconnects
  /\ ClientOnly
  /\ IF wifi = "up" THEN Spend ELSE UNCHANGED outside

DialsAgain == TaskDialsAgain /\ ClientOnly /\ UNCHANGED outside

Receives == TaskReceives /\ ClientOnly /\ Spend

Handles == TaskHandles /\ ClientOnly /\ UNCHANGED outside

TxStep ==
  /\ Runs("ws_tx")
  /\ TxSends \/ TxReturns
  /\ ClientOnly /\ UNCHANGED outside

Next ==
  \/ AppMainStep \/ BootFails \/ NetworkStep \/ NetworkChanges \/ TasksStep
  \/ FsmStep \/ FsmFailure \/ UserStep
  \/ Dials \/ Disconnects \/ DialsAgain \/ Receives \/ Handles
  \/ TxStep

(* FreeRTOS runs every ready task and the WiFi and TCP timeouts end; a     *)
(* dialing client is in the end connected or refused.                      *)
Fairness ==
  /\ WF_vars(AppMainStep)
  /\ WF_vars(NetworkStep)
  /\ WF_vars(TasksStep)
  /\ SF_vars(FsmStep)
  /\ WF_vars(Dials \/ Disconnects)
  /\ WF_vars(DialsAgain)
  /\ WF_vars(Handles)
  /\ WF_vars(TxStep)

Spec == Init /\ [][Next]_vars /\ Fairness

-----------------------------------------------------------------------------
(* Properties *)

(* Nothing brings these devices back but the user's reset: app_main has    *)
(* returned early, xTaskCreate has failed for main_fsm_task, the event     *)
(* handler has given up, a block was used after it was freed, or the       *)
(* connected flag was raised while the client was being destroyed (the     *)
(* zombie of DialogFsm's ConnectedHasClient).                              *)
Lost ==
  \/ boot = "stopped"
  \/ boot = "done" /\ "main_fsm" \notin tasks
  \/ wifi = "given_up" /\ boot \notin {"wifi_wait", "wifi_failed"}
  \/ crash # "none"
  \/ connected /\ client["ws_handle"] = "null" /\ fsm = "top"

(* A device whose access point is in reach for good ends up connected to   *)
(* the dialog server for good: through restarts, failed allocations, lost  *)
(* networks and lost connections, in any state of the boot, of the client  *)
(* and of the dialog, no wait of app_main or of the FSM is for an event    *)
(* that has passed.                                                        *)
EndsUpConnected == <>[]reach => <>[](Lost \/ (connected /\ task \in {"up", "handling"}))

=============================================================================
