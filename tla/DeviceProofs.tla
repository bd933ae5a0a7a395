---------------------------- MODULE DeviceProofs ----------------------------
(***************************************************************************)
(* Proofs about WsClient and Device: what the client structure owns, for   *)
(* any number of failures, restarts, lost connections and messages, and    *)
(* that the device takes no step the client's own specification does not   *)
(* allow, so that what holds of the client holds of it in the device.      *)
(* Then about Startup: what the tasks find initialised, when the event     *)
(* handler gives up, and the types of the whole.                           *)
(***************************************************************************)
EXTENDS Device, TLAPS

(* Where the FSM is tells which blocks it has: doubao_ws_init starts from  *)
(* nothing, connect from the buffer and the event group, and destroy gives *)
(* the handle back first and the event group last.  The client's task runs *)
(* only while it has all three.                                            *)
Ownership ==
  /\ task # "none" => \A b \in Block : Owns(b)
  /\ fsm = "init" => \A b \in Block : client[b] = "null"
  /\ fsm = "connect" =>
       Owns("recv_buf") /\ Owns("event_group") /\ client["ws_handle"] = "null"
  /\ fsm \in {"wait", "abort", "start_connection"} => \A b \in Block : Owns(b)
  /\ fsm \in {"free", "delete"} => client["ws_handle"] = "null"
  /\ fsm = "delete" => client["recv_buf"] = "null"
  /\ client["event_group"] # "freed" /\ client["ws_handle"] # "freed"
  /\ client["recv_buf"] = "freed" => no_group

IInv == ClientTypeOK /\ HeapIsOwned /\ CrashesHaveACause /\ Ownership

LEMMA Blocks ==
  /\ "recv_buf" \in Block /\ "event_group" \in Block /\ "ws_handle" \in Block
  /\ \A b \in Block : b = "recv_buf" \/ b = "event_group" \/ b = "ws_handle"
  BY DEF Block

LEMMA InitIsOwned == ClientInit => IInv
  <1> SUFFICES ASSUME ClientInit PROVE IInv
    OBVIOUS
  <1> USE DEF ClientInit
  <1>1. ClientTypeOK
    BY Blocks DEF ClientTypeOK, Bit, FsmPc
  <1>2. HeapIsOwned
    BY DEF HeapIsOwned, Owns
  <1>3. CrashesHaveACause /\ Ownership
    BY Blocks DEF CrashesHaveACause, Ownership, Owns
  <1>4. QED
    BY <1>1, <1>2, <1>3 DEF IInv

(* No action of the FSM, of the client's task or of ws_tx_task breaks it.  *)
LEMMA StepKeepsOwnership == IInv /\ [ClientNext]_clientVars => IInv'
  <1> SUFFICES ASSUME IInv, [ClientNext]_clientVars PROVE IInv'
    OBVIOUS
  <1> USE DEF IInv, ClientTypeOK, HeapIsOwned, CrashesHaveACause, Ownership,
              Owns, Bit, FsmPc, FsmAt
  <1>1. CASE FsmLeavesIdle
    <2>1. ClientTypeOK'
      BY <1>1, Blocks DEF FsmLeavesIdle, KeepsClient
    <2>2. HeapIsOwned' /\ CrashesHaveACause'
      BY <1>1, Blocks DEF FsmLeavesIdle, KeepsClient
    <2>3. Ownership'
      BY <1>1, Blocks DEF FsmLeavesIdle, KeepsClient
    <2>4. QED
      BY <2>1, <2>2, <2>3
  <1>2. CASE FsmFindsConnection
    <2>1. ClientTypeOK'
      BY <1>2, Blocks DEF FsmFindsConnection, KeepsClient
    <2>2. HeapIsOwned' /\ CrashesHaveACause'
      BY <1>2, Blocks DEF FsmFindsConnection, KeepsClient
    <2>3. Ownership'
      BY <1>2, Blocks DEF FsmFindsConnection, KeepsClient
    <2>4. QED
      BY <2>1, <2>2, <2>3
  <1>3. CASE FsmBeginsToConnect
    <2>1. ClientTypeOK'
      BY <1>3, Blocks DEF FsmBeginsToConnect, NeedsCleanup, Destroy, KeepsClient
    <2>2. HeapIsOwned' /\ CrashesHaveACause'
      BY <1>3, Blocks DEF FsmBeginsToConnect, NeedsCleanup, Destroy, KeepsClient
    <2>3. Ownership'
      BY <1>3, Blocks DEF FsmBeginsToConnect, NeedsCleanup, Destroy, KeepsClient
    <2>4. QED
      BY <2>1, <2>2, <2>3
  <1>4. CASE FsmLosesConnection
    <2>1. ClientTypeOK'
      BY <1>4, Blocks DEF FsmLosesConnection, Destroy, KeepsClient
    <2>2. HeapIsOwned' /\ CrashesHaveACause'
      BY <1>4, Blocks DEF FsmLosesConnection, Destroy, KeepsClient
    <2>3. Ownership'
      BY <1>4, Blocks DEF FsmLosesConnection, Destroy, KeepsClient
    <2>4. QED
      BY <2>1, <2>2, <2>3
  <1>5. CASE DialogGoesOn
    <2>1. ClientTypeOK'
      BY <1>5, Blocks DEF DialogGoesOn, KeepsClient
    <2>2. HeapIsOwned' /\ CrashesHaveACause'
      BY <1>5, Blocks DEF DialogGoesOn, KeepsClient
    <2>3. Ownership'
      BY <1>5, Blocks DEF DialogGoesOn, KeepsClient
    <2>4. QED
      BY <2>1, <2>2, <2>3
  <1>6. CASE AppMainConnects
    <2>1. ClientTypeOK'
      BY <1>6, Blocks DEF AppMainConnects, KeepsClient
    <2>2. HeapIsOwned' /\ CrashesHaveACause'
      BY <1>6, Blocks DEF AppMainConnects, KeepsClient
    <2>3. Ownership'
      BY <1>6, Blocks DEF AppMainConnects, KeepsClient
    <2>4. QED
      BY <2>1, <2>2, <2>3
  <1>7. CASE InitClient
    <2>1. ClientTypeOK'
      <3>1. client' \in [Block -> {"null", "held", "freed"}]
        BY <1>7, Blocks DEF InitClient
      <3>2. heap' \in [Block -> Nat]
        BY <1>7, Blocks DEF InitClient
      <3>3. QED
        BY <1>7, <3>1, <3>2 DEF InitClient
    <2>2. HeapIsOwned' /\ CrashesHaveACause'
      BY <1>7, Blocks DEF InitClient
    <2>3. Ownership'
      BY <1>7, Blocks DEF InitClient
    <2>4. QED
      BY <2>1, <2>2, <2>3
  <1>8. CASE InitFails
    <2>1. ClientTypeOK'
      BY <1>8, Blocks DEF InitFails
    <2>2. HeapIsOwned' /\ CrashesHaveACause'
      BY <1>8, Blocks DEF InitFails
    <2>3. Ownership'
      BY <1>8, Blocks DEF InitFails
    <2>4. QED
      BY <2>1, <2>2, <2>3
  <1>9. CASE OpenHandle
    <2>1. ClientTypeOK'
      BY <1>9, Blocks DEF OpenHandle
    <2>2. HeapIsOwned' /\ CrashesHaveACause'
      BY <1>9, Blocks DEF OpenHandle
    <2>3. Ownership'
      BY <1>9, Blocks DEF OpenHandle
    <2>4. QED
      BY <2>1, <2>2, <2>3
  <1>10. CASE OpenHandleFails
    <2>1. ClientTypeOK'
      BY <1>10, Blocks DEF OpenHandleFails, Destroy, KeepsClient
    <2>2. HeapIsOwned' /\ CrashesHaveACause'
      BY <1>10, Blocks DEF OpenHandleFails, Destroy, KeepsClient
    <2>3. Ownership'
      BY <1>10, Blocks DEF OpenHandleFails, Destroy, KeepsClient
    <2>4. QED
      BY <2>1, <2>2, <2>3
  <1>11. CASE WaitEnds
    <2>1. ClientTypeOK'
      BY <1>11, Blocks DEF WaitEnds
    <2>2. HeapIsOwned' /\ CrashesHaveACause'
      BY <1>11, Blocks DEF WaitEnds
    <2>3. Ownership'
      BY <1>11, Blocks DEF WaitEnds
    <2>4. QED
      BY <2>1, <2>2, <2>3
  <1>12. CASE WaitTimesOut
    <2>1. ClientTypeOK'
      BY <1>12, Blocks DEF WaitTimesOut
    <2>2. HeapIsOwned' /\ CrashesHaveACause'
      BY <1>12, Blocks DEF WaitTimesOut
    <2>3. Ownership'
      BY <1>12, Blocks DEF WaitTimesOut
    <2>4. QED
      BY <2>1, <2>2, <2>3
  <1>13. CASE AbortConnect
    <2>1. ClientTypeOK'
      BY <1>13, Blocks DEF AbortConnect, DestroyHandle, Destroy
    <2>2. HeapIsOwned' /\ CrashesHaveACause'
      BY <1>13, Blocks DEF AbortConnect, DestroyHandle, Destroy
    <2>3. Ownership'
      BY <1>13, Blocks DEF AbortConnect, DestroyHandle, Destroy
    <2>4. QED
      BY <2>1, <2>2, <2>3
  <1>14. CASE StartConnection
    <2>1. ClientTypeOK'
      BY <1>14, Blocks DEF StartConnection, Destroy, KeepsClient
    <2>2. HeapIsOwned' /\ CrashesHaveACause'
      BY <1>14, Blocks DEF StartConnection, Destroy, KeepsClient
    <2>3. Ownership'
      BY <1>14, Blocks DEF StartConnection, Destroy, KeepsClient
    <2>4. QED
      BY <2>1, <2>2, <2>3
  <1>15. CASE RetryEnds
    <2>1. ClientTypeOK'
      BY <1>15, Blocks DEF RetryEnds, KeepsClient
    <2>2. HeapIsOwned' /\ CrashesHaveACause'
      BY <1>15, Blocks DEF RetryEnds, KeepsClient
    <2>3. Ownership'
      BY <1>15, Blocks DEF RetryEnds, KeepsClient
    <2>4. QED
      BY <2>1, <2>2, <2>3
  <1>16. CASE DestroyBegins
    <2>1. ClientTypeOK'
      BY <1>16, Blocks DEF DestroyBegins
    <2>2. HeapIsOwned' /\ CrashesHaveACause'
      BY <1>16, Blocks DEF DestroyBegins
    <2>3. Ownership'
      BY <1>16, Blocks DEF DestroyBegins
    <2>4. QED
      BY <2>1, <2>2, <2>3
  <1>17. CASE DestroyStops
    <2>1. ClientTypeOK'
      BY <1>17, Blocks DEF DestroyStops, DestroyHandle
    <2>2. HeapIsOwned' /\ CrashesHaveACause'
      BY <1>17, Blocks DEF DestroyStops, DestroyHandle
    <2>3. Ownership'
      BY <1>17, Blocks DEF DestroyStops, DestroyHandle
    <2>4. QED
      BY <2>1, <2>2, <2>3
  <1>18. CASE DestroyFrees
    <2>1. ClientTypeOK'
      BY <1>18, Blocks DEF DestroyFrees
    <2>2. HeapIsOwned' /\ CrashesHaveACause'
      BY <1>18, Blocks DEF DestroyFrees
    <2>3. Ownership'
      BY <1>18, Blocks DEF DestroyFrees
    <2>4. QED
      BY <2>1, <2>2, <2>3
  <1>19. CASE DestroyDeletes
    <2>1. ClientTypeOK'
      BY <1>19, Blocks DEF DestroyDeletes
    <2>2. HeapIsOwned' /\ CrashesHaveACause'
      BY <1>19, Blocks DEF DestroyDeletes
    <2>3. Ownership'
      BY <1>19, Blocks DEF DestroyDeletes
    <2>4. QED
      BY <2>1, <2>2, <2>3
  <1>20. CASE TaskConnects
    <2>1. ClientTypeOK'
      BY <1>20, Blocks DEF TaskConnects, KeepsFsm, UsesClient
    <2>2. HeapIsOwned' /\ CrashesHaveACause'
      BY <1>20, Blocks DEF TaskConnects, KeepsFsm, UsesClient
    <2>3. Ownership'
      BY <1>20, Blocks DEF TaskConnects, KeepsFsm, UsesClient
    <2>4. QED
      BY <2>1, <2>2, <2>3
  <1>21. CASE TaskDisconnects
    <2>1. ClientTypeOK'
      BY <1>21, Blocks DEF TaskDisconnects, KeepsFsm, UsesClient
    <2>2. HeapIsOwned' /\ CrashesHaveACause'
      BY <1>21, Blocks DEF TaskDisconnects, KeepsFsm, UsesClient
    <2>3. Ownership'
      BY <1>21, Blocks DEF TaskDisconnects, KeepsFsm, UsesClient
    <2>4. QED
      BY <2>1, <2>2, <2>3
  <1>22. CASE TaskDialsAgain
    <2>1. ClientTypeOK'
      BY <1>22, Blocks DEF TaskDialsAgain, KeepsFsm
    <2>2. HeapIsOwned' /\ CrashesHaveACause'
      BY <1>22, Blocks DEF TaskDialsAgain, KeepsFsm
    <2>3. Ownership'
      BY <1>22, Blocks DEF TaskDialsAgain, KeepsFsm
    <2>4. QED
      BY <2>1, <2>2, <2>3
  <1>23. CASE TaskReceives
    <2>1. ClientTypeOK'
      BY <1>23, Blocks DEF TaskReceives, KeepsFsm, UsesClient
    <2>2. HeapIsOwned' /\ CrashesHaveACause'
      BY <1>23, Blocks DEF TaskReceives, KeepsFsm, UsesClient
    <2>3. Ownership'
      BY <1>23, Blocks DEF TaskReceives, KeepsFsm, UsesClient
    <2>4. QED
      BY <2>1, <2>2, <2>3
  <1>24. CASE TaskHandles
    <2>1. ClientTypeOK'
      BY <1>24, Blocks DEF TaskHandles, KeepsFsm, UsesClient
    <2>2. HeapIsOwned' /\ CrashesHaveACause'
      BY <1>24, Blocks DEF TaskHandles, KeepsFsm, UsesClient
    <2>3. Ownership'
      BY <1>24, Blocks DEF TaskHandles, KeepsFsm, UsesClient
    <2>4. QED
      BY <2>1, <2>2, <2>3
  <1>25. CASE TxSends
    <2>1. ClientTypeOK'
      BY <1>25, Blocks DEF TxSends
    <2>2. HeapIsOwned' /\ CrashesHaveACause'
      BY <1>25, Blocks DEF TxSends
    <2>3. Ownership'
      BY <1>25, Blocks DEF TxSends
    <2>4. QED
      BY <2>1, <2>2, <2>3
  <1>26. CASE TxReturns
    <2>1. ClientTypeOK'
      BY <1>26, Blocks DEF TxReturns
    <2>2. HeapIsOwned' /\ CrashesHaveACause'
      BY <1>26, Blocks DEF TxReturns
    <2>3. Ownership'
      BY <1>26, Blocks DEF TxReturns
    <2>4. QED
      BY <2>1, <2>2, <2>3
  <1>27. CASE UNCHANGED clientVars
    <2>1. ClientTypeOK'
      BY <1>27, Blocks DEF clientVars
    <2>2. HeapIsOwned' /\ CrashesHaveACause'
      BY <1>27, Blocks DEF clientVars
    <2>3. Ownership'
      BY <1>27, Blocks DEF clientVars
    <2>4. QED
      BY <2>1, <2>2, <2>3
  <1>28. QED
    BY <1>1, <1>2, <1>3, <1>4, <1>5, <1>6, <1>7, <1>8, <1>9, <1>10, <1>11,
       <1>12, <1>13, <1>14, <1>15, <1>16, <1>17, <1>18, <1>19, <1>20,
       <1>21, <1>22, <1>23, <1>24, <1>25, <1>26, <1>27
    DEF ClientNext, FsmWorks, FsmFails, TaskEvents

(* The client alone: ownership holds whatever surrounds it. *)
THEOREM ClientOwnership == ClientSpec => []IInv
  <1>1. QED
    BY InitIsOwned, StepKeepsOwnership, PTL DEF ClientSpec

-----------------------------------------------------------------------------
(* Every step of the device is one of the client's or leaves it alone. *)
LEMMA DeviceStepIsClientStep == Next => [ClientNext]_clientVars
  <1> SUFFICES ASSUME Next PROVE ClientNext \/ UNCHANGED clientVars
    OBVIOUS
  <1>1. CASE AppMainStep
    BY <1>1 DEF AppMainStep, BootOnly, ClientNext
  <1>2. CASE BootFails \/ NetworkStep \/ NetworkChanges \/ TasksStep
    BY <1>2 DEF BootFails, NetworkStep, NetworkChanges, TasksStep, BootOnly
  <1>3. CASE FsmStep \/ FsmFailure \/ UserStep
    BY <1>3 DEF FsmStep, FsmFailure, UserStep, ClientNext
  <1>4. CASE Dials \/ Disconnects \/ DialsAgain \/ Receives \/ Handles
    BY <1>4 DEF Dials, Disconnects, DialsAgain, Receives, Handles, ClientNext, TaskEvents
  <1>5. CASE TxStep
    BY <1>5 DEF TxStep, ClientNext
  <1>6. QED
    BY <1>1, <1>2, <1>3, <1>4, <1>5 DEF Next

(* The device implements the client's specification: boot, WiFi and the    *)
(* other tasks only restrict when the client moves.                        *)
THEOREM DeviceImplementsClient == Spec => ClientSpec
  <1>1. Init => ClientInit
    BY DEF Init
  <1>2. [Next]_vars => [ClientNext]_clientVars
    BY DeviceStepIsClientStep DEF vars, clientVars
  <1>3. QED
    BY <1>1, <1>2, PTL DEF Spec, ClientSpec

(* Nothing the client structure owns is leaked or owned twice, whatever    *)
(* fails (doubao_ws_init, doubao_ws_connect, doubao_ws_destroy).           *)
THEOREM HeapStaysOwned == Spec => []HeapIsOwned
  <1>1. IInv => HeapIsOwned
    BY DEF IInv
  <1>2. QED
    BY <1>1, DeviceImplementsClient, ClientOwnership, PTL

(* No handler of the client's task uses a block that is gone, and only a   *)
(* failed xEventGroupCreate is followed by a second free.                  *)
THEOREM CrashesStayCaused == Spec => []CrashesHaveACause
  <1>1. IInv => CrashesHaveACause
    BY DEF IInv
  <1>2. QED
    BY <1>1, DeviceImplementsClient, ClientOwnership, PTL

-----------------------------------------------------------------------------
(* Startup *)

(* A step of the device is one of the startup's or leaves it alone. *)
LEMMA DeviceStepIsBootStep ==
  [Next]_vars => [AppMain \/ Resets \/ WifiEvents \/ ReachChanges \/ TasksStart]_bootVars
  BY DEF Next, vars, AppMainStep, BootFails, NetworkStep, NetworkChanges, TasksStep,
         FsmStep, FsmFailure, UserStep, Dials, Disconnects, DialsAgain, Receives,
         Handles, TxStep, ClientOnly

(* What app_main has initialised when it is at a label, and the tasks that *)
(* may run then.                                                           *)
HalDone == {"opus", "afe", "start_afe", "create_tasks", "settle", "done"}

OpusDone == HalDone \ {"opus"}

AfeDone == OpusDone \ {"afe"}

Created == tasks # {} => boot \in {"create_tasks", "settle", "done"}

Started ==
  /\ boot \in HalDone => Names(AudioHalSteps) \subseteq have
  /\ boot \in OpusDone => Names(OpusSteps) \subseteq have
  /\ boot \in AfeDone => Names(AfeSteps) \subseteq have
  /\ Created

(* What all of the tasks need is obtained by then. *)
LEMMA NeedsAreInitialised ==
  ASSUME NEW t \in AppTask \cup AfeTask
  PROVE Needs(t) \subseteq Names(AudioHalSteps) \cup Names(OpusSteps) \cup Names(AfeSteps)
  <1> DEFINE all == Names(AudioHalSteps) \cup Names(OpusSteps) \cup Names(AfeSteps)
  <1>1. {"play_dev", "rec_dev", "microphone", "capture_rb", "playback_rb", "ref_rb"}
          \subseteq Names(AudioHalSteps)
    <2>1. DOMAIN AudioHalSteps = 1..9
      BY DEF AudioHalSteps
    <2>2. QED
      BY <2>1 DEF AudioHalSteps, Names
  <1>2. {"decoder", "decode_buf"} \subseteq Names(OpusSteps)
    <2>1. DOMAIN OpusSteps = 1..3
      BY DEF OpusSteps
    <2>2. QED
      BY <2>1 DEF OpusSteps, Names
  <1>3. {"afe", "afe_data"} \subseteq Names(AfeSteps)
    <2>1. DOMAIN AfeSteps = 1..3
      BY DEF AfeSteps
    <2>2. QED
      BY <2>1 DEF AfeSteps, Names
  <1>4. QED
    BY <1>1, <1>2, <1>3 DEF Needs, AppTask, AfeTask

(* An initialisation that is complete has all its names. *)
LEMMA InitialiseObtains ==
  ASSUME NEW steps, NEW released, NEW next, next # "stopped",
         DOMAIN steps = 1..Len(steps), Initialise(steps, released, next)
  PROVE  \/ boot' = next /\ have' = have \cup Names(steps)
         \/ boot' = "stopped"
  BY DEF Initialise, Goes, Names

LEMMA BootStepKeepsStarted == Started /\ [Next]_vars => Started'
  <1> SUFFICES ASSUME Started, [Next]_vars PROVE Started'
    OBVIOUS
  <1> USE DEF Started, Created, HalDone, OpusDone, AfeDone
  <1>1. CASE Restart
    BY <1>1 DEF Restart
  <1>2. CASE InitNvs \/ StartWifi \/ WifiWaitEnds \/ SyncSystemTime
    BY <1>2 DEF InitNvs, StartWifi, WifiWaitEnds, SyncSystemTime, Goes
  <1>3. CASE AudioHalInit
    <2>1. \/ boot' = "opus" /\ have' = have \cup Names(AudioHalSteps)
          \/ boot' = "stopped"
      <3>1. DOMAIN AudioHalSteps = 1..Len(AudioHalSteps)
        BY DEF AudioHalSteps
      <3>2. QED
        BY <1>3, <3>1, InitialiseObtains DEF AudioHalInit
    <2>2. QED
      BY <1>3, <2>1 DEF AudioHalInit
  <1>4. CASE OpusProcInit
    <2>1. \/ boot' = "afe" /\ have' = have \cup Names(OpusSteps)
          \/ boot' = "stopped"
      <3>1. DOMAIN OpusSteps = 1..Len(OpusSteps)
        BY DEF OpusSteps
      <3>2. QED
        BY <1>4, <3>1, InitialiseObtains DEF OpusProcInit
    <2>2. QED
      BY <1>4, <2>1 DEF OpusProcInit
  <1>5. CASE AfeHandlerInit
    <2>1. \/ boot' = "start_afe" /\ have' = have \cup Names(AfeSteps)
          \/ boot' = "stopped"
      <3>1. DOMAIN AfeSteps = 1..Len(AfeSteps)
        BY DEF AfeSteps
      <3>2. QED
        BY <1>5, <3>1, InitialiseObtains DEF AfeHandlerInit
    <2>2. QED
      BY <1>5, <2>1 DEF AfeHandlerInit
  <1>6. CASE AfeHandlerStart \/ CreateTasks \/ AppMainReturns
    BY <1>6 DEF AfeHandlerStart, CreateTasks, AppMainReturns, Goes
  <1>7. CASE FeedTaskStarts \/ TxTaskStarts
    BY <1>7 DEF FeedTaskStarts, TxTaskStarts
  <1>8. CASE WifiEvents \/ ReachChanges
    BY <1>8 DEF WifiEvents, GotIp, WifiDisconnected, ReachChanges
  <1>9. CASE UNCHANGED bootVars
    BY <1>9 DEF bootVars
  <1>10. [AppMain \/ Resets \/ WifiEvents \/ ReachChanges \/ TasksStart]_bootVars
    BY DeviceStepIsBootStep
  <1>11. QED
    BY <1>1, <1>2, <1>3, <1>4, <1>5, <1>6, <1>7, <1>8, <1>9, <1>10
    DEF AppMain, Resets, TasksStart, RestartAfterWifi, ErrorCheckFails, AfeConfigIsNull

(* No task runs without what it needs, for any value of WIFI_MAX_RETRY and *)
(* any number of failures and restarts (app_main's early returns).         *)
THEOREM TasksKeepResources == Spec => []TasksHaveResources
  <1>1. Init => Started
    BY DEF Init, BootInit, Started, Created, HalDone, OpusDone, AfeDone
  <1>2. Started => TasksHaveResources
    <2> SUFFICES ASSUME Started, NEW t \in tasks, t \in AppTask \cup AfeTask
                 PROVE Needs(t) \subseteq have
      BY DEF TasksHaveResources
    <2>1. Names(AudioHalSteps) \cup Names(OpusSteps) \cup Names(AfeSteps) \subseteq have
      BY DEF Started, Created, HalDone, OpusDone, AfeDone
    <2>2. QED
      BY <2>1, NeedsAreInitialised
  <1>3. QED
    BY <1>1, <1>2, BootStepKeepsStarted, PTL DEF Spec

-----------------------------------------------------------------------------
(* WiFi *)

(* The count of the event handler never runs ahead of the failed attempts, *)
(* and giving up takes one more than it counts.                            *)
Counted ==
  /\ s_retry_num \in Nat /\ misses \in Nat /\ s_retry_num <= misses
  /\ s_retry_num <= WIFI_MAX_RETRY
  /\ GivesUpOnlyWhenCut

(* However many outages there have been, the device gives up only after    *)
(* more than WIFI_MAX_RETRY attempts without an address                    *)
(* (wifi_event_handler).                                                   *)
THEOREM GivesUpOnlyThen == Spec => []GivesUpOnlyWhenCut
  <1> USE RetryAssumption DEF Counted, GivesUpOnlyWhenCut
  <1>1. Init => Counted
    BY DEF Init, BootInit
  <1>2. Counted /\ [Next]_vars => Counted'
    <2> SUFFICES ASSUME Counted, [Next]_vars PROVE Counted'
      OBVIOUS
    <2>1. CASE WifiDisconnected
      BY <2>1 DEF WifiDisconnected, Retry
    <2>2. CASE GotIp
      BY <2>2 DEF GotIp
    <2>3. CASE Restart \/ StartWifi
      BY <2>3 DEF Restart, StartWifi
    <2>4. CASE UNCHANGED wifiVars
      BY <2>4 DEF wifiVars
    <2>5. WifiDisconnected \/ GotIp \/ Restart \/ StartWifi \/ UNCHANGED wifiVars
      <3>1. [AppMain \/ Resets \/ WifiEvents \/ ReachChanges \/ TasksStart]_bootVars
        BY DeviceStepIsBootStep
      <3>2. QED
        BY <3>1 DEF AppMain, Resets, TasksStart, WifiEvents, RestartAfterWifi,
           ErrorCheckFails, AfeConfigIsNull, InitNvs, WifiWaitEnds, SyncSystemTime,
           AudioHalInit, OpusProcInit, AfeHandlerInit, AfeHandlerStart, CreateTasks,
           AppMainReturns, FeedTaskStarts, TxTaskStarts, ReachChanges, bootVars, wifiVars
    <2>6. QED
      BY <2>1, <2>2, <2>3, <2>4, <2>5
  <1>3. QED
    BY <1>1, <1>2, PTL DEF Spec

-----------------------------------------------------------------------------
(* The types of the device *)

(* Complete or not, an initialisation obtains nothing but what it names. *)
LEMMA InitialiseNames ==
  ASSUME NEW steps, NEW released, NEW next, next \in BootPc,
         DOMAIN steps = 1..Len(steps), Len(steps) \in Nat, Initialise(steps, released, next)
  PROVE  boot' \in BootPc /\ have' \subseteq have \cup Names(steps)
  <1>1. PICK n \in 0..Len(steps) :
          /\ boot' = next \/ boot' = "stopped"
          /\ have' \subseteq have \cup {steps[i] : i \in 1..n}
    BY DEF Initialise, Goes
  <1>2. {steps[i] : i \in 1..n} \subseteq Names(steps)
    BY DEF Names
  <1>3. QED
    BY <1>1, <1>2 DEF BootPc

LEMMA StepLists ==
  /\ DOMAIN AudioHalSteps = 1..Len(AudioHalSteps) /\ Len(AudioHalSteps) \in Nat
  /\ DOMAIN OpusSteps = 1..Len(OpusSteps) /\ Len(OpusSteps) \in Nat
  /\ DOMAIN AfeSteps = 1..Len(AfeSteps) /\ Len(AfeSteps) \in Nat
  BY DEF AudioHalSteps, OpusSteps, AfeSteps

LEMMA BootStepKeepsTypes ==
  ASSUME BootTypeOK,
         [AppMain \/ Resets \/ WifiEvents \/ ReachChanges \/ TasksStart]_bootVars
  PROVE  BootTypeOK'
  <1> USE RetryAssumption DEF BootTypeOK
  <1>1. CASE Restart
    BY <1>1 DEF Restart, BootPc
  <1>2. CASE InitNvs \/ StartWifi \/ WifiWaitEnds \/ SyncSystemTime \/ AppMainReturns
    BY <1>2 DEF InitNvs, StartWifi, WifiWaitEnds, SyncSystemTime, AppMainReturns, Goes,
                wifiVars, BootPc
  <1>3. CASE AudioHalInit
    <2>1. boot' \in BootPc /\ have' \subseteq have \cup Names(AudioHalSteps)
      BY <1>3, InitialiseNames, StepLists DEF AudioHalInit, BootPc
    <2>2. QED
      BY <1>3, <2>1 DEF AudioHalInit, wifiVars, Resource
  <1>4. CASE OpusProcInit
    <2>1. boot' \in BootPc /\ have' \subseteq have \cup Names(OpusSteps)
      BY <1>4, InitialiseNames, StepLists DEF OpusProcInit, BootPc
    <2>2. QED
      BY <1>4, <2>1 DEF OpusProcInit, wifiVars, Resource
  <1>5. CASE AfeHandlerInit
    <2>1. boot' \in BootPc /\ have' \subseteq have \cup Names(AfeSteps)
      BY <1>5, InitialiseNames, StepLists DEF AfeHandlerInit, BootPc
    <2>2. QED
      BY <1>5, <2>1 DEF AfeHandlerInit, wifiVars, Resource
  <1>6. CASE AfeHandlerStart \/ CreateTasks
    BY <1>6 DEF AfeHandlerStart, CreateTasks, Goes, wifiVars, BootPc, AppTask, AfeTask
  <1>7. CASE FeedTaskStarts \/ TxTaskStarts
    BY <1>7 DEF FeedTaskStarts, TxTaskStarts, wifiVars, AppTask, AfeTask
  <1>8. CASE GotIp
    BY <1>8 DEF GotIp
  <1>9. CASE WifiDisconnected
    <2>1. s_retry_num' \in 0..WIFI_MAX_RETRY /\ misses' \in Nat
      BY <1>9 DEF WifiDisconnected, Retry
    <2>2. wifi' \in {"connecting", "given_up"} /\ wifi_bits' \subseteq {"CONNECTED", "FAIL"}
      BY <1>9 DEF WifiDisconnected, Retry
    <2>3. QED
      BY <1>9, <2>1, <2>2 DEF WifiDisconnected
  <1>10. CASE ReachChanges \/ UNCHANGED bootVars
    BY <1>10 DEF ReachChanges, bootVars, wifiVars
  <1>11. QED
    BY <1>1, <1>2, <1>3, <1>4, <1>5, <1>6, <1>7, <1>8, <1>9, <1>10
    DEF AppMain, Resets, TasksStart, WifiEvents, RestartAfterWifi, ErrorCheckFails,
        AfeConfigIsNull

(* The types of the whole device, for every number of retries and of       *)
(* failures: the event handler never counts beyond WIFI_MAX_RETRY.         *)
THEOREM DeviceTypeCorrect == Spec => []TypeOK
  <1>1. Spec => []ClientTypeOK
    <2>1. IInv => ClientTypeOK
      BY DEF IInv
    <2>2. QED
      BY <2>1, DeviceImplementsClient, ClientOwnership, PTL
  <1>2. Init => BootTypeOK /\ outside \in 0..MaxOutside
    <2>1. SUFFICES ASSUME Init PROVE BootTypeOK /\ outside \in 0..MaxOutside
      OBVIOUS
    <2>2. BootTypeOK
      BY <2>1, RetryAssumption DEF Init, BootInit, BootTypeOK, BootPc
    <2>3. outside \in 0..MaxOutside
      BY <2>1, OutsideAssumption DEF Init
    <2>4. QED
      BY <2>2, <2>3
  <1>3. BootTypeOK /\ [Next]_vars => BootTypeOK'
    BY DeviceStepIsBootStep, BootStepKeepsTypes
  <1>4. outside \in 0..MaxOutside /\ [Next]_vars => (outside \in 0..MaxOutside)'
    <2>1. [Next]_vars => Spend \/ UNCHANGED outside
      BY DEF Next, vars, AppMainStep, BootFails, NetworkStep, NetworkChanges, TasksStep,
             FsmStep, FsmFailure, UserStep, Dials, Disconnects, DialsAgain, Receives,
             Handles, TxStep
    <2>2. QED
      BY <2>1, OutsideAssumption DEF Spend
  <1>5. QED
    BY <1>1, <1>2, <1>3, <1>4, PTL DEF Spec, TypeOK

=============================================================================
