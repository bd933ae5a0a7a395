------------------------------- MODULE Startup -------------------------------
(***************************************************************************)
(* From reset to running (app_main of main/app_main.c, audio_hal_init,     *)
(* opus_proc_init, afe_handler_init and afe_handler_start), and the WiFi   *)
(* station, whose events the system's event task handles before, during    *)
(* and after it.  What an initialisation may fail at, in its order, is a   *)
(* sequence of names; have holds those that have been obtained and not     *)
(* been released again.                                                    *)
(*                                                                         *)
(* Left out: the display, whose failure is ignored; the clock, whose       *)
(* failure is ignored too; codec settings and buffer sizes.                *)
(***************************************************************************)
EXTENDS Naturals, Sequences

CONSTANT WIFI_MAX_RETRY

ASSUME RetryAssumption == WIFI_MAX_RETRY \in Nat

VARIABLES
  boot,        (* where app_main is                                        *)
  wifi,        (* the station: "off", "connecting", "up" or "given_up"     *)
  s_retry_num,
  wifi_bits,   (* s_wifi_event_group                                       *)
  misses,      (* attempts that failed since the last address: a history   *)
  reach,       (* the access point is in reach                             *)
  have,        (* what the initialisations have obtained                   *)
  tasks        (* the application's tasks that run                         *)

bootVars == <<boot, wifi, s_retry_num, wifi_bits, misses, reach, have, tasks>>

(* "stopped" is app_main's return before there are any tasks.              *)
BootPc == {"nvs", "wifi", "wifi_wait", "wifi_failed", "time", "audio_hal", "opus",
           "afe", "start_afe", "create_tasks", "settle", "done", "stopped"}

(* bsp_i2c_init to the last create_psram_ringbuf. *)
AudioHalSteps == << "i2c", "i2s", "play_dev", "speaker", "rec_dev", "microphone",
                    "capture_rb", "playback_rb", "ref_rb" >>

OpusSteps == <<"encoder", "decoder", "decode_buf">>

AfeSteps == <<"models", "afe", "afe_data">>

Names(steps) == {steps[i] : i \in DOMAIN steps}

Resource == Names(AudioHalSteps) \cup Names(OpusSteps) \cup Names(AfeSteps)

AppTask == {"audio_play", "ws_tx", "main_fsm"}

AfeTask == {"afe_feed", "afe_fetch"}

(* A created task runs through its allocations before it starts its loop. *)
BootTypeOK ==
  /\ boot \in BootPc
  /\ wifi \in {"off", "connecting", "up", "given_up"}
  /\ s_retry_num \in 0..WIFI_MAX_RETRY
  /\ wifi_bits \subseteq {"CONNECTED", "FAIL"}
  /\ misses \in Nat
  /\ reach \in BOOLEAN
  /\ have \subseteq Resource
  /\ tasks \subseteq AppTask \cup AfeTask \cup {"feed_allocates", "tx_allocates"}

BootInit ==
  /\ boot = "nvs"
  /\ wifi = "off"
  /\ s_retry_num = 0
  /\ wifi_bits = {}
  /\ misses = 0
  /\ reach \in BOOLEAN
  /\ have = {}
  /\ tasks = {}

-----------------------------------------------------------------------------
(* The WiFi station: wifi_event_handler *)

wifiVars == <<wifi, s_retry_num, wifi_bits, misses>>

(* Mutant: an address does not set the count back. *)
GotIpKeepsCount ==
  /\ wifi = "connecting" /\ reach
  /\ wifi' = "up"
  /\ wifi_bits' = wifi_bits \cup {"CONNECTED"}
  /\ misses' = 0
  /\ UNCHANGED <<boot, s_retry_num, reach, have, tasks>>

GotIp ==
  /\ wifi = "connecting" /\ reach
  /\ wifi' = "up"
  /\ s_retry_num' = 0
  /\ wifi_bits' = wifi_bits \cup {"CONNECTED"}
  /\ misses' = 0
  /\ UNCHANGED <<boot, reach, have, tasks>>

(* Mutant: the event task leaves it at a lost connection. *)
RetryAttemptsOnly ==
  \/ /\ s_retry_num < WIFI_MAX_RETRY
     /\ s_retry_num' = s_retry_num + 1
     /\ wifi' = IF wifi = "up" THEN "off" ELSE "connecting"
     /\ UNCHANGED wifi_bits
  \/ /\ s_retry_num >= WIFI_MAX_RETRY
     /\ wifi' = "given_up"
     /\ wifi_bits' = wifi_bits \cup {"FAIL"}
     /\ UNCHANGED s_retry_num

Retry ==
  \/ /\ s_retry_num < WIFI_MAX_RETRY
     /\ s_retry_num' = s_retry_num + 1
     /\ wifi' = "connecting"
     /\ UNCHANGED wifi_bits
  \/ /\ s_retry_num >= WIFI_MAX_RETRY
     /\ wifi' = "given_up"
     /\ wifi_bits' = wifi_bits \cup {"FAIL"}
     /\ UNCHANGED s_retry_num

(* WIFI_EVENT_STA_DISCONNECTED, after an attempt that failed or for a      *)
(* connection that is lost.                                                *)
WifiDisconnected ==
  /\ wifi \in {"connecting", "up"} /\ ~reach
  /\ Retry
  /\ misses' = misses + 1
  /\ UNCHANGED <<boot, reach, have, tasks>>

ReachChanges ==
  /\ reach' = ~reach
  /\ UNCHANGED <<boot, wifiVars, have, tasks>>

-----------------------------------------------------------------------------
(* app_main *)

Goes(label) == boot' = label

(* esp_restart, a failed ESP_ERROR_CHECK or a panic: everything in RAM is  *)
(* as after a reset.                                                       *)
Restart ==
  /\ boot' = "nvs"
  /\ wifi' = "off" /\ s_retry_num' = 0 /\ wifi_bits' = {} /\ misses' = 0
  /\ have' = {} /\ tasks' = {}
  /\ UNCHANGED reach

(* A full or outdated partition is erased and tried again. *)
InitNvs ==
  /\ boot = "nvs"
  /\ Goes("wifi")
  /\ UNCHANGED <<wifiVars, reach, have, tasks>>

(* The ESP_ERROR_CHECKs of app_main and wifi_init_sta, and what the result *)
(* of xEventGroupCreate, which is not looked at, leads to when it is NULL: *)
(* xEventGroupWaitBits and xEventGroupSetBits assert that it is not.       *)
ErrorCheckFails ==
  /\ boot \in {"nvs", "wifi"}
  /\ Restart

(* wifi_init_sta up to its wait; WIFI_EVENT_STA_START connects.            *)
StartWifi ==
  /\ boot = "wifi"
  /\ wifi' = "connecting"
  /\ Goes("wifi_wait")
  /\ UNCHANGED <<s_retry_num, wifi_bits, misses, reach, have, tasks>>

(* One of the bits is set, or 30 seconds have passed: attempts that fail   *)
(* may take so long, an access point in reach answers before.              *)
WifiWaitEnds ==
  /\ boot = "wifi_wait"
  /\ wifi_bits # {} \/ ~reach
  /\ Goes(IF "CONNECTED" \in wifi_bits THEN "time" ELSE "wifi_failed")
  /\ UNCHANGED <<wifiVars, reach, have, tasks>>

(* Three seconds later. *)
RestartAfterWifi == boot = "wifi_failed" /\ Restart

(* At most 14 waits of two seconds; whatever comes of them, go on. *)
SyncSystemTime ==
  /\ boot = "time"
  /\ Goes("audio_hal")
  /\ UNCHANGED <<wifiVars, reach, have, tasks>>

(* Obtain the steps in order, up to the first that fails. *)
Initialise(steps, released, next) ==
  \E n \in 0..Len(steps) :
    LET obtained == {steps[i] : i \in 1..n}
    IN  IF n = Len(steps) THEN Goes(next) /\ have' = have \cup obtained
        ELSE Goes("stopped") /\ have' = have \cup (obtained \ released)

(* Mutant: a failure is only reported. *)
AudioHalInitGoesOn ==
  /\ boot = "audio_hal"
  /\ \E n \in 0..Len(AudioHalSteps) :
       Goes("opus") /\ have' = have \cup {AudioHalSteps[i] : i \in 1..n}
  /\ UNCHANGED <<wifiVars, reach, tasks>>

(* A failure keeps what the steps before it have opened. *)
AudioHalInit ==
  /\ boot = "audio_hal"
  /\ Initialise(AudioHalSteps, {}, "opus")
  /\ UNCHANGED <<wifiVars, reach, tasks>>

(* A failure destroys the encoder and the decoder again. *)
OpusProcInit ==
  /\ boot = "opus"
  /\ Initialise(OpusSteps, Names(OpusSteps), "afe")
  /\ UNCHANGED <<wifiVars, reach, tasks>>

(* A failure keeps the models; the configuration the other steps read is   *)
(* freed again either way.                                                 *)
AfeHandlerInit ==
  /\ boot = "afe"
  /\ Initialise(AfeSteps, {}, "start_afe")
  /\ UNCHANGED <<wifiVars, reach, tasks>>

(* afe_config_init's result is written to before it is compared with NULL: *)
(* where it fails the device resets instead of stopping.                   *)
AfeConfigIsNull ==
  /\ boot = "afe"
  /\ Restart

(* A task that cannot be created is only logged. *)
AfeHandlerStart ==
  /\ boot = "start_afe"
  /\ \E created \in SUBSET {"feed_allocates"} : tasks' = tasks \cup created
  /\ Goes("create_tasks")
  /\ UNCHANGED <<wifiVars, reach, have>>

CreateTasks ==
  /\ boot = "create_tasks"
  /\ \E created \in SUBSET {"audio_play", "tx_allocates", "main_fsm"} :
       tasks' = tasks \cup created
  /\ Goes("settle")
  /\ UNCHANGED <<wifiVars, reach, have>>

(* After 100 ms, set_app_state(APP_STATE_CONNECTING). *)
AppMainReturns ==
  /\ boot = "settle"
  /\ Goes("done")
  /\ UNCHANGED <<wifiVars, reach, have, tasks>>

-----------------------------------------------------------------------------
(* The first statements of afe_feed_task and ws_tx_task *)

(* The feed task creates the fetch task. *)
FeedTaskStarts ==
  /\ "feed_allocates" \in tasks
  /\ \E started \in {{}, {"afe_feed"}, {"afe_feed", "afe_fetch"}} :
       tasks' = (tasks \ {"feed_allocates"}) \cup started
  /\ UNCHANGED <<boot, wifiVars, reach, have>>

TxTaskStarts ==
  /\ "tx_allocates" \in tasks
  /\ \E started \in SUBSET {"ws_tx"} :
       tasks' = (tasks \ {"tx_allocates"}) \cup started
  /\ UNCHANGED <<boot, wifiVars, reach, have>>

-----------------------------------------------------------------------------
WifiEvents == GotIp \/ WifiDisconnected

AppMain ==
  \/ InitNvs \/ StartWifi \/ WifiWaitEnds \/ RestartAfterWifi \/ SyncSystemTime
  \/ AudioHalInit \/ OpusProcInit \/ AfeHandlerInit
  \/ AfeHandlerStart \/ CreateTasks \/ AppMainReturns

Resets == ErrorCheckFails \/ AfeConfigIsNull

TasksStart == FeedTaskStarts \/ TxTaskStarts

-----------------------------------------------------------------------------
(* Properties *)

(* What each task needs to do its work (some loops only idle without it);  *)
(* of main_fsm also what the client it connects needs to decode speech.    *)
Needs(t) ==
  CASE t = "audio_play" -> {"playback_rb", "ref_rb", "play_dev"}
    [] t = "ws_tx" -> {"capture_rb"}
    [] t = "main_fsm" -> {"decoder", "decode_buf", "playback_rb", "afe_data"}
    [] t = "afe_feed" -> {"rec_dev", "microphone", "ref_rb", "afe", "afe_data"}
    [] t = "afe_fetch" -> {"capture_rb", "afe", "afe_data"}

(* Whatever fails on the way, and after any number of restarts, no task    *)
(* runs without what its loop needs: app_main's early returns come before  *)
(* the tasks that would miss it, the front end's own task included.        *)
TasksHaveResources == \A t \in tasks \cap (AppTask \cup AfeTask) : Needs(t) \subseteq have

(* The event handler gives up only on an access point that has been out of *)
(* reach for more than WIFI_MAX_RETRY attempts without an address between  *)
(* them: short outages, however many, never add up to a device that is off *)
(* the network for good.                                                   *)
GivesUpOnlyWhenCut == wifi = "given_up" => misses > WIFI_MAX_RETRY

=============================================================================
