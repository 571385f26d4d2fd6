------------------------------ MODULE Lifecycle ------------------------------
(***************************************************************************)
(* The life of the device: the boot sequence of app/src/main.c, clients    *)
(* that come and go through app/src/ble_advertiser.c, the connection       *)
(* counts of the sensor manager and of the BLE battery service, the air    *)
(* quality work that saves the CCS811's baseline, and restarts.            *)
(*                                                                         *)
(* Three threads run at once: main, the host's receive thread (rx) and the *)
(* system work queue (work).  A restart may come at any time; it leaves    *)
(* the flash.                                                              *)
(***************************************************************************)
EXTENDS Advertiser, Ccs811Baseline

CONSTANT Periodic   \* CONFIG_SENSOR_PERIODIC_SAMPLING

ASSUME PeriodicAssumption == Periodic \in BOOLEAN

VARIABLES
  main,              \* the step of main() that comes next
  work,              \* what the system work queue is doing
  initialized,       \* of the sensor manager
  update_callback,   \* the sensor manager has one
  armed,
  sm_connected_count,
  bas_initialized,   \* ble_battery_state.initialized
  bas_connected_count

countVars == <<sm_connected_count, bas_connected_count>>
bootVars  == <<initialized, update_callback, armed, bas_initialized>>
vars == <<advertiserVars, baselineVars, main, work, bootVars, countVars>>

\* A variant with a defect: the settings are loaded after the drivers have started.
ThenSettingsLate ==
        [advertiser |-> "sensors", sensors |-> "settings", settings |-> "battery",
         battery |-> "ess", ess |-> "arm", arm |-> "uptime", uptime |-> "ready",
         ready |-> "start", start |-> "started", started |-> "done"]

\* A variant with a defect: the services are armed after advertising has started.
ThenArmsLate ==
        [advertiser |-> "settings", settings |-> "sensors", sensors |-> "battery",
         battery |-> "ess", ess |-> "uptime", uptime |-> "ready", ready |-> "start",
         start |-> "started", started |-> "arm", arm |-> "done"]

-----------------------------------------------------------------------------
\* The order of main().
Then == [advertiser |-> "settings", settings |-> "sensors", sensors |-> "battery",
         battery |-> "ess", ess |-> "arm", arm |-> "uptime", uptime |-> "ready",
         ready |-> "start", start |-> "started", started |-> "done"]

Init ==
  /\ AdvertiserInit /\ BaselineInit
  /\ main = "advertiser" /\ work = "idle"
  /\ initialized = FALSE /\ update_callback = FALSE /\ armed = FALSE
  /\ bas_initialized = FALSE
  /\ sm_connected_count = 0 /\ bas_connected_count = 0

\* Power is lost, or the device is reset.
Restart ==
  /\ AdvertiserReset /\ BaselineReset
  /\ main' = "advertiser" /\ work' = "idle"
  /\ initialized' = FALSE /\ update_callback' = FALSE /\ armed' = FALSE
  /\ bas_initialized' = FALSE
  /\ sm_connected_count' = 0 /\ bas_connected_count' = 0

Goes(s) == main = s /\ main' = Then[s]

-----------------------------------------------------------------------------
(* main() returns at the first step that fails.                             *)

Fails ==
  /\ main \in {"advertiser", "settings", "sensors"}
  /\ main' = "failed"
  /\ UNCHANGED <<advertiserVars, baselineVars, work, bootVars, countVars>>

\* ble_advertiser_init()
InitAdvertiser ==
  /\ Goes("advertiser") /\ host' = "starting"
  /\ UNCHANGED <<advertising, conn, events, rx, recycled, bt_ready_sem, advertising_enabled,
                 retry, refused, noMemory>>
  /\ UNCHANGED <<baselineVars, work, bootVars, countVars>>

LoadSettings ==
  /\ Goes("settings") /\ LoadBaseline
  /\ UNCHANGED <<advertiserVars, work, bootVars, countVars>>

\* sensor_manager_init(), which goes on when a driver does not start
InitSensors ==
  /\ Goes("sensors") /\ StartDriver /\ initialized' = TRUE
  /\ UNCHANGED <<advertiserVars, work, update_callback, armed, bas_initialized, countVars>>

InitBattery ==
  /\ Goes("battery") /\ bas_initialized' = TRUE
  /\ UNCHANGED <<advertiserVars, baselineVars, work, initialized, update_callback, armed, countVars>>

\* ess_service_init() only logs that it could not register its callback.
InitEss ==
  /\ Goes("ess") /\ update_callback' \in BOOLEAN
  /\ UNCHANGED <<advertiserVars, baselineVars, work, initialized, armed, bas_initialized, countVars>>

\* sensor_manager_arm()
Arm ==
  /\ main = "arm"
  /\ armed' = (initialized /\ update_callback)
  /\ main' = IF armed' THEN Then["arm"] ELSE "failed"
  /\ UNCHANGED <<advertiserVars, baselineVars, work, initialized, update_callback,
                 bas_initialized, countVars>>

InitUptime ==
  /\ Goes("uptime")
  /\ UNCHANGED <<advertiserVars, baselineVars, work, bootVars, countVars>>

\* ble_advertiser_start(): it waits for the host ...
WaitReady ==
  /\ Goes("ready") /\ TakeReady
  /\ UNCHANGED <<baselineVars, work, bootVars, countVars>>

\* ... for ten seconds ...
ReadyTimeout ==
  /\ main = "ready" /\ bt_ready_sem = 0 /\ main' = "failed"
  /\ UNCHANGED <<advertiserVars, baselineVars, work, bootVars, countVars>>

\* ... makes up to AdvRetryMax attempts ...
StartAdvertising ==
  /\ main = "start"
  /\ \E r \in {"ok", "again", "error"} :
       /\ TryStart(r)
       /\ main' = IF r = "ok" THEN Then["start"] ELSE IF TryAgain(r) THEN main ELSE "failed"
  /\ UNCHANGED <<baselineVars, work, bootVars, countVars>>

\* ... and notes the success, after clients may have come.
AdvertisingStarted ==
  /\ Goes("started") /\ SetFlag
  /\ UNCHANGED <<baselineVars, work, bootVars, countVars>>

MainStep ==
  \/ Fails \/ InitAdvertiser \/ LoadSettings \/ InitSensors \/ InitBattery \/ InitEss
  \/ Arm \/ InitUptime \/ WaitReady \/ ReadyTimeout \/ StartAdvertising \/ AdvertisingStarted

-----------------------------------------------------------------------------
(* The receive thread *)

RxGoes(from, to) ==
  /\ rx = from /\ rx' = to
  /\ UNCHANGED <<host, advertising, conn, events, recycled, bt_ready_sem, advertising_enabled,
                 retry, refused, noMemory>>

SmOnConnected ==
  /\ RxGoes("count", "battery")
  /\ sm_connected_count' = IF armed THEN sm_connected_count + 1 ELSE sm_connected_count
  /\ UNCHANGED bas_connected_count

BasOnConnected ==
  /\ RxGoes("battery", "idle")
  /\ bas_connected_count' = IF bas_initialized THEN bas_connected_count + 1 ELSE bas_connected_count
  /\ UNCHANGED sm_connected_count

SmOnDisconnected ==
  /\ RxGoes("left", "battery_left")
  /\ sm_connected_count' = IF sm_connected_count = 0 THEN 0 ELSE sm_connected_count - 1
  /\ UNCHANGED bas_connected_count

BasOnDisconnected ==
  /\ RxGoes("battery_left", "idle")
  /\ bas_connected_count' = IF bas_connected_count = 0 THEN 0 ELSE bas_connected_count - 1
  /\ UNCHANGED sm_connected_count

RxStep ==
  /\ \/ /\ ConnectFailed \/ Connected \/ StopOnConnect \/ ClearOnConnect \/ Disconnected
        /\ UNCHANGED countVars
     \/ SmOnConnected \/ BasOnConnected \/ SmOnDisconnected \/ BasOnDisconnected
  /\ UNCHANGED <<baselineVars, main, work, bootVars>>

-----------------------------------------------------------------------------
(* The system work queue *)

BleRecycled ==
  /\ work = "idle"
  /\ \E r \in {"ok", "again", "error"} :
       Recycled(r) /\ work' = IF r = "ok" THEN "flag" ELSE "idle"
  /\ UNCHANGED <<baselineVars, main, bootVars, countVars>>

BleRecycledFlag ==
  /\ work = "flag" /\ work' = "idle" /\ RecycledFlag
  /\ UNCHANGED <<baselineVars, main, bootVars, countVars>>

\* aq_work_handler() runs while a client is connected, and takes its sample ...
AqWork ==
  /\ work = "idle" /\ Periodic /\ armed /\ sm_connected_count > 0
  /\ work' = "sample"
  /\ UNCHANGED <<advertiserVars, baselineVars, main, bootVars, countVars>>

\* ... saves the baseline if that is due ...
AqSampled ==
  /\ work = "sample" /\ work' = IF BaselineSaveDue THEN "fetch" ELSE "idle"
  /\ UNCHANGED <<advertiserVars, baselineVars, main, bootVars, countVars>>

\* ... which the sensor may refuse ...
AqFetch ==
  /\ work = "fetch"
  /\ \/ FetchBaseline /\ work' = "write"
     \/ UNCHANGED baselineVars /\ work' = "idle"
  /\ UNCHANGED <<advertiserVars, main, bootVars, countVars>>

\* ... and writes it to flash.
AqWrite ==
  /\ work = "write" /\ work' = "idle" /\ WriteBaseline
  /\ UNCHANGED <<advertiserVars, main, bootVars, countVars>>

WorkStep == BleRecycled \/ BleRecycledFlag \/ AqWork \/ AqSampled \/ AqFetch \/ AqWrite

-----------------------------------------------------------------------------
HostStep ==
  /\ BtReady \/ HostConnects \/ HostDisconnects \/ HostRecycles
  /\ UNCHANGED <<baselineVars, main, work, bootVars, countVars>>

SensorStep ==
  /\ ConditioningElapses \/ ConditioningCompletes \/ BaselineDrifts \/ DayPasses
  /\ UNCHANGED <<advertiserVars, main, work, bootVars, countVars>>

Next == MainStep \/ RxStep \/ WorkStep \/ HostStep \/ SensorStep \/ Restart

Spec == Init /\ [][Next]_vars

\* The threads run, and the host frees a connection object that nothing uses.
\* Nothing forces a client to connect or to leave.
FairSpec ==
  /\ Spec
  /\ WF_vars(MainStep) /\ WF_vars(RxStep) /\ WF_vars(WorkStep)
  /\ WF_vars(HostRecycles /\ UNCHANGED <<baselineVars, main, work, bootVars, countVars>>)

-----------------------------------------------------------------------------
(* Properties *)

LifecycleTypeOK ==
  /\ AdvertiserTypeOK /\ BaselineTypeOK
  /\ main \in DOMAIN Then \cup {"done", "failed"}
  /\ work \in {"idle", "flag", "sample", "fetch", "write"}
  /\ initialized \in BOOLEAN /\ update_callback \in BOOLEAN
  /\ armed \in BOOLEAN /\ bas_initialized \in BOOLEAN
  /\ sm_connected_count \in Nat /\ bas_connected_count \in Nat

\* No client is missed and none is counted twice, by the sensor manager or by the
\* battery service, whichever connections fail, however early after the boot they
\* come and however fast they go: when the receive thread has no callback left to
\* make, both counts say whether a client is connected.
CountsFollowLink ==
  rx = "idle" /\ events = <<>> =>
    /\ sm_connected_count = bas_connected_count
    /\ sm_connected_count = IF conn = "up" THEN 1 ELSE 0

\* The two counts take turns as ClientLink promises it to those who count: ready
\* before the first client, the sensor manager always one callback ahead of the
\* battery service, and no client told to either before both have seen the last
\* one leave, also when a client is gone before its connect has been handled
\* (ble_advertiser.c:119-163, main.c:66-125).
Link == INSTANCE ClientLink WITH
  serving <- (armed /\ bas_initialized),
  sensors <- sm_connected_count,
  battery <- bas_connected_count

ClientsInTurn == Link!LinkSpec

\* "Now it's safe to restart advertising as connection object is freed": no thread
\* ever starts advertising while the connection object is in use.
RestartHasConnection == ~noMemory

\* Three threads write advertising_enabled and none locks it.  It may be left TRUE
\* when nothing is advertised, but never FALSE under a running advertisement, which
\* ble_connected() and ble_advertiser_stop() would then fail to stop.
FlagCoversAdvertising ==
  advertising /\ main # "started" /\ work # "flag" => advertising_enabled

\* Once the device has booted, it is always reachable again after a client has
\* left or failed to connect, unless the host refuses to advertise.
ReachableAgain ==
  main = "done" /\ ~refused ~>
    advertising \/ conn = "up" \/ refused \/ main # "done"
=============================================================================
