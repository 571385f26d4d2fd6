----------------------------- MODULE Advertiser -----------------------------
(***************************************************************************)
(* app/src/ble_advertiser.c with the Bluetooth host below it.  Legacy      *)
(* advertising is started by main, stopped by the host when a client       *)
(* connects, and started again when the connection object is recycled.     *)
(*                                                                         *)
(* The host is external: it has one connection object                      *)
(* (CONFIG_BT_MAX_CONN=1), calls connected and disconnected in their order *)
(* from its receive thread, and recycled from the system work queue once   *)
(* the object is free.  It may refuse to start advertising, and must when  *)
(* no connection object is free.                                           *)
(***************************************************************************)
EXTENDS Naturals, Sequences

CONSTANT AdvRetryMax   \* BLE_ADV_RETRY_MAX

ASSUME AdvRetryMaxAssumption == AdvRetryMax \in Nat \ {0}

VARIABLES
  host,                 \* bt_enable(): off, starting, ready or broken
  advertising,          \* the host advertises
  conn,                 \* the connection object: free, up, or gone but not free
  events,               \* connection callbacks the receive thread has to make
  rx,                   \* where the receive thread stands in a callback
  recycled,             \* the recycled callback is queued
  bt_ready_sem,
  advertising_enabled,
  retry,                \* attempts main has made to start advertising
  refused,              \* the last restart was refused  (history)
  noMemory              \* advertising was started without a free object  (history)

advertiserVars == <<host, advertising, conn, events, rx, recycled, bt_ready_sem,
                    advertising_enabled, retry, refused, noMemory>>

-----------------------------------------------------------------------------
AdvertiserInit ==
  /\ host = "off" /\ advertising = FALSE /\ conn = "free"
  /\ events = <<>> /\ rx = "idle" /\ recycled = FALSE
  /\ bt_ready_sem = 0 /\ advertising_enabled = FALSE /\ retry = 0
  /\ refused = FALSE /\ noMemory = FALSE

AdvertiserReset ==
  /\ host' = "off" /\ advertising' = FALSE /\ conn' = "free"
  /\ events' = <<>> /\ rx' = "idle" /\ recycled' = FALSE
  /\ bt_ready_sem' = 0 /\ advertising_enabled' = FALSE /\ retry' = 0
  /\ refused' = FALSE /\ noMemory' = FALSE

AdvertiserTypeOK ==
  /\ host \in {"off", "starting", "ready", "broken"}
  /\ advertising \in BOOLEAN
  /\ conn \in {"free", "up", "gone"}
  /\ events \in Seq({"connected", "failed", "disconnected"}) /\ Len(events) <= 2
  /\ rx \in {"idle", "stop", "clear", "count", "battery", "left", "battery_left"}
  /\ recycled \in BOOLEAN
  /\ bt_ready_sem \in 0 .. 1
  /\ advertising_enabled \in BOOLEAN
  /\ retry \in 0 .. AdvRetryMax - 1
  /\ refused \in BOOLEAN /\ noMemory \in BOOLEAN

-----------------------------------------------------------------------------
(* The host *)

\* bt_ready_cb()
BtReady ==
  /\ host = "starting"
  /\ \/ host' = "ready" /\ bt_ready_sem' = 1
     \/ host' = "broken" /\ UNCHANGED bt_ready_sem
  /\ UNCHANGED <<advertising, conn, events, rx, recycled, advertising_enabled, retry,
                 refused, noMemory>>

\* A client connects, or setting up its connection fails.
HostConnects ==
  /\ advertising /\ advertising' = FALSE
  /\ \/ conn' = "up" /\ events' = Append(events, "connected")
     \/ conn' = "gone" /\ events' = Append(events, "failed")
  /\ UNCHANGED <<host, rx, recycled, bt_ready_sem, advertising_enabled, retry, refused, noMemory>>

HostDisconnects ==
  /\ conn = "up" /\ conn' = "gone"
  /\ events' = Append(events, "disconnected")
  /\ UNCHANGED <<host, advertising, rx, recycled, bt_ready_sem, advertising_enabled, retry,
                 refused, noMemory>>

\* The last reference to the object is dropped after the callbacks.
HostRecycles ==
  /\ conn = "gone" /\ events = <<>> /\ rx = "idle"
  /\ conn' = "free" /\ recycled' = TRUE
  /\ UNCHANGED <<host, advertising, events, rx, bt_ready_sem, advertising_enabled, retry,
                 refused, noMemory>>

\* bt_le_adv_start() returns r.
AdvStart(r) ==
  /\ r \in IF host = "ready" /\ conn = "free" /\ ~advertising
           THEN {"ok", "again", "error"} ELSE {"error"}
  /\ advertising' = (advertising \/ r = "ok")
  /\ noMemory' = (noMemory \/ conn # "free")

-----------------------------------------------------------------------------
(* The connection callbacks.  The receive thread goes on to the sensor      *)
(* manager (count, left) and the battery service (battery, battery_left).   *)

Delivers(e) == rx = "idle" /\ events # <<>> /\ Head(events) = e /\ events' = Tail(events)

\* A variant with a defect: an unsuccessful connection is counted as well.
ConnectFailedCounts ==
  /\ Delivers("failed") /\ rx' = "count"
  /\ UNCHANGED <<host, advertising, conn, recycled, bt_ready_sem, advertising_enabled, retry,
                 refused, noMemory>>

\* ble_connected() with an error
ConnectFailed ==
  /\ Delivers("failed")
  /\ UNCHANGED <<host, advertising, conn, rx, recycled, bt_ready_sem, advertising_enabled, retry,
                 refused, noMemory>>

\* ble_connected() reads advertising_enabled ...
Connected ==
  /\ Delivers("connected")
  /\ rx' = IF advertising_enabled THEN "stop" ELSE "count"
  /\ UNCHANGED <<host, advertising, conn, recycled, bt_ready_sem, advertising_enabled, retry,
                 refused, noMemory>>

\* ... stops what it thinks is advertising, which may fail ...
StopOnConnect ==
  /\ rx = "stop"
  /\ \/ advertising' = FALSE /\ rx' = "clear"
     \/ UNCHANGED advertising /\ rx' = "count"
  /\ UNCHANGED <<host, conn, events, recycled, bt_ready_sem, advertising_enabled, retry,
                 refused, noMemory>>

\* ... and only then clears the flag.
ClearOnConnect ==
  /\ rx = "clear" /\ rx' = "count"
  /\ advertising_enabled' = FALSE
  /\ UNCHANGED <<host, advertising, conn, events, recycled, bt_ready_sem, retry, refused, noMemory>>

\* A variant with a defect: advertising is started again at once.
DisconnectedRestarts ==
  /\ Delivers("disconnected") /\ rx' = "left"
  /\ \E r \in {"ok", "again", "error"} : AdvStart(r)
  /\ UNCHANGED <<host, conn, recycled, bt_ready_sem, advertising_enabled, retry, refused>>

\* ble_disconnected()
Disconnected ==
  /\ Delivers("disconnected") /\ rx' = "left"
  /\ UNCHANGED <<host, advertising, conn, recycled, bt_ready_sem, advertising_enabled, retry,
                 refused, noMemory>>

-----------------------------------------------------------------------------
(* ble_recycled(), and ble_advertiser_start() after bt_ready_sem is taken   *)

\* A variant with a defect: it trusts the flag to tell whether it has to restart.
RecycledIfFlagClear(r) ==
  /\ recycled /\ recycled' = FALSE
  /\ IF advertising_enabled
     THEN r = "error" /\ UNCHANGED <<advertising, noMemory, refused>>
     ELSE AdvStart(r) /\ refused' = (r # "ok")
  /\ UNCHANGED <<host, conn, events, rx, bt_ready_sem, advertising_enabled, retry>>

\* r is what bt_le_adv_start() returns; the flag is set by RecycledFlag.
Recycled(r) ==
  /\ recycled /\ recycled' = FALSE
  /\ AdvStart(r)
  /\ refused' = (r # "ok")
  /\ UNCHANGED <<host, conn, events, rx, bt_ready_sem, advertising_enabled, retry>>

SetFlag ==
  /\ advertising_enabled' = TRUE
  /\ UNCHANGED <<host, advertising, conn, events, rx, recycled, bt_ready_sem, retry,
                 refused, noMemory>>

\* A variant with a defect: the restart is not remembered.
RecycledFlagForgotten == UNCHANGED advertiserVars

RecycledFlag == SetFlag

\* Takes the semaphore and stops what is advertised already.
TakeReady ==
  /\ bt_ready_sem = 1 /\ bt_ready_sem' = 0
  /\ advertising' = (advertising /\ ~advertising_enabled)
  /\ advertising_enabled' = FALSE
  /\ UNCHANGED <<host, conn, events, rx, recycled, retry, refused, noMemory>>

\* A variant with a defect: one attempt too many.
TryAgainOnceMore(r) == r = "again" /\ retry < AdvRetryMax

\* One more attempt is to be made.
TryAgain(r) == r = "again" /\ retry < AdvRetryMax - 1

TryStart(r) ==
  /\ AdvStart(r)
  /\ retry' = IF TryAgain(r) THEN retry + 1 ELSE retry
  /\ UNCHANGED <<host, conn, events, rx, recycled, bt_ready_sem, advertising_enabled, refused>>
=============================================================================
