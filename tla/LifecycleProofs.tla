--------------------------- MODULE LifecycleProofs ---------------------------
(* Theorems about Lifecycle, for any number of attempts to start advertising, *)
(* any set of baselines and both builds.                                      *)
EXTENDS Lifecycle, SequenceTheorems, TLAPS

-----------------------------------------------------------------------------
(* The inductive invariant *)

InConnected == {"stop", "clear", "count", "battery"}
InDisconnected == {"left", "battery_left"}

\* The life of the connection object, told by the callbacks that the receive thread
\* still has to make and by the one it is in.
PhaseInv ==
  \/ conn = "free" /\ events = <<>> /\ rx = "idle"
  \/ conn = "up" /\ events = <<"connected">> /\ rx = "idle"
  \/ conn = "up" /\ events = <<>> /\ rx \in InConnected \cup {"idle"}
  \/ conn = "gone" /\ events = <<"connected", "disconnected">> /\ rx = "idle"
  \/ conn = "gone" /\ events = <<"disconnected">> /\ rx \in InConnected \cup {"idle"}
  \/ conn = "gone" /\ events = <<"failed">> /\ rx = "idle"
  \/ conn = "gone" /\ events = <<>> /\ rx \in InDisconnected \cup {"idle"}

\* Nothing is advertised while the object is in use, or before main has started
\* advertising.
LinkInv ==
  /\ advertising => conn = "free" /\ ~recycled
  /\ recycled => conn = "free"
  /\ main \notin {"started", "done"} =>
       conn = "free" /\ ~advertising /\ ~recycled /\ work # "flag"
  /\ ~noMemory

\* The link whose connected callback has been made, and the disconnected one not.
Counted ==
  /\ rx = "idle"
  /\ \/ conn = "up" /\ events = <<>>
     \/ conn = "gone" /\ events = <<"disconnected">>

CountInv ==
  /\ sm_connected_count = IF Counted \/ rx \in {"battery", "left"} THEN 1 ELSE 0
  /\ bas_connected_count = IF Counted \/ rx \in {"left", "battery_left"} THEN 1 ELSE 0

BootInv ==
  /\ main \in {"uptime", "ready", "start", "started", "done"} => armed
  /\ main \in {"ess", "arm", "uptime", "ready", "start", "started", "done"} => bas_initialized

Types ==
  /\ host \in {"off", "starting", "ready", "broken"}
  /\ advertising \in BOOLEAN /\ recycled \in BOOLEAN
  /\ bt_ready_sem \in 0 .. 1
  /\ advertising_enabled \in BOOLEAN
  /\ retry \in 0 .. AdvRetryMax - 1
  /\ refused \in BOOLEAN /\ noMemory \in BOOLEAN
  /\ main \in DOMAIN Then \cup {"done", "failed"}
  /\ work \in {"idle", "flag", "sample", "fetch", "write"}
  /\ initialized \in BOOLEAN /\ update_callback \in BOOLEAN
  /\ armed \in BOOLEAN /\ bas_initialized \in BOOLEAN

IInv == Types /\ PhaseInv /\ LinkInv /\ CountInv /\ BootInv /\ FlagCoversAdvertising

-----------------------------------------------------------------------------
(* The callbacks that wait for the receive thread *)

LEMMA Lists ==
  /\ Head(<<"connected">>) = "connected" /\ Tail(<<"connected">>) = <<>>
  /\ Head(<<"failed">>) = "failed" /\ Tail(<<"failed">>) = <<>>
  /\ Head(<<"disconnected">>) = "disconnected" /\ Tail(<<"disconnected">>) = <<>>
  /\ Head(<<"connected", "disconnected">>) = "connected"
  /\ Tail(<<"connected", "disconnected">>) = <<"disconnected">>
  OBVIOUS

LEMMA Appended ==
  /\ Append(<<>>, "connected") = <<"connected">>
  /\ Append(<<>>, "failed") = <<"failed">>
  /\ Append(<<>>, "disconnected") = <<"disconnected">>
  /\ Append(<<"connected">>, "disconnected") = <<"connected", "disconnected">>
  <1>1. /\ Append(<<>>, "connected") = <<"connected">>
        /\ Append(<<>>, "failed") = <<"failed">>
        /\ Append(<<>>, "disconnected") = <<"disconnected">>
    OBVIOUS
  <1>2. Append(<<"connected">>, "disconnected") = <<"connected", "disconnected">>
    <2> DEFINE s == Append(<<"connected">>, "disconnected")
               t == <<"connected", "disconnected">>
               E == {"connected", "disconnected"}
    <2>1. <<"connected">> \in Seq(E) /\ t \in Seq(E) /\ Len(t) = 2
      OBVIOUS
    <2>2. s \in Seq(E) /\ Len(s) = 2 /\ s[1] = "connected" /\ s[2] = "disconnected"
      BY <2>1, AppendProperties
    <2>3. \A i \in 1 .. Len(s) : s[i] = t[i]
      BY <2>2
    <2>4. QED
      BY <2>1, <2>2, <2>3, SeqEqual
  <1>3. QED
    BY <1>1, <1>2

LEMMA Distinct ==
  /\ <<"connected">> # <<>> /\ <<"failed">> # <<>> /\ <<"disconnected">> # <<>>
  /\ <<"connected", "disconnected">> # <<>>
  /\ <<"connected">> # <<"failed">> /\ <<"connected">> # <<"disconnected">>
  /\ <<"failed">> # <<"disconnected">>
  /\ <<"connected", "disconnected">> # <<"connected">>
  /\ <<"connected", "disconnected">> # <<"failed">>
  /\ <<"connected", "disconnected">> # <<"disconnected">>
  OBVIOUS

LEMMA Delivery ==
  ASSUME PhaseInv, NEW e, Delivers(e)
  PROVE  /\ rx = "idle"
         /\ \/ e = "connected" /\ conn = "up" /\ events = <<"connected">> /\ events' = <<>>
            \/ /\ e = "connected" /\ conn = "gone"
               /\ events = <<"connected", "disconnected">> /\ events' = <<"disconnected">>
            \/ e = "failed" /\ conn = "gone" /\ events = <<"failed">> /\ events' = <<>>
            \/ /\ e = "disconnected" /\ conn = "gone"
               /\ events = <<"disconnected">> /\ events' = <<>>
  BY Lists DEF PhaseInv, Delivers

LEMMA EventTypes ==
  ASSUME PhaseInv
  PROVE  /\ events \in Seq({"connected", "failed", "disconnected"}) /\ Len(events) <= 2
         /\ conn \in {"free", "up", "gone"}
         /\ rx \in {"idle", "stop", "clear", "count", "battery", "left", "battery_left"}
  <1> DEFINE E == {"connected", "failed", "disconnected"}
  <1>1. /\ <<>> \in Seq(E) /\ Len(<<>>) <= 2
        /\ <<"connected">> \in Seq(E) /\ Len(<<"connected">>) <= 2
        /\ <<"failed">> \in Seq(E) /\ Len(<<"failed">>) <= 2
        /\ <<"disconnected">> \in Seq(E) /\ Len(<<"disconnected">>) <= 2
    OBVIOUS
  <1>2. <<"connected", "disconnected">> \in Seq(E) /\ Len(<<"connected", "disconnected">>) <= 2
    OBVIOUS
  <1>3. events \in Seq(E) /\ Len(events) <= 2
    BY <1>1, <1>2 DEF PhaseInv
  <1>4. QED
    BY <1>3 DEF PhaseInv, InConnected, InDisconnected

LEMMA InitInv == Init => IInv
  <1> SUFFICES ASSUME Init PROVE IInv
    OBVIOUS
  <1> USE DEF Init, AdvertiserInit
  <1>1. Types
    <2>1. retry \in 0 .. AdvRetryMax - 1 /\ bt_ready_sem \in 0 .. 1
      BY AdvRetryMaxAssumption
    <2>2. main \in DOMAIN Then
      BY DEF Then
    <2>3. QED
      BY <2>1, <2>2 DEF Types
  <1>2. PhaseInv /\ LinkInv /\ BootInv /\ FlagCoversAdvertising
    BY DEF PhaseInv, LinkInv, BootInv, FlagCoversAdvertising
  <1>3. CountInv
    BY Distinct DEF CountInv, Counted
  <1>4. QED
    BY <1>1, <1>2, <1>3 DEF IInv

-----------------------------------------------------------------------------
\* The place of the receive thread and the counts depend on nothing else.
LEMMA LinkUnchanged ==
  ASSUME IInv, UNCHANGED <<conn, events, rx, countVars>>
  PROVE  PhaseInv' /\ CountInv'
  BY DEF IInv, PhaseInv, CountInv, Counted, countVars

LEMMA BootStep ==
  ASSUME IInv,
         Fails \/ InitAdvertiser \/ LoadSettings \/ InitSensors \/ InitBattery
         \/ InitEss \/ Arm \/ InitUptime \/ ReadyTimeout
  PROVE  IInv'
  <1> USE DEF IInv, Types, LinkInv, BootInv, FlagCoversAdvertising, Goes, Then,
              advertiserVars, bootVars, countVars
  <1>1. CASE Fails
    BY <1>1, LinkUnchanged DEF Fails
  <1>2. CASE InitAdvertiser
    BY <1>2, LinkUnchanged DEF InitAdvertiser
  <1>3. CASE LoadSettings
    BY <1>3, LinkUnchanged DEF LoadSettings
  <1>4. CASE InitSensors
    BY <1>4, LinkUnchanged DEF InitSensors
  <1>5. CASE InitBattery
    BY <1>5, LinkUnchanged DEF InitBattery
  <1>6. CASE InitEss
    BY <1>6, LinkUnchanged DEF InitEss
  <1>7. CASE Arm
    BY <1>7, LinkUnchanged DEF Arm
  <1>8. CASE InitUptime
    BY <1>8, LinkUnchanged DEF InitUptime
  <1>9. CASE ReadyTimeout
    BY <1>9, LinkUnchanged DEF ReadyTimeout
  <1>10. QED
    BY <1>1, <1>2, <1>3, <1>4, <1>5, <1>6, <1>7, <1>8, <1>9

LEMMA AdvertiseStep ==
  ASSUME IInv, WaitReady \/ StartAdvertising \/ AdvertisingStarted
  PROVE  IInv'
  <1> USE DEF IInv, Types, LinkInv, BootInv, FlagCoversAdvertising, Goes, Then,
              bootVars, countVars
  <1>1. CASE WaitReady
    <2>1. ~advertising /\ advertising' = FALSE /\ advertising_enabled' = FALSE
      BY <1>1 DEF WaitReady, TakeReady
    <2>2. main = "ready" /\ main' = "start" /\ bt_ready_sem' = 0
      BY <1>1 DEF WaitReady, TakeReady
    <2>3. UNCHANGED <<host, recycled, retry, refused, noMemory, conn, events, rx, work,
                      bootVars, countVars>>
      BY <1>1 DEF WaitReady, TakeReady
    <2>4. Types'
      <3> HIDE DEF Then
      <3>1. main' \in DOMAIN Then
        <4>1. "start" \in DOMAIN Then
          BY ONLY DEF Then
        <4>2. QED
          BY ONLY <2>2, <4>1
      <3>2. bt_ready_sem' \in 0 .. 1 /\ retry' \in 0 .. AdvRetryMax - 1
        BY <2>2, <2>3
      <3>3. advertising' \in BOOLEAN /\ advertising_enabled' \in BOOLEAN
        BY ONLY <2>1
      <3>4. host' \in {"off", "starting", "ready", "broken"} /\ recycled' \in BOOLEAN
            /\ work' \in {"idle", "flag", "sample", "fetch", "write"}
        BY ONLY Types, <2>3
      <3>5. refused' \in BOOLEAN /\ noMemory' \in BOOLEAN
        BY ONLY Types, <2>3
      <3>6. initialized' \in BOOLEAN /\ update_callback' \in BOOLEAN
            /\ armed' \in BOOLEAN /\ bas_initialized' \in BOOLEAN
        BY ONLY Types, <2>3
      <3>7. QED
        BY ONLY <3>1, <3>2, <3>3, <3>4, <3>5, <3>6
    <2>5. QED
      BY <2>1, <2>2, <2>3, <2>4, LinkUnchanged
  <1>2. CASE StartAdvertising
    <2>1. PICK r \in {"ok", "again", "error"} :
            TryStart(r) /\ main' = IF r = "ok" THEN Then["start"]
                                   ELSE IF TryAgain(r) THEN main ELSE "failed"
      BY <1>2 DEF StartAdvertising
    <2>2. retry' \in 0 .. AdvRetryMax - 1
      BY <2>1, AdvRetryMaxAssumption DEF TryStart, TryAgain
    <2>3. QED
      BY <1>2, <2>1, <2>2, LinkUnchanged DEF StartAdvertising, TryStart, AdvStart
  <1>3. CASE AdvertisingStarted
    BY <1>3, LinkUnchanged DEF AdvertisingStarted, SetFlag
  <1>4. QED
    BY <1>1, <1>2, <1>3

\* What a callback does to the invariant is its effect on the phase and the counts.
LEMMA RxInv ==
  ASSUME IInv, RxStep
  PROVE  IInv'
  <1> USE DEF IInv
  <1> DEFINE U == UNCHANGED <<baselineVars, main, work, bootVars>>
  <1>0. U
    BY DEF RxStep
  <1>a. UNCHANGED <<host, recycled, bt_ready_sem, retry, refused, noMemory, conn>>
    BY DEF RxStep, ConnectFailed, Connected, StopOnConnect, ClearOnConnect, Disconnected,
           SmOnConnected, BasOnConnected, SmOnDisconnected, BasOnDisconnected, RxGoes
  <1>b. UNCHANGED advertising \/ (rx = "stop" /\ advertising' = FALSE)
    BY DEF RxStep, ConnectFailed, Connected, StopOnConnect, ClearOnConnect, Disconnected,
           SmOnConnected, BasOnConnected, SmOnDisconnected, BasOnDisconnected, RxGoes
  <1>c. UNCHANGED advertising_enabled \/ (rx = "clear" /\ advertising_enabled' = FALSE)
    BY DEF RxStep, ConnectFailed, Connected, StopOnConnect, ClearOnConnect, Disconnected,
           SmOnConnected, BasOnConnected, SmOnDisconnected, BasOnDisconnected, RxGoes
  <1>1. PhaseInv' /\ CountInv'
    <2> USE DEF InConnected, InDisconnected
    <2>1. CASE ConnectFailed /\ UNCHANGED countVars
      <3>1. /\ conn = "gone" /\ rx = "idle" /\ events = <<"failed">>
            /\ events' = <<>> /\ UNCHANGED <<conn, rx, countVars>>
        BY <2>1, Delivery DEF ConnectFailed
      <3>2. PhaseInv'
        BY <3>1 DEF PhaseInv
      <3>3. CountInv'
        BY <3>1, Distinct DEF CountInv, Counted, countVars
      <3>4. QED
        BY <3>2, <3>3
    <2>2. CASE Connected /\ UNCHANGED countVars
      <3>1. /\ rx = "idle" /\ rx' \in {"stop", "count"} /\ UNCHANGED <<conn, countVars>>
            /\ \/ conn = "up" /\ events = <<"connected">> /\ events' = <<>>
               \/ /\ conn = "gone" /\ events = <<"connected", "disconnected">>
                  /\ events' = <<"disconnected">>
        BY <2>2, Delivery DEF Connected
      <3>2. PhaseInv'
        BY <3>1 DEF PhaseInv
      <3>3. CountInv'
        BY <3>1, Distinct DEF CountInv, Counted, countVars
      <3>4. QED
        BY <3>2, <3>3
    <2>3. CASE (StopOnConnect \/ ClearOnConnect) /\ UNCHANGED countVars
      <3>1. /\ rx \in {"stop", "clear"} /\ rx' \in {"clear", "count"}
            /\ UNCHANGED <<conn, events, countVars>>
        BY <2>3 DEF StopOnConnect, ClearOnConnect
      <3>2. PhaseInv'
        BY <3>1 DEF PhaseInv
      <3>3. CountInv'
        BY <3>1 DEF CountInv, Counted, countVars
      <3>4. QED
        BY <3>2, <3>3
    <2>4. CASE Disconnected /\ UNCHANGED countVars
      <3>1. /\ conn = "gone" /\ rx = "idle" /\ events = <<"disconnected">> /\ rx' = "left"
            /\ events' = <<>> /\ UNCHANGED <<conn, countVars>>
        BY <2>4, Delivery DEF Disconnected
      <3>2. PhaseInv'
        BY <3>1 DEF PhaseInv
      <3>3. CountInv'
        BY <3>1, Distinct DEF CountInv, Counted, countVars
      <3>4. QED
        BY <3>2, <3>3
    <2>5. CASE SmOnConnected
      <3>1. rx = "count" /\ rx' = "battery" /\ UNCHANGED <<conn, events, bas_connected_count>>
        BY <2>5 DEF SmOnConnected, RxGoes
      <3>2. armed
        BY <3>1 DEF PhaseInv, LinkInv, BootInv
      <3>3. PhaseInv'
        BY <3>1 DEF PhaseInv
      <3>4. sm_connected_count = 0 /\ sm_connected_count' = 1 /\ bas_connected_count = 0
        BY <2>5, <3>1, <3>2 DEF CountInv, Counted, SmOnConnected
      <3>5. CountInv'
        BY <3>1, <3>4 DEF CountInv, Counted
      <3>6. QED
        BY <3>3, <3>5
    <2>6. CASE BasOnConnected
      <3>1. rx = "battery" /\ rx' = "idle" /\ UNCHANGED <<conn, events, sm_connected_count>>
        BY <2>6 DEF BasOnConnected, RxGoes
      <3>2. bas_initialized
        BY <3>1 DEF PhaseInv, LinkInv, BootInv
      <3>3. PhaseInv'
        BY <3>1 DEF PhaseInv
      <3>4. sm_connected_count = 1 /\ bas_connected_count = 0 /\ bas_connected_count' = 1
        BY <2>6, <3>1, <3>2 DEF CountInv, Counted, BasOnConnected
      <3>5. Counted'
        BY <3>1 DEF PhaseInv, Counted
      <3>6. CountInv'
        BY <3>1, <3>4, <3>5 DEF CountInv
      <3>7. QED
        BY <3>3, <3>6
    <2>7. CASE SmOnDisconnected
      <3>1. rx = "left" /\ rx' = "battery_left" /\ UNCHANGED <<conn, events, bas_connected_count>>
        BY <2>7 DEF SmOnDisconnected, RxGoes
      <3>2. PhaseInv'
        BY <3>1 DEF PhaseInv
      <3>3. sm_connected_count = 1 /\ sm_connected_count' = 0 /\ bas_connected_count = 1
        BY <2>7, <3>1 DEF CountInv, Counted, SmOnDisconnected
      <3>4. CountInv'
        BY <3>1, <3>3 DEF CountInv, Counted
      <3>5. QED
        BY <3>2, <3>4
    <2>8. CASE BasOnDisconnected
      <3>1. /\ rx = "battery_left" /\ rx' = "idle"
            /\ UNCHANGED <<conn, events, sm_connected_count>>
        BY <2>8 DEF BasOnDisconnected, RxGoes
      <3>2. PhaseInv' /\ conn = "gone" /\ events = <<>>
        BY <3>1 DEF PhaseInv
      <3>3. sm_connected_count = 0 /\ bas_connected_count = 1 /\ bas_connected_count' = 0
        BY <2>8, <3>1 DEF CountInv, Counted, BasOnDisconnected
      <3>4. ~Counted'
        BY <3>1, <3>2, Distinct DEF Counted
      <3>5. CountInv'
        BY <3>1, <3>3, <3>4 DEF CountInv
      <3>6. QED
        BY <3>2, <3>5
    <2>9. QED
      BY <2>1, <2>2, <2>3, <2>4, <2>5, <2>6, <2>7, <2>8 DEF RxStep
  <1>2. Types'
    <2>1. UNCHANGED <<main, work, bootVars>>
      BY <1>0
    <2>2. advertising' \in BOOLEAN /\ advertising_enabled' \in BOOLEAN
      BY <1>b, <1>c DEF Types
    <2>3. QED
      BY <1>a, <2>1, <2>2 DEF Types, bootVars
  <1>3. LinkInv' /\ BootInv' /\ FlagCoversAdvertising'
    <2>1. UNCHANGED <<main, work, bootVars>>
      BY <1>0
    <2>2. rx # "idle" => ~advertising
      BY Distinct DEF LinkInv, PhaseInv
    <2>3. QED
    BY <1>a, <1>b, <1>c, <2>1, <2>2 DEF LinkInv, BootInv, FlagCoversAdvertising, bootVars
  <1>4. QED
    BY <1>1, <1>2, <1>3

LEMMA WorkInv ==
  ASSUME IInv, WorkStep
  PROVE  IInv'
  <1> USE DEF IInv
  <1>0. UNCHANGED <<main, bootVars, countVars, conn, events, rx>>
    BY DEF WorkStep, BleRecycled, BleRecycledFlag, AqWork, AqSampled, AqFetch, AqWrite,
           Recycled, RecycledFlag, SetFlag, advertiserVars
  <1>1. PhaseInv' /\ CountInv'
    BY <1>0, LinkUnchanged
  <1>2. CASE BleRecycled
    <2>1. PICK r \in {"ok", "again", "error"} :
            Recycled(r) /\ work' = IF r = "ok" THEN "flag" ELSE "idle"
      BY <1>2 DEF BleRecycled
    <2>2. recycled /\ ~recycled' /\ conn = "free" /\ main \in {"started", "done"}
      BY <2>1 DEF Recycled, LinkInv
    <2>3. UNCHANGED <<host, bt_ready_sem, advertising_enabled, retry>>
      BY <2>1 DEF Recycled
    <2>4. /\ advertising' = (r = "ok") /\ ~noMemory' /\ refused' = (r # "ok")
          /\ noMemory' \in BOOLEAN
      BY <2>1, <2>2 DEF Recycled, AdvStart, LinkInv, Types
    <2>5. recycled' \in BOOLEAN /\ work' \in {"idle", "flag"}
      BY <2>1 DEF Recycled
    <2>6. Types'
      BY <1>0, <2>3, <2>4, <2>5 DEF Types, bootVars
    <2>7. LinkInv' /\ BootInv' /\ FlagCoversAdvertising'
      BY <1>0, <2>1, <2>2, <2>3, <2>4 DEF LinkInv, BootInv, FlagCoversAdvertising, bootVars
    <2>8. QED
      BY <1>1, <2>6, <2>7
  <1>3. CASE BleRecycledFlag
    BY <1>0, <1>1, <1>3
    DEF BleRecycledFlag, RecycledFlag, SetFlag, Types, LinkInv, BootInv,
        FlagCoversAdvertising, bootVars
  <1>4. CASE AqWork \/ AqSampled \/ AqFetch \/ AqWrite
    BY <1>0, <1>1, <1>4
    DEF AqWork, AqSampled, AqFetch, AqWrite, Types, LinkInv, BootInv,
        FlagCoversAdvertising, bootVars, advertiserVars
  <1>5. QED
    BY <1>2, <1>3, <1>4 DEF WorkStep

LEMMA HostInv ==
  ASSUME IInv, HostStep
  PROVE  IInv'
  <1> USE DEF IInv
  <1>0. UNCHANGED <<main, work, bootVars, countVars>>
    BY DEF HostStep
  <1>1. CASE BtReady
    BY <1>0, <1>1, LinkUnchanged
    DEF BtReady, Types, LinkInv, BootInv, FlagCoversAdvertising, bootVars
  <1>2. CASE HostConnects
    <2>1. /\ advertising /\ ~advertising' /\ conn = "free" /\ events = <<>> /\ rx = "idle"
          /\ advertising' \in BOOLEAN
          /\ \/ conn' = "up" /\ events' = <<"connected">>
             \/ conn' = "gone" /\ events' = <<"failed">>
      BY <1>2, Appended DEF HostConnects, LinkInv, PhaseInv
    <2>2. UNCHANGED <<host, rx, recycled, bt_ready_sem, advertising_enabled, retry,
                      refused, noMemory>>
      BY <1>2 DEF HostConnects
    <2>3. PhaseInv' /\ CountInv'
      BY <1>0, <2>1, <2>2, Distinct DEF PhaseInv, CountInv, Counted, countVars
    <2>4. Types' /\ LinkInv' /\ BootInv' /\ FlagCoversAdvertising'
      BY <1>0, <2>1, <2>2 DEF Types, LinkInv, BootInv, FlagCoversAdvertising, bootVars
    <2>5. QED
      BY <2>3, <2>4
  <1>3. CASE HostDisconnects
    <2>1. /\ conn = "up" /\ conn' = "gone"
          /\ \/ /\ events = <<"connected">> /\ rx = "idle"
                /\ events' = <<"connected", "disconnected">>
             \/ /\ events = <<>> /\ rx \in InConnected \cup {"idle"}
                /\ events' = <<"disconnected">>
      BY <1>3, Appended DEF HostDisconnects, PhaseInv
    <2>2. UNCHANGED <<host, advertising, rx, recycled, bt_ready_sem, advertising_enabled,
                      retry, refused, noMemory>>
      BY <1>3 DEF HostDisconnects
    <2>3. PhaseInv'
      BY <2>1, <2>2 DEF PhaseInv
    <2>4. CountInv'
      BY <1>0, <2>1, <2>2, Distinct DEF CountInv, Counted, countVars, InConnected
    <2>5. Types' /\ LinkInv' /\ BootInv' /\ FlagCoversAdvertising'
      BY <1>0, <2>1, <2>2 DEF Types, LinkInv, BootInv, FlagCoversAdvertising, bootVars
    <2>6. QED
      BY <2>3, <2>4, <2>5
  <1>4. CASE HostRecycles
    <2>1. /\ conn = "gone" /\ events = <<>> /\ rx = "idle" /\ conn' = "free"
          /\ recycled' = TRUE
          /\ UNCHANGED <<host, advertising, events, rx, bt_ready_sem, advertising_enabled,
                         retry, refused, noMemory>>
      BY <1>4 DEF HostRecycles
    <2>2. PhaseInv' /\ CountInv'
      BY <1>0, <2>1, Distinct DEF PhaseInv, CountInv, Counted, countVars
    <2>3. Types' /\ LinkInv' /\ BootInv' /\ FlagCoversAdvertising'
      BY <1>0, <2>1 DEF Types, LinkInv, BootInv, FlagCoversAdvertising, bootVars
    <2>4. QED
      BY <2>2, <2>3
  <1>5. QED
    BY <1>1, <1>2, <1>3, <1>4 DEF HostStep

LEMMA RestartInv ==
  ASSUME Restart
  PROVE  IInv'
  <1> USE DEF Restart, AdvertiserReset
  <1>1. Types'
    <2>1. retry' \in 0 .. AdvRetryMax - 1 /\ bt_ready_sem' \in 0 .. 1
      BY AdvRetryMaxAssumption
    <2>2. main' \in DOMAIN Then
      BY DEF Then
    <2>3. QED
      BY <2>1, <2>2 DEF Types
  <1>2. PhaseInv' /\ LinkInv' /\ BootInv' /\ FlagCoversAdvertising'
    BY DEF PhaseInv, LinkInv, BootInv, FlagCoversAdvertising
  <1>3. CountInv'
    BY Distinct DEF CountInv, Counted
  <1>4. QED
    BY <1>1, <1>2, <1>3 DEF IInv

LEMMA NextInv == IInv /\ [Next]_vars => IInv'
  <1> SUFFICES ASSUME IInv, [Next]_vars PROVE IInv'
    OBVIOUS
  <1>1. CASE MainStep
    BY <1>1, BootStep, AdvertiseStep DEF MainStep
  <1>2. CASE SensorStep \/ UNCHANGED vars
    <2>1. UNCHANGED <<advertiserVars, main, work, bootVars, countVars>>
      BY <1>2 DEF SensorStep, vars
    <2>2. QED
      BY <2>1 DEF IInv, Types, PhaseInv, LinkInv, CountInv, Counted, BootInv,
                  FlagCoversAdvertising, advertiserVars, bootVars, countVars
  <1>3. QED
    BY <1>1, <1>2, RxInv, WorkInv, HostInv, RestartInv DEF Next

LEMMA Inductive == Spec => []IInv
  BY InitInv, NextInv, PTL DEF Spec

-----------------------------------------------------------------------------
(* The baseline *)

\* Nothing is restored or saved before the settings are loaded and the driver has
\* started, and what is about to be written was read from a conditioned sensor.
BaselineInv ==
  /\ BaselineTypeOK
  /\ ccs811_conditioning_complete => conditioning = "over"
  /\ conditioning = "over" => baseline \in learned
  /\ main \in {"advertiser", "settings"} => load = "none" /\ stored_baseline = NoBaseline
  /\ main \in {"advertiser", "settings", "sensors"} => restored = "off" /\ conditioning = "none"
  /\ main = "sensors" => \/ load = "ok" /\ stored_baseline = flash
                         \/ load = "failed" /\ stored_baseline = NoBaseline
  /\ main \notin {"started", "done"} => work = "idle"
  /\ work = "fetch" => conditioning = "over"
  /\ work = "write" => stored_baseline \in learned

LEMMA BaselineStart == Init => BaselineInv
  BY DEF Init, BaselineInit, BaselineInv, BaselineTypeOK

\* A step of main that is none of LoadSettings and InitSensors leaves the baseline alone.
LEMMA OtherMainSteps ==
  ASSUME MainStep, ~LoadSettings, ~InitSensors
  PROVE  /\ UNCHANGED <<baselineVars, work>>
         /\ main # "done" /\ main' # "sensors"
         /\ main' \in {"advertiser", "settings"} => main = "advertiser"
         /\ main' \in {"started", "done"} \/ main \notin {"started", "done"}
  BY DEF MainStep, Fails, InitAdvertiser, InitBattery, InitEss, Arm, InitUptime, WaitReady,
         ReadyTimeout, StartAdvertising, AdvertisingStarted, Goes, Then

LEMMA BaselineNext == IInv /\ BaselineInv /\ [Next]_vars => BaselineInv'
  <1> SUFFICES ASSUME IInv, BaselineInv, [Next]_vars PROVE BaselineInv'
    OBVIOUS
  <1> USE DEF BaselineInv, BaselineTypeOK
  <1>1. CASE LoadSettings
    BY <1>1 DEF LoadSettings, LoadBaseline, Goes, Then
  <1>2. CASE InitSensors
    <2>1. main = "sensors" /\ main' = "battery" /\ work' = "idle" /\ work = "idle"
      BY <1>2 DEF InitSensors, Goes, Then
    <2>2. BaselineTypeOK' /\ conditioning' \in {"none", "running"}
      BY <1>2, <2>1 DEF InitSensors, StartDriver, RestoreBaseline
    <2>3. ccs811_conditioning_complete' = FALSE
      BY <1>2 DEF InitSensors, StartDriver
    <2>4. QED
      BY <2>1, <2>2, <2>3
  <1>3. CASE MainStep /\ ~LoadSettings /\ ~InitSensors
    BY <1>3, OtherMainSteps DEF baselineVars
  <1>4. CASE RxStep \/ HostStep \/ UNCHANGED vars
    BY <1>4 DEF RxStep, HostStep, vars, baselineVars
  <1>5. CASE WorkStep
    <2>1. CASE BleRecycled \/ BleRecycledFlag
      <3>1. main \in {"started", "done"} /\ UNCHANGED <<main, baselineVars>>
            /\ work' \in {"idle", "flag"}
        BY <2>1 DEF BleRecycled, BleRecycledFlag, Recycled, IInv, LinkInv
      <3>2. QED
        BY <3>1 DEF baselineVars
    <2>2. CASE AqWork \/ AqSampled
      <3>1. UNCHANGED <<main, baselineVars>> /\ work' \in {"sample", "fetch", "idle"}
        BY <2>2 DEF AqWork, AqSampled
      <3>2. work' = "fetch" => conditioning = "over"
        BY <2>2 DEF AqWork, AqSampled, BaselineSaveDue
      <3>3. main \in {"started", "done"}
        BY <2>2 DEF AqWork, AqSampled, IInv, CountInv, Counted, LinkInv, PhaseInv
      <3>4. QED
        BY <3>1, <3>2, <3>3 DEF baselineVars
    <2>3. CASE AqFetch
      BY <2>3 DEF AqFetch, FetchBaseline, baselineVars
    <2>4. CASE AqWrite
      BY <2>4 DEF AqWrite, WriteBaseline
    <2>5. QED
      BY <1>5, <2>1, <2>2, <2>3, <2>4 DEF WorkStep
  <1>6. CASE SensorStep
    <2>0. UNCHANGED <<main, work>>
      BY <1>6 DEF SensorStep
    <2>1. CASE ConditioningElapses
      <3>1. /\ baseline \in learned' /\ learned \subseteq learned'
            /\ learned' \in SUBSET Baselines
            /\ conditioning = "running" /\ conditioning' = "over"
        BY <2>1 DEF ConditioningElapses
      <3>2. UNCHANGED <<flash, stored_baseline, load, baseline, ccs811_conditioning_complete,
                        dayPassed, restored>>
        BY <2>1 DEF ConditioningElapses
      <3>3. BaselineTypeOK'
        BY <3>1, <3>2
      <3>4. QED
        BY <2>0, <3>1, <3>2, <3>3
    <2>2. CASE ConditioningCompletes \/ DayPasses
      <3>1. UNCHANGED <<flash, stored_baseline, load, baseline, conditioning, restored, learned>>
        BY <2>2 DEF ConditioningCompletes, DayPasses
      <3>2. /\ ccs811_conditioning_complete' \in BOOLEAN
            /\ ccs811_conditioning_complete' => conditioning = "over"
        <4>1. CASE ConditioningCompletes
          BY <4>1 DEF ConditioningCompletes
        <4>2. CASE DayPasses
          BY <4>2 DEF DayPasses
        <4>3. QED
          BY <2>2, <4>1, <4>2
      <3>3. dayPassed' \in BOOLEAN
        BY <2>2 DEF ConditioningCompletes, DayPasses
      <3>4. QED
        BY <2>0, <3>1, <3>2, <3>3
    <2>3. CASE BaselineDrifts
      <3>1. /\ baseline' \in Baselines /\ learned \subseteq learned'
            /\ learned' \in SUBSET Baselines
            /\ conditioning = "over" => baseline' \in learned'
        BY <2>3 DEF BaselineDrifts
      <3>2. QED
        BY <2>0, <2>3, <3>1 DEF BaselineDrifts
    <2>4. QED
      BY <1>6, <2>1, <2>2, <2>3 DEF SensorStep
  <1>7. CASE Restart
    BY <1>7 DEF Restart, BaselineReset
  <1>8. QED
    BY <1>1, <1>2, <1>3, <1>4, <1>5, <1>6, <1>7 DEF Next

LEMMA BaselineInductive == Spec => []BaselineInv
  <1>1. Spec => []IInv
    BY Inductive
  <1>2. QED
    BY <1>1, BaselineStart, BaselineNext, PTL DEF Spec

LEMMA StoreInit == Init => Store!Init
  BY DEF Init, BaselineInit, Store!Init

\* A step of the device maps to a step of the store.
LEMMA StoreStep == IInv /\ BaselineInv /\ [Next]_vars => [Store!Next]_Store!vars
  <1> SUFFICES ASSUME IInv, BaselineInv, [Next]_vars
      PROVE  Store!Next \/ UNCHANGED <<flash, learned, restored>>
    BY DEF Store!vars
  <1> USE DEF Store!Next
  <1>1. CASE LoadSettings
    BY <1>1 DEF LoadSettings, LoadBaseline
  <1>2. CASE InitSensors
    <2>1. restored' \in {flash, "failed"} /\ restored = "off" /\ UNCHANGED <<flash, learned>>
      BY <1>2, BaselinesAssumption
      DEF InitSensors, StartDriver, RestoreBaseline, Goes, BaselineInv
    <2>2. QED
      BY <2>1 DEF Store!Start
  <1>3. CASE MainStep /\ ~LoadSettings /\ ~InitSensors
    BY <1>3, OtherMainSteps DEF baselineVars
  <1>4. CASE RxStep \/ HostStep \/ UNCHANGED vars
    BY <1>4 DEF RxStep, HostStep, vars, baselineVars
  <1>5. CASE WorkStep
    <2>1. CASE AqWrite
      BY <2>1 DEF AqWrite, WriteBaseline, BaselineInv, Store!Save
    <2>2. CASE ~AqWrite
      BY <1>5, <2>2 DEF WorkStep, BleRecycled, BleRecycledFlag, AqWork, AqSampled, AqFetch,
                        FetchBaseline, baselineVars
    <2>3. QED
      BY <2>1, <2>2
  <1>6. CASE SensorStep
    <2>1. CASE ConditioningElapses
      BY <2>1 DEF ConditioningElapses, Store!Learn, BaselineInv, BaselineTypeOK
    <2>2. CASE BaselineDrifts
      BY <2>2 DEF BaselineDrifts, Store!Learn
    <2>3. CASE ConditioningCompletes \/ DayPasses
      BY <2>3 DEF ConditioningCompletes, DayPasses
    <2>4. QED
      BY <1>6, <2>1, <2>2, <2>3 DEF SensorStep
  <1>7. CASE Restart
    BY <1>7 DEF Restart, BaselineReset, Store!LosePower
  <1>8. QED
    BY <1>1, <1>2, <1>3, <1>4, <1>5, <1>6, <1>7 DEF Next

-----------------------------------------------------------------------------
(* The clients, as the two services are told of them *)

\* The sensor manager is armed once per boot.
ArmInv == main \in {"advertiser", "settings", "sensors", "battery", "ess", "arm"} => ~armed

LEMMA ArmStart == Init => ArmInv
  BY DEF Init, ArmInv

\* A step of main tells nobody of a client, and takes no readiness back.
LEMMA MainServes ==
  ASSUME ArmInv, MainStep
  PROVE  /\ UNCHANGED countVars /\ ArmInv'
         /\ armed => armed'
         /\ bas_initialized => bas_initialized'
  <1> USE DEF ArmInv, Goes, Then, bootVars
  <1>1. CASE Fails \/ InitAdvertiser \/ LoadSettings \/ InitUptime \/ ReadyTimeout
    BY <1>1 DEF Fails, InitAdvertiser, LoadSettings, InitUptime, ReadyTimeout
  <1>2. CASE InitSensors \/ InitBattery \/ InitEss
    BY <1>2 DEF InitSensors, InitBattery, InitEss
  <1>3. CASE Arm
    BY <1>3 DEF Arm
  <1>4. CASE WaitReady \/ StartAdvertising \/ AdvertisingStarted
    BY <1>4 DEF WaitReady, StartAdvertising, AdvertisingStarted
  <1>5. QED
    BY <1>1, <1>2, <1>3, <1>4 DEF MainStep

LEMMA ArmNext == ArmInv /\ [Next]_vars => ArmInv'
  <1> SUFFICES ASSUME ArmInv, [Next]_vars PROVE ArmInv'
    OBVIOUS
  <1>1. CASE MainStep
    BY <1>1, MainServes
  <1>2. CASE RxStep \/ WorkStep \/ HostStep \/ SensorStep \/ UNCHANGED vars
    <2>1. UNCHANGED <<main, armed>>
      BY <1>2 DEF RxStep, WorkStep, HostStep, SensorStep, vars, bootVars, BleRecycled,
                  BleRecycledFlag, AqWork, AqSampled, AqFetch, AqWrite
    <2>2. QED
      BY <2>1 DEF ArmInv
  <1>3. CASE Restart
    BY <1>3 DEF Restart, ArmInv
  <1>4. QED
    BY <1>1, <1>2, <1>3 DEF Next

\* A callback of the receive thread is the next move of the turn, or none.
LEMMA RxTakesTurn == IInv /\ RxStep => [Link!LinkNext]_Link!linkVars
  <1> SUFFICES ASSUME IInv, RxStep
      PROVE  Link!LinkNext \/ UNCHANGED <<armed /\ bas_initialized, sm_connected_count,
                                         bas_connected_count>>
    BY DEF Link!linkVars
  <1> USE DEF IInv, Link!LinkNext
  <1>1. UNCHANGED <<armed, bas_initialized>>
    BY DEF RxStep, bootVars
  <1>2. CASE UNCHANGED countVars
    BY <1>1, <1>2 DEF countVars
  <1>3. CASE SmOnConnected
    <2>1. rx = "count" /\ UNCHANGED bas_connected_count
      BY <1>3 DEF SmOnConnected, RxGoes
    <2>2. armed /\ bas_initialized
      BY <2>1 DEF PhaseInv, LinkInv, BootInv
    <2>3. sm_connected_count = 0 /\ sm_connected_count' = 1 /\ bas_connected_count = 0
      BY <1>3, <2>1, <2>2 DEF CountInv, Counted, SmOnConnected
    <2>4. QED
      BY <1>1, <2>1, <2>2, <2>3 DEF Link!SensorsAttach
  <1>4. CASE BasOnConnected
    <2>1. rx = "battery" /\ UNCHANGED sm_connected_count
      BY <1>4 DEF BasOnConnected, RxGoes
    <2>2. bas_initialized
      BY <2>1 DEF PhaseInv, LinkInv, BootInv
    <2>3. sm_connected_count = 1 /\ bas_connected_count = 0 /\ bas_connected_count' = 1
      BY <1>4, <2>1, <2>2 DEF CountInv, Counted, BasOnConnected
    <2>4. QED
      BY <1>1, <2>1, <2>3 DEF Link!BatteryAttach
  <1>5. CASE SmOnDisconnected
    <2>1. rx = "left" /\ UNCHANGED bas_connected_count
      BY <1>5 DEF SmOnDisconnected, RxGoes
    <2>2. sm_connected_count = 1 /\ sm_connected_count' = 0 /\ bas_connected_count = 1
      BY <1>5, <2>1 DEF CountInv, Counted, SmOnDisconnected
    <2>3. QED
      BY <1>1, <2>1, <2>2 DEF Link!SensorsDetach
  <1>6. CASE BasOnDisconnected
    <2>1. rx = "battery_left" /\ UNCHANGED sm_connected_count
      BY <1>6 DEF BasOnDisconnected, RxGoes
    <2>2. sm_connected_count = 0 /\ bas_connected_count = 1 /\ bas_connected_count' = 0
      BY <1>6, <2>1 DEF CountInv, Counted, BasOnDisconnected
    <2>3. QED
      BY <1>1, <2>1, <2>2 DEF Link!BatteryDetach
  <1>7. QED
    BY <1>2, <1>3, <1>4, <1>5, <1>6 DEF RxStep

LEMMA LinkInit == Init => Link!LinkInit
  BY DEF Init, Link!LinkInit

\* Every step of the device is one move of the turn, or none.
LEMMA LinkStep == IInv /\ ArmInv /\ [Next]_vars => [Link!LinkNext]_Link!linkVars
  <1> SUFFICES ASSUME IInv, ArmInv, [Next]_vars PROVE [Link!LinkNext]_Link!linkVars
    OBVIOUS
  <1> USE DEF Link!LinkNext, Link!linkVars
  <1>1. CASE MainStep
    <2>1. /\ UNCHANGED <<sm_connected_count, bas_connected_count>>
          /\ (armed /\ bas_initialized) => (armed' /\ bas_initialized')
      BY <1>1, MainServes DEF countVars
    <2>2. /\ armed \in BOOLEAN /\ bas_initialized \in BOOLEAN
          /\ armed' \in BOOLEAN /\ bas_initialized' \in BOOLEAN
      BY NextInv DEF IInv, Types
    <2>3. CASE armed' /\ bas_initialized' /\ ~(armed /\ bas_initialized)
      BY <2>1, <2>2, <2>3 DEF Link!Serve
    <2>4. CASE (armed' /\ bas_initialized') <=> (armed /\ bas_initialized)
      BY <2>1, <2>2, <2>4
    <2>5. QED
      BY <2>1, <2>2, <2>3, <2>4
  <1>2. CASE RxStep
    BY <1>2, RxTakesTurn
  <1>3. CASE WorkStep \/ HostStep \/ SensorStep \/ UNCHANGED vars
    <2>1. UNCHANGED <<armed, bas_initialized, sm_connected_count, bas_connected_count>>
      BY <1>3 DEF WorkStep, HostStep, SensorStep, vars, bootVars, countVars, BleRecycled,
                  BleRecycledFlag, AqWork, AqSampled, AqFetch, AqWrite
    <2>2. QED
      BY <2>1
  <1>4. CASE Restart
    BY <1>4 DEF Restart, Link!Forget
  <1>5. QED
    BY <1>1, <1>2, <1>3, <1>4 DEF Next

-----------------------------------------------------------------------------
(* Being reachable *)

\* Once advertising has started, a device whose host refused no restart advertises,
\* has a connection object in use, or is about to be told that it is free again.
NeverStranded ==
  main \in {"started", "done"} /\ ~refused => advertising \/ conn # "free" \/ recycled

LEMMA StrandedInit == Init => NeverStranded
  BY DEF Init, NeverStranded

LEMMA StrandedNext == IInv /\ NeverStranded /\ [Next]_vars => NeverStranded'
  <1> SUFFICES ASSUME IInv, NeverStranded, [Next]_vars PROVE NeverStranded'
    OBVIOUS
  <1> USE DEF NeverStranded, IInv
  <1>1. CASE MainStep
    <2>1. CASE StartAdvertising
      <3>1. PICK r \in {"ok", "again", "error"} :
              /\ AdvStart(r)
              /\ main' = IF r = "ok" THEN Then["start"]
                         ELSE IF TryAgain(r) THEN main ELSE "failed"
        BY <2>1 DEF StartAdvertising, TryStart
      <3>2. CASE r = "ok"
        BY <3>1, <3>2 DEF AdvStart
      <3>3. CASE r # "ok"
        BY <2>1, <3>1, <3>3 DEF StartAdvertising
      <3>4. QED
        BY <3>2, <3>3
    <2>2. CASE AdvertisingStarted
      <3>1. main = "started" /\ UNCHANGED <<advertising, conn, recycled, refused>>
        BY <2>2 DEF AdvertisingStarted, Goes, SetFlag
      <3>2. QED
        BY <3>1
    <2>3. CASE ~StartAdvertising /\ ~AdvertisingStarted
      <3>1. main' \notin {"started", "done"}
        BY <1>1, <2>3 DEF MainStep, Fails, InitAdvertiser, LoadSettings, InitSensors, InitBattery,
           InitEss, Arm, InitUptime, WaitReady, ReadyTimeout, Goes, Then
      <3>2. QED
        BY <3>1
    <2>4. QED
      BY <2>1, <2>2, <2>3
  <1>2. CASE RxStep
    <2>1. UNCHANGED <<main, refused, conn, recycled>>
      BY <1>2 DEF RxStep, ConnectFailed, Connected, StopOnConnect, ClearOnConnect, Disconnected,
         SmOnConnected, BasOnConnected, SmOnDisconnected, BasOnDisconnected, RxGoes
    <2>2. UNCHANGED advertising \/ rx = "stop"
      BY <1>2 DEF RxStep, ConnectFailed, Connected, StopOnConnect, ClearOnConnect, Disconnected,
         SmOnConnected, BasOnConnected, SmOnDisconnected, BasOnDisconnected, RxGoes
    <2>3. rx = "stop" => conn # "free"
      BY DEF PhaseInv
    <2>4. QED
      BY <2>1, <2>2, <2>3
  <1>3. CASE WorkStep
    <2>1. CASE BleRecycled
      <3>1. PICK r \in {"ok", "again", "error"} : Recycled(r)
        BY <2>1 DEF BleRecycled
      <3>2. refused' = (r # "ok") /\ (r = "ok" => advertising')
        BY <3>1 DEF Recycled, AdvStart
      <3>3. QED
        BY <3>2
    <2>2. CASE ~BleRecycled
      <3>1. UNCHANGED <<main, refused, conn, recycled, advertising>>
        BY <1>3, <2>2 DEF WorkStep, BleRecycledFlag, RecycledFlag, SetFlag, AqWork, AqSampled,
           AqFetch, AqWrite, advertiserVars
      <3>2. QED
        BY <3>1
    <2>3. QED
      BY <2>1, <2>2
  <1>4. CASE HostStep
    <2>1. UNCHANGED <<main, refused>>
      BY <1>4 DEF HostStep, BtReady, HostConnects, HostDisconnects, HostRecycles
    <2>2. \/ UNCHANGED <<advertising, conn, recycled>>
          \/ conn' # "free"
          \/ recycled'
      BY <1>4 DEF HostStep, BtReady, HostConnects, HostDisconnects, HostRecycles
    <2>3. QED
      BY <2>1, <2>2
  <1>5. CASE SensorStep \/ UNCHANGED vars
    <2>1. UNCHANGED <<main, refused, conn, recycled, advertising>>
      BY <1>5 DEF SensorStep, vars, advertiserVars
    <2>2. QED
      BY <2>1
  <1>6. CASE Restart
    BY <1>6 DEF Restart
  <1>7. QED
    BY <1>1, <1>2, <1>3, <1>4, <1>5, <1>6 DEF Next

-----------------------------------------------------------------------------
(* The theorems *)

\* Every variable keeps its type.  The invariant that carries the proof follows the
\* connection object through its callbacks (PhaseInv).
THEOREM TypeCorrect == Spec => []LifecycleTypeOK
  <1>1. IInv /\ BaselineInv => LifecycleTypeOK
    <2> SUFFICES ASSUME IInv, BaselineInv PROVE LifecycleTypeOK
      OBVIOUS
    <2>1. AdvertiserTypeOK
      BY EventTypes DEF IInv, Types, AdvertiserTypeOK
    <2>2. sm_connected_count \in Nat /\ bas_connected_count \in Nat
      BY DEF IInv, CountInv
    <2>3. QED
      BY <2>1, <2>2 DEF LifecycleTypeOK, IInv, Types, BaselineInv
  <1>2. QED
    BY <1>1, Inductive, BaselineInductive, PTL

\* However connections come, fail and go, both services count the clients right.
THEOREM CountsFollowLinkHolds == Spec => []CountsFollowLink
  <1>1. IInv => CountsFollowLink
    <2> SUFFICES ASSUME IInv, rx = "idle", events = <<>>
        PROVE  /\ sm_connected_count = bas_connected_count
               /\ sm_connected_count = IF conn = "up" THEN 1 ELSE 0
      BY DEF CountsFollowLink
    <2>1. Counted <=> conn = "up"
      BY Distinct DEF Counted, IInv, PhaseInv
    <2>2. QED
      BY <2>1 DEF IInv, CountInv
  <1>2. QED
    BY <1>1, Inductive, PTL

\* Advertising is only ever started with a free connection object.
THEOREM RestartHasConnectionHolds == Spec => []RestartHasConnection
  <1>1. IInv => RestartHasConnection
    BY DEF IInv, LinkInv, RestartHasConnection
  <1>2. QED
    BY <1>1, Inductive, PTL

\* The unlocked flag never hides a running advertisement.
THEOREM FlagCoversAdvertisingHolds == Spec => []FlagCoversAdvertising
  <1>1. IInv => FlagCoversAdvertising
    BY DEF IInv
  <1>2. QED
    BY <1>1, Inductive, PTL

\* The device keeps the baseline as BaselineStore promises, across restarts.
THEOREM PersistsBaselineHolds == Spec => PersistsBaseline
  <1>1. QED
    BY StoreInit, StoreStep, Inductive, BaselineInductive, PTL
    DEF Spec, PersistsBaseline, Store!Spec

\* Both services hear of clients as ClientLink promises: each client in turn, the
\* sensor manager first, and none before both are ready or before the last has left
\* (ble_advertiser.c:119-163), whatever comes, fails or goes before its callback.
THEOREM ClientsInTurnHolds == Spec => ClientsInTurn
  <1>1. Spec => []ArmInv
    BY ArmStart, ArmNext, PTL DEF Spec
  <1>2. QED
    BY <1>1, LinkInit, LinkStep, Inductive, PTL DEF Spec, ClientsInTurn, Link!LinkSpec

\* What is safe about being reachable again: once advertising has started, the only
\* way to neither advertise, nor have a connection, nor be about to restart, is a host
\* that refused (ble_advertiser.c:95-117), on whatever thread the callbacks run.
THEOREM NeverStrandedHolds == Spec => []NeverStranded
  <1>1. QED
    BY StrandedInit, StrandedNext, Inductive, PTL DEF Spec
=============================================================================
