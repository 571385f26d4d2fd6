----------------------------- MODULE Ccs811Driver -----------------------------
(***************************************************************************)
(* The CCS811 air-quality driver, app/src/sensor_ccs811_driver.c.          *)
(*                                                                         *)
(* The sensor measures every 10 s during the 20 min of boot conditioning,  *)
(* then every 1 s while a GATT client is connected, and is IDLE otherwise. *)
(* Three kinds of thread meet in the driver: the Bluetooth RX work queue   *)
(* (connect, disconnect, GATT reads), the system work queue (the delayed   *)
(* conditioning work and, when periodic sampling is built in, the AQ work) *)
(* and the optional shell.  They meet at one mutex taken with a timeout,   *)
(* at one flag that is also written without it, and at a 1.5 s sleep that  *)
(* a read takes with the mutex released.                                   *)
(*                                                                         *)
(* A step of a thread ends where the code can block: at a lock, a sleep or *)
(* an I2C transfer.  k_uptime_get() appears as ages that count up and      *)
(* delays that count down; both saturate, because no comparison of the     *)
(* code tells larger values apart.                                         *)
(***************************************************************************)
EXTENDS Naturals

CONSTANTS
  Main,              \* the main thread, which only initialises the driver
  WorkQueue,         \* the system work queue, which runs conditioning_work
  Connectors,        \* threads that report connects and disconnects
  Readers,           \* threads that read the sensor
  NoThread,          \* owner of a free mutex
  ConditioningTime,  \* CCS811_CONDITIONING_TIME_MS, in ticks
  WakeDelay,         \* CCS811_IDLE_WAKE_DELAY_MS, in ticks
  LockTimeout,       \* CCS811_MUTEX_TIMEOUT_MS, in ticks
  MaxCacheAge,       \* MAX_CACHE_AGE_MS, in ticks
  Co2Readings,       \* raw eCO2 values the sensor may report, in ppm
  TvocReadings       \* raw TVOC values the sensor may report, in ppb

Callers == Connectors \cup Readers
Threads == Callers \cup {Main, WorkQueue}

ASSUME ThreadsAssumption ==
  /\ NoThread \notin Threads
  /\ Main \notin Callers \cup {WorkQueue}
  /\ WorkQueue \notin Connectors

ASSUME TimesAssumption ==
  /\ ConditioningTime \in Nat \ {0}
  /\ WakeDelay \in Nat
  /\ LockTimeout \in Nat
  /\ MaxCacheAge \in Nat

ASSUME ReadingsAssumption == Co2Readings \subseteq Nat /\ TvocReadings \subseteq Nat

VARIABLES
  pc,       \* where each thread stands in the driver
  wait,     \* ticks until the pending lock times out or the sleep ends
  forBle,   \* whether the thread's read was made by read_for_ble
  answer,   \* what the thread's last read returned
  clients,  \* connectors whose client is connected
  mutex,    \* owner of ccs811_mutex
  mode,       \* measurement mode of the device
  modeAge,    \* ticks since the last mode change            (history)
  modeFailed, \* whether the last mode command failed        (history)
  started,                 \* ccs811_init_time # 0
  elapsed,                 \* k_uptime_get() - ccs811_init_time
  conditioning_complete,
  work,                    \* state of conditioning_work
  remaining,               \* ticks until its timer expires
  ble_connected, in_idle_mode, await_first_1s_sample,
  first_sample_obtained, cached_co2_ppm, cached_tvoc_ppb,
  sampleAge,               \* k_uptime_get() - last_sample_time
  co2Age, tvocAge          \* age of the two cached values   (history)

threadVars == <<pc, wait, forBle, answer, clients>>
modeVars   == <<mode, modeAge, modeFailed>>
timerVars  == <<started, elapsed, work, remaining>>
flagVars   == <<ble_connected, in_idle_mode, await_first_1s_sample>>
cacheVars  == <<first_sample_obtained, cached_co2_ppm, cached_tvoc_ppb,
                sampleAge, co2Age, tvocAge>>
vars == <<threadVars, mutex, modeVars, timerVars, conditioning_complete,
          flagVars, cacheVars>>

-----------------------------------------------------------------------------
Modes == {"reset", "sec10", "sec1", "idle"}

WaitingForLock == {"conn_lock", "disc_lock", "read_lock", "read_relock", "cond_lock"}
HoldingLock == {"boot_mode", "conn_mode", "disc_mode", "cond_idle", "cond_1s",
                "read_fetch"}
Locations == WaitingForLock \cup HoldingLock \cup {"boot", "out", "read_sleep", "fallback"}

Sources == {"unset", "fresh", "cached"}
Answers == [ok : BOOLEAN, co2 : Sources, tvoc : Sources]
Failed  == [ok |-> FALSE, co2 |-> "unset", tvoc |-> "unset"]
Fresh   == [ok |-> TRUE, co2 |-> "fresh", tvoc |-> "fresh"]

\* A variant with a defect: the upper bound is one too high.
ValidCo2OffByOne == Co2Readings \cap (400 .. 8193)

ValidCo2  == Co2Readings \cap (400 .. 8192)
ValidTvoc == TvocReadings \cap (0 .. 1187)

\* What the cache may hold: never set, or within the range of the sensor.
CacheableCo2  == {0} \cup (400 .. 8192)
CacheableTvoc == 0 .. 1187

Older(age, limit) == IF age < limit THEN age + 1 ELSE age

Init ==
  /\ pc = [t \in Threads |-> IF t = Main THEN "boot" ELSE "out"]
  /\ wait = [t \in Threads |-> 0]
  /\ forBle = [t \in Threads |-> FALSE]
  /\ answer = [t \in Threads |-> Failed]
  /\ clients = {}
  /\ mutex = NoThread
  /\ mode = "reset" /\ modeAge = 0 /\ modeFailed = FALSE
  /\ started = FALSE /\ elapsed = 0 /\ work = "off" /\ remaining = 0
  /\ conditioning_complete = FALSE
  /\ ble_connected = FALSE /\ in_idle_mode = FALSE /\ await_first_1s_sample = FALSE
  /\ first_sample_obtained = FALSE
  /\ cached_co2_ppm = 0 /\ cached_tvoc_ppb = 0
  /\ sampleAge = 0 /\ co2Age = 0 /\ tvocAge = 0

-----------------------------------------------------------------------------
(* Threads, the mutex and the mode register *)

Block(t, place, delay) ==
  /\ pc' = [pc EXCEPT ![t] = place]
  /\ wait' = [wait EXCEPT ![t] = delay]

Goto(t, place) == Block(t, place, 0)

Call(t, place) ==
  /\ pc[t] = "out"
  /\ Block(t, place, LockTimeout)

LockTimesOut(t) == mutex # NoThread /\ wait[t] = 0

\* ccs811_mode_update(): on success the device runs in the new mode.
ModeUpdate(m, ok) ==
  /\ mode' = IF ok THEN m ELSE mode
  /\ modeAge' = IF ok THEN 0 ELSE modeAge
  /\ modeFailed' = ~ok

\* Variants with a defect: the flag is set before the result of the command is
\* known, or it is never set.
Enter1SecModeAwaitsAnyway ==
  \E ok \in BOOLEAN :
    /\ ModeUpdate("sec1", ok)
    /\ in_idle_mode' = IF ok THEN FALSE ELSE in_idle_mode
    /\ await_first_1s_sample' = TRUE

Enter1SecModeNoAwait ==
  \E ok \in BOOLEAN :
    /\ ModeUpdate("sec1", ok)
    /\ in_idle_mode' = IF ok THEN FALSE ELSE in_idle_mode
    /\ UNCHANGED await_first_1s_sample

Enter1SecMode ==
  \E ok \in BOOLEAN :
    /\ ModeUpdate("sec1", ok)
    /\ in_idle_mode' = IF ok THEN FALSE ELSE in_idle_mode
    /\ await_first_1s_sample' = (ok \/ await_first_1s_sample)

\* A variant with a defect: in_idle_mode is forgotten.
EnterIdleModeUnnoticed ==
  \E ok \in BOOLEAN : ModeUpdate("idle", ok) /\ UNCHANGED <<in_idle_mode, await_first_1s_sample>>

EnterIdleMode ==
  \E ok \in BOOLEAN :
    /\ ModeUpdate("idle", ok)
    /\ in_idle_mode' = (ok \/ in_idle_mode)
    /\ UNCHANGED await_first_1s_sample

\* A variant with a defect: conditioning counts as over one tick early.
IsReadyEarly == conditioning_complete \/ (started /\ elapsed + 1 >= ConditioningTime)

\* The flag is raised lazily, with or without the mutex.
IsReady == conditioning_complete \/ (started /\ elapsed >= ConditioningTime)

-----------------------------------------------------------------------------
(* ccs811_driver_init(): the part that starts boot conditioning *)

\* The mutex is free: no other thread has had a reason to keep it so far.
BootStart ==
  /\ pc[Main] = "boot"
  /\ mutex = NoThread /\ mutex' = Main
  /\ Goto(Main, "boot_mode")
  /\ started' = TRUE /\ elapsed' = 0
  /\ conditioning_complete' = FALSE
  /\ UNCHANGED <<forBle, answer, clients, modeVars, work, remaining, flagVars, cacheVars>>

BootMode ==
  /\ pc[Main] = "boot_mode"
  /\ \E ok \in BOOLEAN :
       /\ ModeUpdate("sec10", ok)
       /\ in_idle_mode' = IF ok THEN FALSE ELSE in_idle_mode
  /\ work' = "scheduled" /\ remaining' = ConditioningTime
  /\ mutex' = NoThread
  /\ Goto(Main, "out")
  /\ UNCHANGED <<forBle, answer, clients, started, elapsed, conditioning_complete,
                 ble_connected, await_first_1s_sample, cacheVars>>

-----------------------------------------------------------------------------
(* conditioning_work, on the system work queue *)

TimerExpires ==
  /\ work = "scheduled" /\ remaining = 0
  /\ work' = "pending"
  /\ UNCHANGED <<threadVars, mutex, modeVars, started, elapsed, remaining,
                 conditioning_complete, flagVars, cacheVars>>

ConditioningStart ==
  /\ work = "pending"
  /\ work' = "off"
  /\ Call(WorkQueue, "cond_lock")
  /\ UNCHANGED <<forBle, answer, clients, mutex, modeVars, started, elapsed, remaining,
                 conditioning_complete, flagVars, cacheVars>>

ConditioningLock ==
  /\ pc[WorkQueue] = "cond_lock"
  /\ \/ /\ mutex = NoThread /\ ~conditioning_complete
        /\ mutex' = WorkQueue
        /\ conditioning_complete' = TRUE
        /\ Goto(WorkQueue, IF ble_connected THEN "cond_1s" ELSE "cond_idle")
     \/ /\ \/ mutex = NoThread /\ conditioning_complete
           \/ LockTimesOut(WorkQueue)
        /\ Goto(WorkQueue, "out")
        /\ UNCHANGED <<mutex, conditioning_complete>>
  /\ UNCHANGED <<forBle, answer, clients, modeVars, timerVars, flagVars, cacheVars>>

\* A variant with a defect: the sensor goes idle whoever is connected.
ConditioningModeIgnoresClient ==
  /\ pc[WorkQueue] \in {"cond_1s", "cond_idle"} /\ EnterIdleMode
  /\ mutex' = NoThread
  /\ Goto(WorkQueue, "out")
  /\ UNCHANGED <<forBle, answer, clients, timerVars, conditioning_complete,
                 ble_connected, cacheVars>>

ConditioningMode ==
  /\ \/ pc[WorkQueue] = "cond_1s" /\ Enter1SecMode
     \/ pc[WorkQueue] = "cond_idle" /\ EnterIdleMode
  /\ mutex' = NoThread
  /\ Goto(WorkQueue, "out")
  /\ UNCHANGED <<forBle, answer, clients, timerVars, conditioning_complete,
                 ble_connected, cacheVars>>

-----------------------------------------------------------------------------
(* ccs811_driver_on_connected() and ccs811_driver_on_disconnected() *)

\* A variant with a defect: the mode changes during conditioning too.
ChangeModeAlways(t, place) == mutex' = t /\ Goto(t, place)

\* During conditioning only ble_connected is recorded.
ChangeModeIfConditioned(t, place) ==
  IF conditioning_complete
    THEN mutex' = t /\ Goto(t, place)
    ELSE mutex' = mutex /\ Goto(t, "out")

OnConnected(t) ==
  /\ pc[Main] = "out" /\ t \notin clients
  /\ clients' = clients \cup {t}
  /\ Call(t, "conn_lock")
  /\ UNCHANGED <<forBle, answer, mutex, modeVars, timerVars, conditioning_complete,
                 flagVars, cacheVars>>

ConnectedLock(t) ==
  /\ pc[t] = "conn_lock"
  /\ \/ /\ mutex = NoThread
        /\ ble_connected' = TRUE
        /\ ChangeModeIfConditioned(t, "conn_mode")
     \/ /\ LockTimesOut(t)
        /\ Goto(t, "out")
        /\ UNCHANGED <<mutex, ble_connected>>
  /\ UNCHANGED <<forBle, answer, clients, modeVars, timerVars, conditioning_complete,
                 in_idle_mode, await_first_1s_sample, cacheVars>>

ConnectedMode(t) ==
  /\ pc[t] = "conn_mode"
  /\ Enter1SecMode
  /\ mutex' = NoThread
  /\ Goto(t, "out")
  /\ UNCHANGED <<forBle, answer, clients, timerVars, conditioning_complete,
                 ble_connected, cacheVars>>

\* The sensor manager reports only the last client's disconnect.
OnDisconnected(t) ==
  /\ pc[t] = "out" /\ t \in clients
  /\ clients' = clients \ {t}
  /\ IF clients = {t} THEN Call(t, "disc_lock") ELSE UNCHANGED <<pc, wait>>
  /\ UNCHANGED <<forBle, answer, mutex, modeVars, timerVars, conditioning_complete,
                 flagVars, cacheVars>>

DisconnectedLock(t) ==
  /\ pc[t] = "disc_lock"
  /\ \/ /\ mutex = NoThread
        /\ ble_connected' = FALSE
        /\ await_first_1s_sample' = FALSE
        /\ ChangeModeIfConditioned(t, "disc_mode")
     \/ /\ LockTimesOut(t)
        /\ Goto(t, "out")
        /\ UNCHANGED <<mutex, ble_connected, await_first_1s_sample>>
  /\ UNCHANGED <<forBle, answer, clients, modeVars, timerVars, conditioning_complete,
                 in_idle_mode, cacheVars>>

DisconnectedMode(t) ==
  /\ pc[t] = "disc_mode"
  /\ EnterIdleMode
  /\ mutex' = NoThread
  /\ Goto(t, "out")
  /\ UNCHANGED <<forBle, answer, clients, timerVars, conditioning_complete,
                 ble_connected, cacheVars>>

-----------------------------------------------------------------------------
(* ccs811_driver_is_ready(), ccs811_driver_read_air_quality() and           *)
(* ccs811_driver_read_for_ble()                                             *)

\* is_ready() called from outside the driver, without the mutex.
PollReady(t) ==
  /\ pc[t] = "out"
  /\ conditioning_complete' = IsReady
  /\ UNCHANGED <<threadVars, mutex, modeVars, timerVars, flagVars, cacheVars>>

Read(t, ble) ==
  /\ Call(t, "read_lock")
  /\ forBle' = [forBle EXCEPT ![t] = ble]
  /\ answer' = [answer EXCEPT ![t] = Failed]
  /\ UNCHANGED <<clients, mutex, modeVars, timerVars, conditioning_complete, flagVars,
                 cacheVars>>

\* A variant with a defect: read_for_ble tries again until it succeeds.
GiveUpNever(t, err) ==
  Goto(t, IF forBle[t] /\ err = "EAGAIN" THEN "read_lock" ELSE "out")

\* A read that failed: read_for_ble falls back to its cache on -EAGAIN, which
\* is also what k_mutex_lock() returns when it times out.
GiveUp(t, err) ==
  Goto(t, IF forBle[t] /\ err = "EAGAIN" THEN "fallback" ELSE "out")

ReadLock(t) ==
  /\ pc[t] = "read_lock"
  /\ \/ /\ LockTimesOut(t)
        /\ GiveUp(t, "EAGAIN")
        /\ UNCHANGED <<mutex, conditioning_complete>>
     \/ /\ mutex = NoThread
        /\ conditioning_complete' = IsReady
        /\ \/ /\ ~IsReady \/ (in_idle_mode /\ ~ble_connected)
              /\ GiveUp(t, "EAGAIN")
              /\ UNCHANGED mutex
           \/ /\ IsReady /\ (~in_idle_mode \/ ble_connected)
              /\ IF await_first_1s_sample
                   THEN Block(t, "read_sleep", WakeDelay) /\ UNCHANGED mutex
                   ELSE Goto(t, "read_fetch") /\ mutex' = t
  /\ UNCHANGED <<forBle, answer, clients, modeVars, timerVars, flagVars, cacheVars>>

ReadWake(t) ==
  /\ pc[t] = "read_sleep" /\ wait[t] = 0
  /\ Block(t, "read_relock", LockTimeout)
  /\ UNCHANGED <<forBle, answer, clients, mutex, modeVars, timerVars, conditioning_complete,
                 flagVars, cacheVars>>

ReadRelock(t) ==
  /\ pc[t] = "read_relock"
  /\ \/ mutex = NoThread /\ mutex' = t /\ Goto(t, "read_fetch")
     \/ LockTimesOut(t) /\ GiveUp(t, "EAGAIN") /\ UNCHANGED mutex
  /\ await_first_1s_sample' = FALSE
  /\ UNCHANGED <<forBle, answer, clients, modeVars, timerVars, conditioning_complete,
                 ble_connected, in_idle_mode, cacheVars>>

\* A variant with a defect: the read returns with the mutex held.
UnlockForgotten(t) == pc[t] = "read_fetch" /\ mutex' = mutex

Unlock(t) == pc[t] = "read_fetch" /\ mutex' = NoThread

\* The transfer failed, the device has no new data or reports an error, or
\* the eCO2 value is zero or out of range: no cached value changes.
FetchFails(t) ==
  /\ Unlock(t)
  /\ \/ \E err \in {"EAGAIN", "EIO"} : GiveUp(t, err)
     \/ \E co2 \in Co2Readings \ ValidCo2 :
          GiveUp(t, IF co2 = 0 THEN "EAGAIN" ELSE "ERANGE")
  /\ UNCHANGED <<forBle, answer, clients, modeVars, timerVars, conditioning_complete,
                 flagVars, cacheVars>>

\* A variant with a defect: the eCO2 value alone renews last_sample_time.
FetchHalfRenews(t) ==
  /\ Unlock(t)
  /\ \E co2 \in ValidCo2 : cached_co2_ppm' = co2
  /\ co2Age' = 0 /\ sampleAge' = 0
  /\ GiveUp(t, "EIO")
  /\ UNCHANGED <<forBle, answer, clients, modeVars, timerVars, conditioning_complete, flagVars,
                 first_sample_obtained, cached_tvoc_ppb, tvocAge>>

\* The eCO2 value is good and already cached when the TVOC value fails.
FetchHalf(t) ==
  /\ Unlock(t)
  /\ \E co2 \in ValidCo2 : cached_co2_ppm' = co2
  /\ co2Age' = 0
  /\ \/ GiveUp(t, "EIO")
     \/ TvocReadings \ ValidTvoc # {} /\ GiveUp(t, "ERANGE")
  /\ UNCHANGED <<forBle, answer, clients, modeVars, timerVars, conditioning_complete, flagVars,
                 first_sample_obtained, cached_tvoc_ppb, sampleAge, tvocAge>>

FetchSucceeds(t) ==
  /\ Unlock(t)
  /\ \E co2 \in ValidCo2, tvoc \in ValidTvoc :
       cached_co2_ppm' = co2 /\ cached_tvoc_ppb' = tvoc
  /\ co2Age' = 0 /\ tvocAge' = 0 /\ sampleAge' = 0
  /\ first_sample_obtained' = TRUE
  /\ answer' = [answer EXCEPT ![t] = Fresh]
  /\ Goto(t, "out")
  /\ UNCHANGED <<forBle, clients, modeVars, timerVars, conditioning_complete, flagVars>>

\* The rest of read_for_ble: an output whose cached value is 0 is not written.
Fallback(t) ==
  /\ pc[t] = "fallback"
  /\ LET usable == first_sample_obtained /\ sampleAge <= MaxCacheAge
         from(value) == IF usable /\ value > 0 THEN "cached" ELSE "unset"
     IN answer' = [answer EXCEPT ![t] =
                     [ok   |-> usable /\ (cached_co2_ppm > 0 \/ cached_tvoc_ppb > 0),
                      co2  |-> from(cached_co2_ppm),
                      tvoc |-> from(cached_tvoc_ppb)]]
  /\ Goto(t, "out")
  /\ UNCHANGED <<forBle, clients, mutex, modeVars, timerVars, conditioning_complete,
                 flagVars, cacheVars>>

-----------------------------------------------------------------------------
\* A free mutex goes to a waiter at once, so no time passes while both exist.
Tick ==
  /\ mutex = NoThread => \A t \in Threads : pc[t] \notin WaitingForLock
  /\ wait' = [t \in Threads |-> IF wait[t] > 0 THEN wait[t] - 1 ELSE 0]
  /\ modeAge' = Older(modeAge, WakeDelay)
  /\ elapsed' = IF started THEN Older(elapsed, ConditioningTime) ELSE elapsed
  /\ remaining' = IF remaining > 0 THEN remaining - 1 ELSE 0
  /\ sampleAge' = Older(sampleAge, MaxCacheAge + 1)
  /\ co2Age' = Older(co2Age, MaxCacheAge + 1)
  /\ tvocAge' = Older(tvocAge, MaxCacheAge + 1)
  /\ UNCHANGED <<pc, forBle, answer, clients, mutex, mode, modeFailed, started, work,
                 conditioning_complete, flagVars, first_sample_obtained,
                 cached_co2_ppm, cached_tvoc_ppb>>

ConnectorStep(t) == OnConnected(t) \/ OnDisconnected(t)

ReaderStep(t) == PollReady(t) \/ \E ble \in BOOLEAN : Read(t, ble)

\* What a thread that is inside the driver does next.
Continue(t) ==
  \/ ConnectedLock(t) \/ ConnectedMode(t)
  \/ DisconnectedLock(t) \/ DisconnectedMode(t)
  \/ ReadLock(t) \/ ReadWake(t) \/ ReadRelock(t)
  \/ FetchFails(t) \/ FetchHalf(t) \/ FetchSucceeds(t) \/ Fallback(t)

Boot == BootStart \/ BootMode
ConditioningWork == ConditioningStart \/ ConditioningLock \/ ConditioningMode

Next ==
  \/ Boot
  \/ TimerExpires
  \/ ConditioningWork
  \/ \E t \in Connectors : ConnectorStep(t)
  \/ \E t \in Readers : ReaderStep(t)
  \/ \E t \in Callers : Continue(t)
  \/ Tick

Spec == Init /\ [][Next]_vars

\* The scheduler runs every thread that can run, and time passes; nobody is
\* obliged to connect, to disconnect or to read.
Fairness ==
  /\ WF_vars(Boot) /\ WF_vars(TimerExpires) /\ WF_vars(ConditioningWork)
  /\ \A t \in Callers : WF_vars(Continue(t))
  /\ WF_vars(Tick)

FairSpec == Spec /\ Fairness
-----------------------------------------------------------------------------
(* Properties *)

\* Every variable has its type; a cached value was never set or lies in the
\* range of the sensor (sensor_ccs811_driver.h:17-21).
TypeOK ==
  /\ pc \in [Threads -> Locations]
  /\ wait \in [Threads -> Nat]
  /\ forBle \in [Threads -> BOOLEAN]
  /\ answer \in [Threads -> Answers]
  /\ clients \subseteq Connectors
  /\ mutex \in Threads \cup {NoThread}
  /\ mode \in Modes /\ modeAge \in Nat /\ modeFailed \in BOOLEAN
  /\ started \in BOOLEAN /\ elapsed \in Nat /\ remaining \in Nat
  /\ work \in {"off", "scheduled", "pending"}
  /\ conditioning_complete \in BOOLEAN
  /\ ble_connected \in BOOLEAN /\ in_idle_mode \in BOOLEAN
  /\ await_first_1s_sample \in BOOLEAN
  /\ first_sample_obtained \in BOOLEAN
  /\ cached_co2_ppm \in CacheableCo2 /\ cached_tvoc_ppb \in CacheableTvoc
  /\ sampleAge \in Nat /\ co2Age \in Nat /\ tvocAge \in Nat

\* ccs811_mutex is owned by exactly the thread that is between a lock and its
\* unlock, on every early return, timeout and error path.
MutexOwner == \A t \in Threads : pc[t] \in HoldingLock <=> mutex = t

\* The sensor is never taken out of the 10 s boot mode before the whole
\* conditioning time has passed, whoever connects, disconnects or reads and
\* whether the flag was raised by the delayed work or by is_ready().
ConditioningNotCut ==
  mode \in {"sec1", "idle"} => started /\ elapsed = ConditioningTime

\* Outside a critical section the device sleeps only without a client and runs
\* in the 1 s mode only with one, unless the last mode command failed.
ModeFollowsClient ==
  mutex = NoThread /\ ~modeFailed =>
    /\ mode = "idle" => ~ble_connected
    /\ mode = "sec1" => ble_connected

\* A reader is made to wait for the first 1 s sample only while a client is
\* connected and the device runs in the 1 s mode, so no read sleeps in vain.
AwaitOnlyWhenLive == await_first_1s_sample => ble_connected /\ mode = "sec1"

\* A sample is fetched only from a device that is awake, and in 1 s mode only a
\* full wake delay after the device entered that mode, unless the last mode
\* command failed (sensor_ccs811_driver.c:464-474).
FetchAfterWake ==
  \A t \in Threads :
    pc[t] = "read_fetch" /\ ~modeFailed =>
      /\ mode # "idle"
      /\ mode = "sec1" => modeAge >= WakeDelay

\* A value served from the cache was measured at most MAX_CACHE_AGE_MS ago,
\* also when a later read cached its eCO2 and then failed.
FallbackIsRecent ==
  [][\A t \in Threads : pc[t] = "fallback" /\ pc'[t] = "out" =>
       /\ answer'[t].co2 = "cached" => co2Age <= MaxCacheAge
       /\ answer'[t].tvoc = "cached" => tvocAge <= MaxCacheAge]_vars

\* Every call into the driver returns: no path keeps the mutex, waits for ever
\* or retries without end.
CallsReturn == \A t \in Callers : pc[t] # "out" ~> pc[t] = "out"

\* Once conditioning is over and nothing is in progress, a connected client
\* runs the 1 s mode and a disconnected sensor stays IDLE
\* (sensor_ccs811_driver.c:464).
QuiescentMode ==
  (/\ conditioning_complete /\ work = "off" /\ ~modeFailed
   /\ \A t \in Threads : pc[t] = "out")
  => mode = IF ble_connected THEN "sec1" ELSE "idle"

\* A read that reports success has written both outputs
\* (sensor_ccs811_driver.h, ccs811_driver_read_for_ble).
SuccessWritesBoth ==
  \A t \in Threads : answer[t].ok => answer[t].co2 # "unset" /\ answer[t].tvoc # "unset"

\* The driver keeps the sampling policy: its measurement modes, as seen through
\* this mapping, change only as the policy allows (sensor_ccs811_driver.h:27-41).
PhaseOf(m) == CASE m = "sec1" -> "live" [] m = "idle" -> "idle" [] OTHER -> "conditioning"

Policy == INSTANCE SamplingPolicy WITH
  phase <- PhaseOf(mode),
  client <- ble_connected,
  conditioned <- (started /\ elapsed = ConditioningTime)

ImplementsPolicy == Policy!PolicySpec
=============================================================================
