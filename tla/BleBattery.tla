------------------------------ MODULE BleBattery ------------------------------
(***************************************************************************)
(* The battery path: app/src/battery_service.c (ADC level, charging pin,   *)
(* debounced pin interrupt) and app/src/ble_battery_service.c (the BAS     *)
(* characteristics and their poll), as main.c, the advertiser and the      *)
(* sensor manager drive them.                                              *)
(*                                                                         *)
(* Reading the level blocks in an ADC conversion and publishing blocks in  *)
(* a notification; between the two a cooperative thread is not preempted   *)
(* by another, only by the pin interrupt.  battery_service_is_charging()   *)
(* calls back into ble_battery_service_update(), so updates nest: each     *)
(* thread has a stack of calls, the innermost first.                       *)
(*                                                                         *)
(* A delayed work item is armed or not: the length of a delay matters to   *)
(* no property.  wired_power is not kept: it is always published with      *)
(* charge_state and says only whether that is "charging".                  *)
(***************************************************************************)
EXTENDS Integers, Sequences

CONSTANTS
  Main, Rx, WorkQueue, \* main thread, Bluetooth RX and system work queues
  Levels,              \* battery levels the ADC may report, in percent
  Periodic,            \* CONFIG_SENSOR_PERIODIC_SAMPLING
  MaxEdges,            \* bound on the changes of the charging pin
  MaxFaults            \* bound on failed ADC reads and notifications

Threads == {Main, Rx, WorkQueue}

ASSUME ThreadsAssumption == Main # Rx /\ Main # WorkQueue /\ Rx # WorkQueue
ASSUME LevelsAssumption == Levels \subseteq 0 .. 100
ASSUME BoundsAssumption == MaxEdges \in Nat /\ MaxFaults \in Nat /\ Periodic \in BOOLEAN

VARIABLES
  pin,                 \* the charger pulls the charge status pin
  edges, faults,       \* how often it changed, and what has failed (bounded)
  last_charging_state, \* of battery_service.c
  debounce,            \* charge_debounce_work is armed
  job,                 \* what each thread is doing
  calls,               \* its open calls that read or publish
  sample,              \* battery part of the boot sample
  ble,                 \* ble_battery_state
  bas,                 \* the characteristics a client reads
  publishFailed,       \* the last publication stopped half-way  (history)
  connected_count,     \* of ble_battery_service.c
  poll                 \* battery_poll_work is armed

pinVars == <<pin, edges>>
bleVars == <<ble, bas, publishFailed>>
vars == <<pinVars, faults, last_charging_state, debounce, job, calls, sample,
          bleVars, connected_count, poll>>

-----------------------------------------------------------------------------
Jobs == {"boot", "seed", "connect", "attach", "update", "debounce", "poll", "env", "idle"}
Frames == [at : {"fetch", "resume", "notify", "status"}, by : {"ble", "sm"},
           level : 0 .. 100, charging : BOOLEAN]
ChargeLevels == {"unknown", "critical", "low", "good"}
ChargeStates == {"unknown", "charging", "active", "inactive"}

ChargeLevel(level) ==
  IF level > 75 THEN "good" ELSE IF level > 25 THEN "low" ELSE "critical"

ChargeState(charging, level) ==
  IF charging THEN "charging" ELSE IF level > 10 THEN "active" ELSE "inactive"

\* A variant with a defect: the state is derived from the previous level.
BatteryStateFromOldLevel(level, charging) ==
  [level |-> level, charging |-> charging,
   charge_level |-> ChargeLevel(level), charge_state |-> ChargeState(charging, ble.level)]

\* The two assignments, then update_charge_level() and update_charge_state().
BatteryState(level, charging) ==
  [level |-> level, charging |-> charging,
   charge_level |-> ChargeLevel(level), charge_state |-> ChargeState(charging, level)]

Fetching(by) == [at |-> "fetch", by |-> by, level |-> 0, charging |-> FALSE]
Idle(t) == job[t] = "idle"
At(t, place) == calls[t] # <<>> /\ Head(calls[t]).at = place

\* A caller resumes in the same stretch of a cooperative thread in which its
\* callback returns: no other thread runs in between.
Undisturbed(t) == \A u \in Threads \ {t} : ~At(u, "resume")

\* battery_service_init() has run and main is taking the boot sample; 100 is
\* what the BAS serves before it is told a level.
Init ==
  /\ pin \in BOOLEAN /\ edges = 0 /\ faults = 0
  /\ last_charging_state = pin /\ debounce = FALSE
  /\ job = [t \in Threads |-> IF t = Main THEN "boot" ELSE "idle"]
  /\ calls = [t \in Threads |-> IF t = Main THEN <<Fetching("sm")>> ELSE <<>>]
  /\ sample = [valid |-> FALSE, level |-> 0, charging |-> FALSE]
  /\ ble = [level |-> 0, charging |-> FALSE,
            charge_level |-> "unknown", charge_state |-> "unknown"]
  /\ bas = [level |-> 100, charge_level |-> "unknown", charge_state |-> "unknown"]
  /\ publishFailed = FALSE
  /\ connected_count = 0 /\ poll = FALSE

-----------------------------------------------------------------------------
(* Calls *)

Push(t, frame, below) == calls' = [calls EXCEPT ![t] = <<frame>> \o below]

Below(t) == Tail(calls[t])

\* What a thread goes on with when its outermost call has returned.
Afterwards(j) == CASE j = "boot" -> "seed" [] j = "connect" -> "attach" [] OTHER -> "idle"

\* A variant with a defect: a failed update does not arm the poll again.
ReturnErrorStops(t, ok) ==
  /\ calls' = [calls EXCEPT ![t] = Below(t)]
  /\ IF Below(t) = <<>>
       THEN /\ job' = [job EXCEPT ![t] = Afterwards(job[t])]
            /\ poll' = (poll \/ (Periodic /\ ok /\ job[t] \in {"update", "poll"}))
       ELSE UNCHANGED <<job, poll>>

\* The innermost call returns; on_connected() and the poll handler arm the poll
\* whether or not their update succeeded.
Return(t, ok) ==
  /\ calls' = [calls EXCEPT ![t] = Below(t)]
  /\ IF Below(t) = <<>>
       THEN /\ job' = [job EXCEPT ![t] = Afterwards(job[t])]
            /\ poll' = (poll \/ (Periodic /\ job[t] \in {"update", "poll"}))
       ELSE UNCHANGED <<job, poll>>

\* charging_status_changed() with a client: the update it makes runs above the
\* calls that remain below.
ChargingStatusChanged(t, below) ==
  /\ ble' = [ble EXCEPT !.charging = pin, !.charge_state = ChargeState(pin, ble.level)]
  /\ Push(t, Fetching("ble"), below)
  /\ UNCHANGED <<bas, publishFailed, poll>>

\* A variant with a defect: only a new level is published.
IsNewsOfLevel(level, charging) == ble.level # level

IsNews(level, charging) == ble.level # level \/ ble.charging # charging

\* ble_battery_service_update_manual() up to the notification of the level.
UpdateManual(t, level, charging) ==
  IF IsNews(level, charging)
    THEN /\ ble' = BatteryState(level, charging)
         /\ bas' = [bas EXCEPT !.level = level]
         /\ Push(t, [Head(calls[t]) EXCEPT !.at = "notify"], Below(t))
         /\ UNCHANGED <<publishFailed, job, poll>>
    ELSE Return(t, TRUE) /\ UNCHANGED bleVars

\* ble_battery_service_update() publishes what was read; the sensor manager's
\* read_battery() only keeps it.
Continue(t, level, charging) ==
  IF Head(calls[t]).by = "ble"
    THEN UpdateManual(t, level, charging)
    ELSE Return(t, TRUE) /\ UNCHANGED bleVars

\* A variant with a defect: the state is recorded when the callback has returned.
IsChargingRecordsLate(t, level) ==
  IF pin # last_charging_state /\ connected_count > 0
    THEN /\ ChargingStatusChanged(t,
              <<[Head(calls[t]) EXCEPT !.at = "resume", !.level = level, !.charging = pin]>>
              \o Below(t))
         /\ UNCHANGED <<last_charging_state, job>>
    ELSE last_charging_state' = pin /\ Continue(t, level, pin)

\* battery_service_is_charging(), then the rest of the call.
IsCharging(t, level) ==
  /\ last_charging_state' = pin
  /\ IF pin # last_charging_state /\ connected_count > 0
       THEN /\ ChargingStatusChanged(t,
                 <<[Head(calls[t]) EXCEPT !.at = "resume", !.level = level, !.charging = pin]>>
                 \o Below(t))
            /\ UNCHANGED job
       ELSE Continue(t, level, pin)

\* battery_service_get_level() has a level.
FetchSucceeds(t) ==
  /\ At(t, "fetch") /\ Undisturbed(t)
  /\ \E level \in Levels :
       /\ IsCharging(t, level)
       /\ sample' = IF job[t] = "boot"
                      THEN [valid |-> TRUE, level |-> level, charging |-> pin] ELSE sample
  /\ UNCHANGED <<pinVars, faults, debounce, connected_count>>

\* The ADC failed: an update returns, read_battery() still reads the pin.
FetchFails(t) ==
  /\ At(t, "fetch") /\ Undisturbed(t)
  /\ faults < MaxFaults /\ faults' = faults + 1
  /\ IF Head(calls[t]).by = "ble"
       THEN Return(t, FALSE) /\ UNCHANGED <<last_charging_state, bleVars>>
       ELSE IsCharging(t, 0)
  /\ UNCHANGED <<pinVars, debounce, sample, connected_count>>

\* The callback has returned to the call below it, which goes on with the
\* level and the pin it read before.
Resume(t) ==
  /\ At(t, "resume")
  /\ Continue(t, Head(calls[t]).level, Head(calls[t]).charging)
  /\ UNCHANGED <<pinVars, faults, last_charging_state, debounce, sample, connected_count>>

\* bt_bas_set_battery_level() returned; the charge state is published next.
NotifySucceeds(t) ==
  /\ At(t, "notify") /\ Undisturbed(t)
  /\ bas' = [bas EXCEPT !.charge_state = ble.charge_state]
  /\ Push(t, [Head(calls[t]) EXCEPT !.at = "status"], Below(t))
  /\ UNCHANGED <<pinVars, faults, last_charging_state, debounce, job, sample, ble,
                 publishFailed, connected_count, poll>>

NotifyFails(t) ==
  /\ At(t, "notify") /\ Undisturbed(t)
  /\ faults < MaxFaults /\ faults' = faults + 1
  /\ publishFailed' = TRUE
  /\ Return(t, FALSE)
  /\ UNCHANGED <<pinVars, last_charging_state, debounce, sample, ble, bas, connected_count>>

\* A variant with a defect: the charge level is never published.
PublishedWithoutLevel == bas

PublishedWithLevel == [bas EXCEPT !.charge_level = ble.charge_level]

StatusSent(t) ==
  /\ At(t, "status") /\ Undisturbed(t)
  /\ bas' = PublishedWithLevel
  /\ publishFailed' = FALSE
  /\ Return(t, TRUE)
  /\ UNCHANGED <<pinVars, faults, last_charging_state, debounce, sample, ble, connected_count>>

-----------------------------------------------------------------------------
(* The pin and its work item *)

\* k_work_cancel_delayable() marks a handler that is running as cancelled, and
\* k_work_schedule() refuses an item that is marked.
ScheduleAfterCancel == job[WorkQueue] # "debounce"

\* charge_status_interrupt(): cancel, then schedule.
PinEdge ==
  /\ edges < MaxEdges /\ edges' = edges + 1
  /\ pin' = ~pin
  /\ debounce' = ScheduleAfterCancel
  /\ UNCHANGED <<faults, last_charging_state, job, calls, sample, bleVars, connected_count, poll>>

DebounceWork ==
  /\ debounce /\ Idle(WorkQueue) /\ Undisturbed(WorkQueue)
  /\ debounce' = FALSE
  /\ last_charging_state' = pin
  /\ IF pin # last_charging_state /\ connected_count > 0
       THEN /\ job' = [job EXCEPT ![WorkQueue] = "debounce"]
            /\ ChargingStatusChanged(WorkQueue, <<>>)
       ELSE UNCHANGED <<job, calls, bleVars, poll>>
  /\ UNCHANGED <<pinVars, faults, sample, connected_count>>

-----------------------------------------------------------------------------
(* Boot, clients and the poll *)

Start(t, j, by) ==
  /\ job' = [job EXCEPT ![t] = j]
  /\ Push(t, Fetching(by), <<>>)

\* ble_battery_service_init(), then main() seeds the BAS from the boot sample.
\* No client is connected, so nothing is notified and nothing blocks.
Seed ==
  /\ job[Main] = "seed" /\ Undisturbed(Main)
  /\ job' = [job EXCEPT ![Main] = "idle"]
  /\ IF sample.valid /\ IsNews(sample.level, sample.charging)
       THEN /\ ble' = BatteryState(sample.level, sample.charging)
            /\ bas' = [level |-> sample.level, charge_level |-> ChargeLevel(sample.level),
                       charge_state |-> ChargeState(sample.charging, sample.level)]
       ELSE UNCHANGED <<ble, bas>>
  /\ UNCHANGED <<pinVars, faults, last_charging_state, debounce, calls, sample, publishFailed,
                 connected_count, poll>>

\* ble_connected(): the sensor manager samples first, if it gets its mutex.
Connect ==
  /\ Idle(Main) /\ Idle(Rx) /\ connected_count = 0 /\ Undisturbed(Rx)
  /\ \/ job[WorkQueue] # "env" /\ Start(Rx, "connect", "sm")
     \/ job' = [job EXCEPT ![Rx] = "attach"] /\ UNCHANGED calls
  /\ UNCHANGED <<pinVars, faults, last_charging_state, debounce, sample, bleVars,
                 connected_count, poll>>

OnConnected ==
  /\ job[Rx] = "attach" /\ Undisturbed(Rx)
  /\ connected_count' = connected_count + 1
  /\ Start(Rx, "update", "ble")
  /\ UNCHANGED <<pinVars, faults, last_charging_state, debounce, sample, bleVars, poll>>

\* A variant with a defect: a disconnect is counted without a tracked client.
OnDisconnectedUncounted ==
  /\ Idle(Rx) /\ Undisturbed(Rx)
  /\ connected_count' = connected_count - 1
  /\ poll' = FALSE
  /\ UNCHANGED <<pinVars, faults, last_charging_state, debounce, job, calls, sample, bleVars>>

OnDisconnected ==
  /\ Idle(Rx) /\ connected_count > 0 /\ Undisturbed(Rx)
  /\ connected_count' = connected_count - 1
  /\ poll' = FALSE
  /\ UNCHANGED <<pinVars, faults, last_charging_state, debounce, job, calls, sample, bleVars>>

\* A variant with a defect: the handler does not ask for a client.
PollWorkAnyway ==
  /\ poll /\ Idle(WorkQueue) /\ Undisturbed(WorkQueue)
  /\ poll' = FALSE
  /\ Start(WorkQueue, "poll", "ble")
  /\ UNCHANGED <<pinVars, faults, last_charging_state, debounce, sample, bleVars,
                 connected_count>>

PollWork ==
  /\ poll /\ Idle(WorkQueue) /\ Undisturbed(WorkQueue)
  /\ poll' = FALSE
  /\ IF connected_count > 0
       THEN Start(WorkQueue, "poll", "ble")
       ELSE UNCHANGED <<job, calls>>
  /\ UNCHANGED <<pinVars, faults, last_charging_state, debounce, sample, bleVars,
                 connected_count>>

\* The sensor manager's env_work reads the battery too, under the same mutex.
EnvWork ==
  /\ Periodic /\ Idle(Main) /\ Idle(WorkQueue) /\ Undisturbed(WorkQueue)
  /\ job[Rx] # "connect"
  /\ Start(WorkQueue, "env", "sm")
  /\ UNCHANGED <<pinVars, faults, last_charging_state, debounce, sample, bleVars,
                 connected_count, poll>>

Step(t) ==
  \/ FetchSucceeds(t) \/ FetchFails(t) \/ Resume(t)
  \/ NotifySucceeds(t) \/ NotifyFails(t) \/ StatusSent(t)

Next ==
  \/ PinEdge
  \/ Seed \/ Connect \/ OnConnected \/ OnDisconnected
  \/ DebounceWork \/ PollWork \/ EnvWork
  \/ \E t \in Threads : Step(t)

Spec == Init /\ [][Next]_vars

\* Threads run; the system work queue is first in, first out, so an armed item
\* is not passed over for ever.  Nobody is obliged to connect, and the pin is
\* free.
Fairness ==
  /\ \A t \in Threads : WF_vars(Step(t))
  /\ WF_vars(Seed) /\ WF_vars(OnConnected)
  /\ SF_vars(DebounceWork) /\ SF_vars(PollWork)

FairSpec == Spec /\ Fairness
-----------------------------------------------------------------------------
(* Properties *)

\* Every variable has its type.
TypeOK ==
  /\ pin \in BOOLEAN /\ edges \in 0 .. MaxEdges /\ faults \in 0 .. MaxFaults
  /\ last_charging_state \in BOOLEAN /\ debounce \in BOOLEAN
  /\ job \in [Threads -> Jobs]
  /\ calls \in [Threads -> Seq(Frames)]
  /\ sample \in [valid : BOOLEAN, level : 0 .. 100, charging : BOOLEAN]
  /\ ble \in [level : 0 .. 100, charging : BOOLEAN,
              charge_level : ChargeLevels, charge_state : ChargeStates]
  /\ bas \in [level : 0 .. 100, charge_level : ChargeLevels, charge_state : ChargeStates]
  /\ publishFailed \in BOOLEAN
  /\ connected_count \in 0 .. 1 /\ poll \in BOOLEAN

AtRest == \A t \in Threads : Idle(t)

\* The derived charge level and charge state always belong to the level and
\* the charging flag kept with them, although a pin change and an update write
\* them separately and updates nest (ble_battery_service.c:49-75).
DerivedConsistent ==
  /\ ble.charge_level # "unknown" => ble.charge_level = ChargeLevel(ble.level)
  /\ ble.charge_state # "unknown" => ble.charge_state = ChargeState(ble.charging, ble.level)

\* At rest a client reads the charge level that belongs to the level it reads,
\* unless the last publication failed half-way, however updates interleave.
ChargeLevelPublished ==
  AtRest /\ ~publishFailed /\ bas.charge_level # "unknown" =>
    bas.charge_level = ChargeLevel(bas.level)

\* While a client is connected the poll is armed or an update that will arm it
\* is running, whatever fails and however fast the client came back.
PollAlive ==
  Periodic /\ connected_count > 0 =>
    poll \/ job[Rx] = "update" \/ job[WorkQueue] = "poll"

\* is_charging() calls back into an update that calls is_charging() again, but no
\* read recurses without end: every further level on a thread's stack has used up
\* a pin change of its own, which no other call can use (battery_service.c:330-336).
NestingBounded == \A t \in Threads : Len(calls[t]) <= 1 + edges

\* Without a client the poll comes to an end, although a handler that was
\* running when its cancellation came arms it once more
\* (ble_battery_service.c:104,165).
PollStops ==
  connected_count = 0 ~> connected_count > 0 \/ (~poll /\ job[WorkQueue] # "poll")

\* With the poll built in, the charging flag of a client that stays connected
\* agrees with the pin in the end, whatever edge was lost or overtaken before.
ChargingRepaired == <>[](connected_count > 0) => <>[](ble.charging = pin)

\* At rest the charge state a client reads is the current one: an update sets
\* the characteristics whenever a value has changed (ble_battery_service.h,
\* ble_battery_service_update).
ChargeStatePublished == AtRest /\ ~publishFailed => bas.charge_state = ble.charge_state

\* A pin change is followed by a new debounce: while the state known differs
\* from the pin, the work item is armed (battery_service.c:180).
EdgeNotLost == AtRest /\ pin # last_charging_state => debounce
=============================================================================
