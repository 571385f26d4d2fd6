# Verification of the Thingy:52 environment monitor

TLA+ models of the firmware under `src/app`, checked with TLC on small instances
and, for the properties that matter most, proved with TLAPS for every value of
the constants. Line numbers refer to the files in `src/app/src` unless a path
is given.

## 1. The system

The firmware reads four sensors and the battery and serves the values over
Bluetooth LE. By default it samples once at boot and once per GATT connect;
`CONFIG_SENSOR_PERIODIC_SAMPLING` adds timers while a client is connected.

| Component | Files | State it keeps | Operations | What makes it correct |
|---|---|---|---|---|
| CCS811 driver | `sensor_ccs811_driver.c` | mutex, conditioning flag and start time, mode flags (`in_idle_mode`, `ble_connected`, `await_first_1s_sample`), cache, baseline, delayed work | init, on_connected, on_disconnected, is_ready, read_air_quality, read_for_ble, conditioning work, baseline save and restore | the mode fits conditioning and client; no sample before the device had time to measure; the cache is never older than it may be; every path releases the mutex |
| Battery service | `battery_service.c` | last level, last charging state, callback, debounce work | get_level, is_charging, pin interrupt, debounce work | no pin change is lost; levels stay in 0..100 |
| BLE battery service | `ble_battery_service.c` | `ble_battery_state`, client count, poll work | on_connected, on_disconnected, update, update_manual, charging callback, poll | what a client reads agrees with the state and the state with the hardware; the poll runs exactly while there is a client |
| Sensor manager | `sensor_manager.c` | mutex, `current_data` with its validity mask, armed, client count, env and AQ work, callback | init, arm, update, update_selective, on_connected, on_disconnected, getters, update_air_quality_for_ble | validity bits belong to the values; no sampling without a client; a connect sample is not lost |
| Environmental Sensing Service | `ess_service.c`, `ess_encode.c` | encoded value, validity, last notified value and CCC per characteristic | reads, descriptor reads, CCC writes, update | a read returns the newest valid value or an error; a notification exactly when the trigger asks for one |
| HTS221, LPS22HB drivers | `sensor_hts221_driver.c`, `sensor_lps22hb_driver.c` | data-ready semaphore, power state | power, trigger, wait, read | a value belongs to the trigger that asked for it; the sensor is powered off on every path |
| Advertiser and main | `ble_advertiser.c`, `main.c` | `advertising_enabled`, identity | boot sequence, start with retries, connected, disconnected, recycled | advertising and a connection never both missing for good |
| Naming, uptime, shell, board | `device_naming.c`, `uptime_service.c`, `app_shell.c`, `board.c` | almost none | formatting and I/O | - |

**How they interact.** `main()` initialises everything, takes the boot sample
and starts advertising. From then on three threads matter: the Bluetooth RX
work queue (connected, disconnected, GATT reads), the system work queue
(conditioning, debounce, poll, env and AQ work items) and, if built in, the
shell. The advertiser's callbacks call the sensor manager and then the BLE
battery service; the sensor manager calls the sensor drivers and the battery
service and reports to the ESS by a callback after it has released its mutex;
the ESS calls back into the sensor manager on a gas read; the battery service
calls the BLE battery service whenever it notices a pin change, which may be in
the middle of a call the BLE battery service made. The pin interrupt preempts
everything.

**Where it is hard.** Mutexes are taken with timeouts and the caller gives up;
one flag is also written outside the mutex; one read sleeps 1.5 s with the
mutex released; the end of conditioning is noticed in two places; I2C commands,
ADC reads and notifications fail halfway through a handler; updates nest through
a callback; work items are cancelled while they run. The full list, line by
line, is under `hazards` in `PROJECT.json`.

## 2. Modules

| Module | Role |
|---|---|
| `Ccs811Driver` | the CCS811 driver, with the threads that call it and the clock |
| `SamplingPolicy` | what the driver promises about the measurement mode, without threads or mutex |
| `MCCcs811` | constant values for its runs |
| `Ccs811Proofs` | its theorems |
| `Ccs811WakeProofs` | its theorems for a single caller |
| `BleBattery` | battery service and BLE battery service, composed with their callers |
| `MCBleBattery` | constant values for its runs |
| `BleBatteryProofs` | its theorems |
| `SensorManager` | the sensor manager, with the threads that call it |
| `SensorManagerProofs` | its theorems |
| `MCSensors` | constant values for its runs |
| `EssEncode` | encoders, range checks and notification triggers as pure operators |
| `EssService` | the Environmental Sensing Service on top of `SensorManager` and `EssEncode` |
| `MCEss` | constant values for its runs |
| `EssProofs` | its theorems for both builds |
| `EssDefaultProofs` | its theorems for the default build |
| `OneShotSensors` | the HTS221 and LPS22HB drivers with their sensors and interrupts |
| `Measurement` | what a one-shot sensor promises its caller |
| `OneShotProofs` | their theorems |
| `Ccs811Baseline` | the CCS811's baseline between sensor, RAM and flash |
| `BaselineStore` | what keeping the baseline promises, across restarts |
| `ClientLink` | what the connection callbacks promise the two services that count clients |
| `Advertiser` | `ble_advertiser.c` with the Bluetooth host below it |
| `Lifecycle` | the boot sequence and restarts, composed of `Advertiser`, `Ccs811Baseline` and the client counts; implements `BaselineStore` and `ClientLink` |
| `LifecycleProofs` | its theorems |

Definitions introduced with "A variant with a defect" are not part of a
specification. Each is the definition that follows it with one mistake put in;
substituted for it, it makes TLC violate the property the table below pairs it
with, which shows that the property sees that kind of mistake.

### Ccs811Driver

| Model | Code |
|---|---|
| `pc`, `wait`, `forBle`, `answer` | a thread's place in the driver, its timeout or sleep, which read it called, what it got |
| `mutex` | `ccs811_mutex`; a thread acquires it in one step or, if it is taken and the time is up, gives up |
| `mode`, `modeAge` | the device's drive mode, and since when (history) |
| `started`, `elapsed`, `conditioning_complete`, `work`, `remaining` | `ccs811_init_time`, the time since then, the flag, and `conditioning_work` with its timer |
| `sampleAge`, `co2Age`, `tvocAge` | `k_uptime_get() - last_sample_time`; the true ages of the two cached values (history) |
| `BootStart`, `BootMode` | end of `ccs811_driver_init()`, `ccs811_start_boot_conditioning()` |
| `ConditioningStart/Lock/Mode` | `ccs811_conditioning_work_handler()` |
| `OnConnected`, `ConnectedLock/Mode`; `OnDisconnected`, `DisconnectedLock/Mode` | the two client handlers; the sensor manager reports only the last disconnect |
| `PollReady` | `ccs811_driver_is_ready()` called without the mutex by GATT reads, updates and the shell |
| `Read`, `ReadLock`, `ReadWake`, `ReadRelock`, `FetchFails`, `FetchHalf`, `FetchSucceeds`, `Fallback` | `read_air_quality()` and `read_for_ble()`, split where the code can block |
| `Tick` | one unit of time; not while a free mutex has a waiter, since the kernel hands it over at once |

A step ends where the code can block. Time is counted in ticks and saturates
where no comparison can tell more. Left out: compensation values (they only
change what the sensor computes), log messages, NULL outputs (no caller passes
one).

### SamplingPolicy

Conditioning lasts its whole time and never returns; afterwards the sensor goes
live only with a client and idle only without one. `Ccs811Driver` implements it
under the mapping `phase <- PhaseOf(mode)`, `client <- ble_connected`,
`conditioned <- elapsed = ConditioningTime`. It promises no progress, because a
mode command may fail and a lock may time out.

### BleBattery

| Model | Code |
|---|---|
| `pin`, `last_charging_state`, `debounce` | the charge status pin, `bat_data.last_charging_state`, `charge_debounce_work` armed |
| `job`, `calls` | what each thread is doing, and its stack of open reads and publications: a nested update is a frame on top |
| `ble`, `bas` | `ble_battery_state`; the characteristics a client reads |
| `connected_count`, `poll` | the client count, `battery_poll_work` armed |
| `FetchSucceeds`, `FetchFails`, `IsCharging` | `battery_sample()`, `get_level()`, `is_charging()` with its callback |
| `ChargingStatusChanged`, `UpdateManual`, `Continue`, `Resume` | `charging_status_changed()`, `update_manual()`, `update()`, and the return of a callback into the call below it |
| `NotifySucceeds`, `NotifyFails`, `StatusSent` | the three publications of `update_manual()` and its error return |
| `PinEdge`, `DebounceWork` | interrupt and debounced work |
| `Seed`, `Connect`, `OnConnected`, `OnDisconnected`, `PollWork`, `EnvWork` | boot seed, client handlers, poll, and the sensor manager's reads of the battery |

Both work queues are cooperative threads: between two blocking calls only the
interrupt comes in. Blocking calls are the ADC conversion and the publication.
A work item is armed or not; lengths of delays matter to no property. What is
taken from the kernel and not from this repository: cancelling a running item
marks it, and `k_work_schedule()` (unlike `k_work_reschedule()`) refuses a
marked item; the BAS serves 100 % until told otherwise.

### SensorManager

| Model | Code |
|---|---|
| `job`, `todo`, `phase` | what a thread was asked to do, the calls it still has to make for it, and how far the first one is |
| `cpu` | the running thread: both queues are cooperative, so another one runs only after this one blocks or is done |
| `mutex` | `sensor_manager_mutex`; an unlock hands it to a waiter |
| `reads` | the sensors the current update still has to read |
| `copy` | the local copy an update hands to the callback, or a read works on |
| `fresh` | sensors read since the Bluetooth thread began its job (history) |
| `current_data`, `update_callback`, `armed`, `connected_count`, `works` | the static variables of the same names; `env_work` and `aq_work`, if scheduled |
| `Script` | the sequence of calls in `main()`, the handlers and the GATT reads |
| `Lock`, `Locked`, `GiveUp`, `Enters` | `k_mutex_lock()` with its timeout in the updates and in `get_data()` |
| `SensorRead` | one of `read_temperature_humidity()`, `read_pressure()`, `read_air_quality()`, `read_battery()`; after the last one the copy, the unlock and the call of the callback |
| `DriverCall`, `DriverReturns`, `ForBle` | calls into the CCS811 driver outside the mutex: mode changes, `update_air_quality_for_ble()`, the baseline save |
| `Fail` | the caller's reaction to a timeout: a read is refused, everybody else goes on |
| `OnConnected`, `OnDisconnected`, `Schedule`, `Work`, `Rearm` | client handlers and timed samples |

`MayFail` says which sensors may fail. How long a driver blocks is not modelled:
whoever waits for the mutex may get it or give up, because an air quality read
sleeps 1.5 s inside the mutex and the waiters' timeouts are 500 and 100 ms. The
answer of a BLE request may combine an eCO2 and a TVOC of different samples,
since that is what the driver's cache allows (finding 2).

### EssEncode and EssService

| Model | Code |
|---|---|
| `sensor` | the five `struct ess_sensor`, without the constant fields |
| `step` | how far a thread is in `ess_service_update()` |
| `ready` | what `ccs811_driver_is_ready()` answers; `BecomesReady` may come between any two steps |
| `announced` | the value the subscribed client last saw or was sent, none after a refused notification (history) |
| `UpdateEnvironment`, `UpdateCo2`, `UpdateTvoc`, `UpdateSensor` | `ess_service_update()`, one step per characteristic, with its early returns, and `update_sensor_*()` |
| `Notified` | the thread that waited in `bt_gatt_notify()` goes on |
| `StartRead`, `ReadUnready`, `Answer`, `Refuse` | `read_u16()`, `read_u32()`, `read_co2()`, `read_tvoc()` around the sensor manager's part |
| `CccCfgChanged`, `ClientLeaves` | the five CCC handlers, and the host's reset of subscriptions |
| `AsInt16`, `ShouldNotify` | the 16-bit comparison of a change |

Readings are integers ten times finer than the wire format, so truncation is in
the model; the rounding of `float` is not. A notification may block every
thread but the system work queue, where the host does not wait for a buffer.
The host may refuse any notification; the code only logs that and goes on, and the
value counts as the old one from then on. Descriptors are constants and are left out.

### OneShotSensors and Measurement

| Model | Code |
|---|---|
| `reader`, `todo` | who holds the sensor manager's mutex for a read, and the sensors it still has to read; one update reads both, or one of them |
| `pc` | where that thread stands in `hts221_driver_read_both()` or `lps22hb_driver_read_pressure()` |
| `device` | each sensor: converting, a sample waiting, and whether the sample in its registers belongs to the current read (history) |
| `power` | each sensor's power switch, which the driver's flag `*_enabled` only stands for, and what the last `power_on()` or `power_off()` returned (history) |
| `hts_trigger`, `interrupt_initialized` | whether the data-ready interrupts could be set up; both drivers go on without |
| `hts_irq`, `HtsHandler` | the HTS221's interrupt, and its handler on the thread `TriggerThread` |
| `HtsPowerOn`, `HtsTrigger`, `HtsDataReady`, `HtsTimeout`, `HtsFetch`, `HtsPowerOff` | the steps of a read of the HTS221 |
| `LpsPowerOn`, `LpsTrigger`, `LpsStart`, `LpsSleep`, `LpsDataReady`, `LpsTimeout`, `LpsDisarm`, `LpsFetch`, `LpsPowerOff` | the steps of a read of the LPS22HB |
| `LpsConverted` | a conversion ends, and `lps22hb_drdy_callback()` |
| `HtsConverted`, `ConversionLost` | the other events of the two sensors |

Every I2C transfer may fail, and every conversion may be lost or be late. One
assumption about time is made, the **StabilizationAssumption**: a conversion of
the LPS22HB that outlasts the wait for it (100 ms) has ended when the next read's
stabilisation delay (50 ms) has. The sensor needs some 40 ms. It is the guard
`~device["lps"].converting` of `LpsTrigger`. Nothing of the kind is assumed of
the HTS221. Values, register masks and the drivers' initialisation are left out;
initialisation turns no power switch, so a sensor may be on or off before its first
read. `lps22hb_driver_power_on()` sets up the interrupt line after the switch: if
that fails the sensor is on, the flag is not set, and the read returns without
powering it off.

`Measurement` answers every request with an error or with a sample measured for
it; a driver without an interrupt may also answer with an older sample. The
LPS22HB's driver implements it under the mapping given at `Lps`.

### Ccs811Baseline, Advertiser and Lifecycle

| Model | Code |
|---|---|
| `flash`, `stored_baseline`, `baseline` | the value under `ccs811/baseline`, the variable, and the sensor's register |
| `LoadBaseline`, `StartDriver`, `RestoreBaseline` | `ccs811_settings_set()`, `ccs811_driver_init()`, `ccs811_driver_restore_baseline()` |
| `BaselineSaveDue`, `FetchBaseline`, `WriteBaseline` | `ccs811_driver_baseline_save_due()`, `ccs811_driver_save_baseline()` before and in its flash write |
| `conditioning`, `dayPassed` | time, told apart only by the 20 minutes and the 24 hours the code compares with |
| `host`, `advertising`, `conn`, `events` | the Bluetooth host: enabled, advertising, its one connection object, and callbacks not yet made |
| `rx`, `recycled` | where the receive thread stands in a callback; the recycled callback waits on the system work queue |
| `Connected`, `StopOnConnect`, `ClearOnConnect`, `ConnectFailed`, `Disconnected`, `Recycled`, `RecycledFlag` | `ble_connected()`, `ble_disconnected()`, `ble_recycled()`, split where another thread may come in |
| `TakeReady`, `TryStart`, `TryAgain`, `SetFlag` | `ble_advertiser_start()` |
| `main`, `Then` | where `main()` stands, and the order of its calls |
| `SmOnConnected`, `BasOnConnected`, `SmOnDisconnected`, `BasOnDisconnected` | what the callbacks do to the counts of the sensor manager and the BLE battery service |
| `AqWork`, `AqSampled`, `AqFetch`, `AqWrite` | `aq_work_handler()` around the save |
| `Restart` | power is lost at any point: everything but the flash starts again |

`Lifecycle` says of the two services only who is counted; what they then do is
in `SensorManager` and `BleBattery`. It says of the driver only what concerns the
baseline; modes and samples are in `Ccs811Driver`. The host may refuse to
advertise at any time and must when it has no free connection object; it makes
the callbacks of one connection in their order on one thread and frees the object
after the last of them. This is how `src/` uses the host and what its comments
say of it ("connection object is freed", `ble_advertiser.c:107`).

`BaselineStore` promises that flash holds only baselines of a conditioned sensor,
that losing power does not change it, and that a sensor is started with what flash
holds or, after an error, with its own. `Lifecycle` implements it step by step.

`ClientLink` promises that neither service hears of a client before both are ready,
that each client is told to the sensor manager and then to the battery service, that
its leaving is told in the same order, and that the next client is told to nobody
before both have seen the last one go. `Lifecycle` implements it under the mapping
`serving <- armed /\ bas_initialized`, with the two counts for the clients known.
The promise is what `SensorManager` and `BleBattery` take for granted when they
count to one.

## 3. Runs

| Run | Instance | Shows |
|---|---|---|
| `ccs811_shared` | readers on the RX and on the system work queue | type and cache range, mutex ownership, conditioning never cut short, mode follows client, await flag only in 1 s mode, age of served values, refinement of `SamplingPolicy` |
| `ccs811_default` | RX is the only caller (default build) | no fetch too early or from an idle device, every call returns |
| `ccs811_lost_mode` | default build | `QuiescentMode` fails |
| `ccs811_half_answer` | default build | `SuccessWritesBoth` fails |
| `battery_poll` | periodic build, 2 pin changes, 1 fault, fairness | derived state consistent, published charge level consistent, updates nested no deeper than the pin has changed, poll alive under a client, poll stops without one, charging flag repaired |
| `battery_status` | default build, no faults | `ChargeStatePublished` fails |
| `sensors_periodic` | periodic build, every sensor may fail, fairness | type, mutex discipline, validity of gas readings, timed work scheduled only for a client and never dead under one, reads answered from fresh readings, sampling continues |
| `ess_default` | default build, humidity, pressure and CO2 subscribed, HTS221 and CCS811 may fail | environment characteristics are current, no change goes unannounced unless the host refuses it, compensation of the connect sample is fresh |
| `ess_periodic` | periodic build, humidity above 100 %, eCO2 above 5000 ppm | wire ranges, no gas value before readiness |
| `oneshot` | both drivers, two reading threads, the HTS221's handler on the system work queue, fairness | sensors on while a read needs them and otherwise only after a power call that failed, no interrupt left armed, no stale pressure (refinement of `Measurement`), no stale temperature before a first timeout, every read ends |
| `oneshot_stale` | the same | `HtsSampleIsOwn` fails |
| `lifecycle` | periodic build, restarts at any point, fairness | clients counted right, advertising only with a free connection object and under its flag, reachable again after every client, baseline kept (refinement of `BaselineStore`), clients told in turn (refinement of `ClientLink`) |

**Bounds.** CCS811: conditioning 3 ticks, wake delay 2, lock timeout 1, cache age
2. Conditioning is longer than the wake delay, a lock times out within a sleep,
and a cached value can be fresh, at its limit and beyond it. Readings are one
value below, one at and one above what the driver accepts. There is no bound on
the number of calls, connects or failures: the state is finite without one.
Battery: two pin changes are a change and one during the update it causes; each
changes the depth of nesting by at most one. Levels are 0 and 80: they differ in every derived
value, and 0 is the boundary of the seed. One fault reaches every error path,
and none needs two.
Sensor manager and ESS: no bound on calls, failures or connects either. One to
three readings per sensor are enough for a change to be seen: two that encode
alike, one that does not, one out of range, one that only the sensor manager
accepts. There is one connection (`CONFIG_BT_MAX_CONN` is 1 by default and in
`sysbuild/ipc_radio/prj.conf`).
Subscriptions multiply the states; the runs subscribe to what they need: three
characteristics in `ess_default`, of both widths, from all three sensors and one of
them stored by reads of its own as well, none in `ess_periodic`,
whose properties do not depend on them.
One-shot sensors: no bound on reads, failures or late conversions. The handler
runs on the thread that waits for it, as `CONFIG_HTS221_TRIGGER_GLOBAL_THREAD`
has it (`tests/hardware/prj.conf`) and as is harder; with the other thread
reading, the run also has a handler that can run.
Life cycle: no bound on connections, restarts or saves. `AdvRetryMax` is 5 as in
the code, and two baselines tell an old value from a new one.

**Fairness.** The scheduler runs every runnable thread and time passes (weak
fairness of each thread's steps, of boot, of work items and of `Tick`). The
debounce and poll items get strong fairness: the system work queue is first in,
first out, so other items cannot pass an armed one for ever. Nobody is obliged
to connect, disconnect or read, and the pin need not change. `CallsReturn` also
needs that a mutex holder's I2C transfer ends, as the driver's transfers do.

In `SensorManager` each thread's steps and each work item get strong fairness: a
thread that can go on is enabled only while no other runs, the kernel's ready
queue lets it run in its turn, drivers return, and timers expire.

In `OneShotSensors` every wait has a timeout and every transfer ends, so a read
goes on (weak fairness of each driver's steps), and conversions of the LPS22HB
end. In `Lifecycle` main, the receive thread and the work queue go on, and the
host frees a connection object that nothing uses; `ReachableAgain` has to hold
although no client is obliged to connect or to leave and the power may go at any
time.

**Deadlock.** Every run checks it: some thread can always move or time pass in
`Ccs811Driver`, clients can always come and go in `BleBattery`, `SensorManager`
and `EssService`, a read can always begin in `OneShotSensors`, and the device can
always restart in `Lifecycle`.

## 4. Proofs

All theorems hold for any thread sets, delays, readings, levels and bounds that
satisfy the named assumptions in the modules: the main thread and the work queue are
not connectors, times are natural numbers (conditioning is not 0), readings are
natural numbers; in `BleBattery` the three threads differ and levels are
percentages; in `SensorManager` the three threads differ and readings are integers,
for both values of `Periodic`; in `EssService` only characteristics of the service
can be subscribed to (`SubscribableAssumption`); in `OneShotSensors` any thread
handles the interrupt (`ReadersAssumption`); in `Lifecycle` there is at least one
attempt to advertise (`AdvRetryMaxAssumption`), any set of baselines without the
value for none (`BaselinesAssumption`), and either build (`PeriodicAssumption`).

`Ccs811Proofs`: `TypeCorrect`, `MutexOwnerHolds`, `ConditioningNotCutHolds`,
`ModeFollowsClientHolds`, `AwaitOnlyWhenLiveHolds`, `FallbackIsRecentHolds`,
`ImplementsPolicyHolds`. The properties are not inductive one by one, so the proof
uses the conjunction `IInv`. Besides them it says: main alone is in the boot steps
and nothing starts before it (`BootInv`); the timer and the elapsed time add up to
the conditioning time, so the delayed work cannot come early (`TimerInv`); the mode
is the boot mode until the flag is raised, and the flag is raised only when the time
has passed (`ModeInv`); a thread about to change the mode stands there with the flag
raised and with the client state it decided on (`StepInv`); and between critical
sections the mode fits the client (`SettledInv`). Each action has a lemma that
preserves the conjuncts it disturbs. `FallbackIsRecent` needs a second invariant,
`AgeInv`: once a first sample exists neither cached value is older than the last
complete sample. The refinement maps boot, connect, disconnect and the two mode
changes to policy steps and everything else to stuttering.

Two more theorems of `Ccs811Proofs` are what `CallsReturn` rests on besides
fairness. `CallDescendsHolds`: a call never starts over, so each of its steps takes
it nearer to its return, no step of another thread takes it back, and a tick uses up
some of the time it may still wait. `WaitBoundedHolds`: that time is never more than
two lock timeouts and one wake delay.

`Ccs811WakeProofs`: `FetchAfterWakeHolds`, under the hypothesis `SoleCaller(r)`: one
thread makes all calls. In the default build that is the Bluetooth RX work queue,
which reports connects and disconnects and serves the gas reads; the conditioning
work is the other thread. `OneCallerHolds` of `EssDefaultProofs` proves of the
sensor manager above that this is so, except for the sample main takes before
clients are served; the shell is not modelled. `WakeInv` says that the sleep
of a read covers what is left of the wake delay (`WakeTimed`), that the await flag
is lowered only after the delay or on the way to the idle command (`LiveTimed`),
that an idle device is noted as idle (`IdleNoted`), and what that gives the read
that fetches (`FetchTimed`); conditioning has ended before a read begins, so its
work has no mode command left to give (`ReadsAlone`). With a second caller the
property fails: a disconnect meets a sleeping read.

`BleBatteryProofs`: `TypeCorrect`, `DerivedConsistentHolds`, `PollAliveHolds`,
`ChargeLevelPublishedHolds`, `NestingBoundedHolds`. The invariant adds that a client is counted only after
the sensor manager's sample (`AttachInv`), which bounds the count. The argument goes
along the call structure: lemmas for `Return`, `Continue` and `IsCharging` say what
a call does to types, derived values and jobs, and every action cites them.
`ChargeLevelPublished` adds `PublishInv`: a thread between two jobs has no open
calls (`RestInv`), both levels of the state are written together (`LevelInv`), and a
client reads the right ones unless some thread is about to publish or has failed to
(`ReadInv`). `NestingBounded` needs an account across the threads (`NestingInv`): the
levels of recursion of all stacks together, and one more if the pin differs from what
`is_charging()` last recorded, are never more than the pin changes there have been. A
callback opens a level only by recording such a difference.

`SensorManagerProofs`: `TypeCorrect`, `MutexDisciplineHolds`,
`GasReadingsValidHolds`, `SamplingFollowsClientHolds`, `ReadIsFreshHolds`. A thread's control state is the list of calls it still has to
make, so the first thing proved is that this list is always the rest of its job's
script and that the thread stands where the first of those calls allows (`CallInv`),
with jobs only on the threads that run them (`JobInv`); together with the types and
`MutexDiscipline` this is `ControlInv`, preserved by a lemma per way a call can end.
`GasReadingsValid` is inductive over it, by cases on the three readings a gas update
can store. The two halves of `SamplingFollowsClient`, no work without a client
(`WorkOnlyWithClient`) and none dead under one (`SamplingAlive`), need `ClientInv` (a client is
counted while its connect is handled, and only after the manager is armed) and hold
each other up: a work handler ends only with the step that schedules the item again
or finds no client (`QuietJobs` and `QuietStep` say that every other step ends
neither a handler nor a connect). `ReadIsFresh` needs `FreshInv`: a read of an
environment characteristic has its sample, is refused, or is on its way to the one
sensor it needs; only its own successful update leads past it.

`EssProofs`: `EssTypeCorrect`, `NoGasBeforeReadyHolds`, `KnownIsRealHolds`, for both builds. The service
runs inside the sensor manager's steps, so its invariant `EssInv` rests on
`ControlInv` and `GasReadingsValid`: a copy handed on has an air quality bit that
vouches for both gases (`CopyInv`), and a gas is read, and stored, only when the
sensor is ready (`GasInv`). `KnownIsReal` is the same for the temperature, humidity
and pressure: the values that stand for "not known" are never stored as known,
because the range checks refuse every reading whose encoding is one of them.
`EncodingAccurate` says of the encoders that the range checks and the clamps agree:
a reading that is accepted is truncated and never clamped.

`EssDefaultProofs`: `ConnectCompensationFreshHolds`, `NoChangeUnannouncedHolds`,
`EssCurrentHolds`, `OneCallerHolds`, under the hypothesis `~Periodic`, which is the
default build.
There only main and, when it is done, the Bluetooth thread use the sensor manager,
so its mutex is always free and no read is refused (`SoloInv`); this is
`OneCallerHolds`. A connect reads the
environment before the air quality (`ClimateFirst`): `ConnectCompensationFresh`.
What an update hands to the service stays the newest data until the service has been
through it, and what it has been through is shown (`ShownInv`): `EssCurrent`,
which also assumes readings within the wire format (`ReadingsInRange`),
because a value that is refused ends the update. `NoChangeUnannounced` (`TellInv`) rests on
`ComparedApart`: the comparison as 16-bit values tells apart whatever two values a
characteristic may show.

`OneShotProofs`: `TypeCorrect`, `HtsOwnUntilTimeoutHolds`, `PowerFollowsReadsHolds`,
`LpsDisarmedHolds`, `LpsMeasuresHolds`, `ReadDescendsHolds`. For the HTS221 the invariant (`HtsInv`) says
that before a first timeout a conversion, its interrupt and its token exist one at a
time, and only while the read that triggered the conversion waits. For the LPS22HB
(`LpsInv`) the token is 0 and nothing converts when the trigger is written, so a
token or a fetch that follows has a sample of its own. `PowerInv`
follows flag and switch through every error path: the HTS221's flag is never up over
a sensor that is off, so the early return of `power_on()` is harmless, and the flag
is up whenever its `power_off()` has a command to send. `ArmInv` does the same for
the pin interrupt. The refinement maps taking
up a list with the pressure in it to a request, the step that takes the pressure off
the list to its answer, and the rest to stuttering. `ReadDescends` is what
`EveryReadReturns` rests on besides fairness: `Remaining` counts the driver steps an
update has before it at most, fourteen for both sensors; every step of a driver
lowers it, and no interrupt, handler or late conversion raises it.

`LifecycleProofs`: `TypeCorrect`, `CountsFollowLinkHolds`,
`RestartHasConnectionHolds`, `FlagCoversAdvertisingHolds`, `PersistsBaselineHolds`,
`ClientsInTurnHolds`, `NeverStrandedHolds`.
`PhaseInv` lists the combinations of connection object, outstanding callbacks and
place of the receive thread that one connection goes through; `LinkInv` says that
advertising and the recycled callback need a free object and exclude each other,
which is why two starts can never meet; `CountInv` gives both counts from the phase,
and `BootInv` that both services are ready before a client can be counted.
`BaselineInv` carries a baseline from flash to `stored_baseline` to the sensor
through the boot order, and says that what a save fetches was computed after
conditioning; with it every step is a step of `BaselineStore` or a stutter. The
refinement of `ClientLink` adds `ArmInv`: main arms the two services in its order
and nothing disarms them but a restart, so that the two counts, given by the phase,
move in the order of the callbacks. `NeverStranded` is what is safe about
`ReachableAgain`: once advertising has started, and unless the host has refused an
advertisement, the device advertises, has its client or has the callback that
restarts advertising still to come.

**Only model-checked**: the liveness properties `CallsReturn`, `PollStops`,
`ChargingRepaired`, `SamplingContinues`, `EveryReadReturns` and `ReachableAgain`:
the prover handles neither fairness nor ENABLED. For `CallsReturn`,
`EveryReadReturns` and `ReachableAgain` the part that needs neither is proved
(`CallDescends` with `WaitBounded`, `ReadDescends`, `NeverStranded`); what is left to
TLC is that the steps they count are enabled and taken. Every safety property that a
passing run checks is proved, four of them under the hypotheses named above, which
are those of the run: `FetchAfterWake` for one caller, `ConnectCompensationFresh`,
`NoChangeUnannounced` and `EssCurrent` for the default build. `KnownIsReal`,
`OneCaller` and the three cores just named are proved and in no run.

## 5. Findings

Four disagreements between the code and its own comments or headers, each a run
that TLC ends with a counterexample (`findings` in `PROJECT.json`):

1. the conditioning handler's mode change is skipped when a readiness query came
   first (`sensor_ccs811_driver.c:102,296`);
2. a cached TVOC of 0 ppb leaves the caller's variable unwritten
   (`sensor_ccs811_driver.c:646`);
3. a changed charge state is not published (`ble_battery_service.c:84,205`);
4. after a read of the HTS221 that timed out, the next one returns a sample from
   before its own trigger (`sensor_hts221_driver.c:185`).

Seen in the same models, without a run of their own:

- a pin change during the debounce handler has no handler: the item is cancelled
  by the interrupt and cleared by the handler (`battery_service.c:181-182`;
  `EdgeNotLost`);
- in the periodic build, a connect's environment sample that times out behind an
  air quality read is skipped, and the air quality of the connect is compensated
  with older readings (`sensor_manager.c:469`; `ConnectCompensationFresh`);
- an environment value out of range ends the update: the characteristics after it
  keep what an earlier sample left (`ess_service.c:742,756,770`; `EssCurrent` with
  a humidity above 100 %);
- `FetchAfterWake` does not hold with a second reader, because a sleeping read
  clears the await flag of a newer connection (`sensor_ccs811_driver.c:484,488`);
- a nested update's newer charging state is overwritten by the outer one
  (`battery_service.c:330-340`);
- a boot sample of 0 %, not charging, equals the initial state and is not
  published (`ble_battery_service.c:205`);
- `EssCurrent` does not hold in the periodic build with a subscriber, because an
  update that waits in a notification writes older values over newer ones
  (`sensor_manager.c:412`). Nor does `NoChangeUnannounced`: after the work queue
  has announced a newer humidity, an update of the Bluetooth thread that waited
  writes the older one back, and the answer to a read then stores the newer one
  again, silently, because reads do not notify;
- gas values of a ready sensor are invalidated where comments say that they are
  kept (`ess_service.c:794-809`);
- a baseline that cannot be written to flash is only logged: the save returns 0,
  although `sensor_ccs811_driver.h` says "0 on success, negative error code on
  failure", and is tried again 24 h later (`sensor_ccs811_driver.c:326`);
- a restart of advertising that the host refuses is only logged: the device stays
  unreachable until it is restarted (`ble_advertiser.c:110`). `ReachableAgain`
  excludes it;
- an LPS22HB whose interrupt line cannot be set up stays on: power_on() fails after
  the switch (`sensor_lps22hb_driver.c:162,173`), and the read returns without the
  power-off that the comment at line 355 calls "always". Until the next read that
  gets further nothing turns it off; `PowerFollowsReads` names the exception;
- with the HTS221's handler on the system work queue, as in the hardware tests'
  configuration, a timed sample always times out, because the queue waits for
  itself; its late token then completes the next read: finding 4 without any
  failing hardware. If the trigger cannot be set at init, every read times out
  (`sensor_hts221_driver.c:78`, "continuing without interrupt").

Also noticed: `docs/low_power.md:30` starts the 20 min conditioning at the first
connect and names a function that does not exist; the code starts it at boot.
`sensor_manager.c:466` says the connect sample is what "the first ESS notify after
subscribe will carry": subscribing notifies nothing, and the sample itself is a
change only before the subscription. `ess_service.c:62` calls 5000 ppm the
"CCS811 ceiling", which the sensor manager takes to be 8192.
`docs/plans/connection-driven-sampling-and-test-cleanup.md:162` accepts that the
"baseline NVS save still occurs every 24 h disconnected"; `docs/low_power.md:31`
and the code save only in periodic air quality work, which needs a client.
The trigger structure given to
the HTS221's Zephyr driver is a local variable of `hts221_driver_init()`
(line 69). The fallback name of the advertiser (`ble_advertiser.c:167-169`) takes the
identity's bytes in the opposite order of `device_naming.c`. The shell's
`gatt connect` (`app_shell.c:175`) counts a second client beside the real one.

## 6. Not modelled

See `components` in `PROJECT.json`. Formatting, shell output, board start-up,
uptime and naming have no state to go wrong over several steps. The kernel, the
sensor drivers of Zephyr and the Bluetooth host are external. Within the modelled
components: operations nothing calls (BLE Mesh getters, `ble_advertiser_stop()`,
two battery setters), the CCS811's manual reset, which changes no state of the
driver, register masks, unit conversions of the drivers, ADC calibration, and the
shell as a second source of connects.

## 7. Plan

1. `Ccs811Driver`, `SamplingPolicy`: done.
2. `BleBattery`: done. To add: voltage conversion with its integer width.
3. `SensorManager`: done. To add: an abstract specification (samples are taken
   only at boot and for a client).
4. `EssEncode`, `EssService`: done. To add: encoders and triggers against
   reference definitions over bounded inputs; an abstract specification of a
   subscriber's view of one value.
5. `Ccs811Baseline`, `BaselineStore`: done.
6. `OneShotSensors`, `Measurement`: done.
7. `Advertiser`, `Lifecycle`: done. To add: the shell as a second client.
8. `ClientLink`: done.
9. Proofs: done for every safety property the passing runs check, and for the
   descending core of three of the liveness properties. To add: the same for
   `SamplingContinues` (a job of the sensor manager comes nearer to its end with
   every step) and for the boot sequence.
