---------------------------- MODULE SensorManager ----------------------------
(***************************************************************************)
(* app/src/sensor_manager.c: the boot sample, samples for a connecting     *)
(* client, timed samples while it stays, and reads on its behalf.          *)
(*                                                                         *)
(* A thread works through the calls in todo[t].  The Bluetooth RX and the  *)
(* system work queue are cooperative: cpu is the thread that is running,   *)
(* and another runs only after that one blocks (in a sensor driver, for    *)
(* the mutex) or is done.  Main runs alone, before advertising starts.     *)
(*                                                                         *)
(* Temperature and humidity share one validity bit here, since the code    *)
(* sets and clears theirs together.  Reading the battery takes its time,   *)
(* but what it yields is the subject of BleBattery.  The drivers' state is *)
(* that of Ccs811Driver; here they answer anything they may answer.        *)
(***************************************************************************)
EXTENDS Integers, Sequences

CONSTANTS
  Main, Rx, WorkQueue, \* main thread, Bluetooth RX and system work queues
  NoThread,            \* nobody holds the mutex, nobody runs
  Periodic,            \* CONFIG_SENSOR_PERIODIC_SAMPLING
  Climates,            \* HTS221 readings, in thousandths of a degree and of a percent
  Pressures,           \* LPS22HB readings, in hundredths of a pascal
  Gases,               \* CCS811 readings, in ppm and ppb
  MayFail              \* sensors whose reads may fail

Threads == {Main, Rx, WorkQueue}

ASSUME ThreadsAssumption ==
  Main # Rx /\ Main # WorkQueue /\ Rx # WorkQueue /\ NoThread \notin Threads
ASSUME PeriodicAssumption == Periodic \in BOOLEAN
ASSUME ReadingsAssumption ==
  /\ Climates \subseteq [temperature : Int, humidity : Int]
  /\ Pressures \subseteq Int
  /\ Gases \subseteq [eco2 : Nat, tvoc : Nat]
  /\ MayFail \subseteq {"temphum", "pressure", "air"}

VARIABLES
  mutex,           \* owner of sensor_manager_mutex
  cpu,             \* the running thread
  job,             \* what each thread was asked to do
  todo,            \* the calls it still has to make for it
  phase,           \* how far the first of them is
  reads,           \* the sensors this call still has to read
  copy,            \* the caller's or the callback's copy of the data, while it lives
  fresh,           \* sensors read since Rx began its job  (history)
  current_data,
  update_callback, \* a callback is registered
  armed,
  connected_count,
  works            \* env_work and aq_work, if scheduled

threadVars == <<cpu, job, todo, phase, reads, copy, fresh>>
smVars == <<mutex, threadVars, current_data, update_callback, armed, connected_count, works>>

-----------------------------------------------------------------------------
Sensors == {"temphum", "pressure", "air", "battery"}

SensorData == [temperature : Int, humidity : Int, pressure : Int, eco2 : Nat, tvoc : Nat,
               valid_mask : SUBSET {"temphum", "pressure", "air"}]

NoData == [temperature |-> 0, humidity |-> 0, pressure |-> 0, eco2 |-> 0, tvoc |-> 0,
           valid_mask |-> {}]

\* The updates, each with the sensors it reads, in order.
Selected == [ALL |-> <<"temphum", "pressure", "air", "battery">>,
             ENV_BASIC |-> <<"temphum", "pressure", "battery">>,
             TEMP_HUMIDITY |-> <<"temphum">>,
             PRESSURE |-> <<"pressure">>,
             AIR_QUALITY |-> <<"air">>]

Updates == {"ALL", "ENV_BASIC", "TEMP_HUMIDITY", "PRESSURE", "AIR_QUALITY"}
DriverCalls == {"mode", "for_ble", "baseline"}
Calls == Updates \cup DriverCalls \cup
         {"get", "register", "arm", "seed", "schedule", "rearm", "answer", "refuse"}

Reads == {"temperature", "humidity", "pressure", "co2", "tvoc"}
Jobs == Reads \cup {"boot", "connect", "disconnect", "env_work", "aq_work", "idle"}

\* A variant with a defect: air quality first.
ConnectedAirFirst == <<"mode", "AIR_QUALITY", "ENV_BASIC", "schedule">>

\* sensor_manager_on_connected() after it has counted the client.
Connected == <<"mode", "ENV_BASIC", "AIR_QUALITY", "schedule">>

\* The calls a job makes.
Script == [boot        |-> <<"ALL", "register", "arm", "get", "seed">>,
           connect     |-> Connected,
           disconnect  |-> <<"mode">>,
           env_work    |-> <<"ENV_BASIC", "rearm">>,
           aq_work     |-> <<"AIR_QUALITY", "baseline", "rearm">>,
           temperature |-> <<"TEMP_HUMIDITY", "get", "answer">>,
           humidity    |-> <<"TEMP_HUMIDITY", "get", "answer">>,
           pressure    |-> <<"PRESSURE", "get", "answer">>,
           co2         |-> <<"for_ble", "get", "answer">>,
           tvoc        |-> <<"for_ble", "get", "answer">>]

\* The sensor behind a characteristic.
Source == [temperature |-> "temphum", humidity |-> "temphum", pressure |-> "pressure",
           co2 |-> "air", tvoc |-> "air"]

\* 0 and CCS811_INVALID_READING are out of these ranges.
Eco2Ok(ppm) == ppm \in 400 .. 8192
TvocOk(ppb) == ppb \in 0 .. 1187

\* sensor_manager_init() has initialised the drivers and is taking the boot sample.
SmInit ==
  /\ mutex = NoThread /\ cpu = Main
  /\ job = [t \in Threads |-> IF t = Main THEN "boot" ELSE "idle"]
  /\ todo = [t \in Threads |-> IF t = Main THEN Script["boot"] ELSE <<>>]
  /\ phase = [t \in Threads |-> "call"]
  /\ reads = [t \in Threads |-> <<>>]
  /\ copy = [t \in Threads |-> NoData]
  /\ fresh = {}
  /\ current_data = NoData
  /\ update_callback = FALSE /\ armed = FALSE
  /\ connected_count = 0 /\ works = {}

-----------------------------------------------------------------------------
(* Calls *)

At(t, call) == cpu = t /\ phase[t] = "call" /\ todo[t] # <<>> /\ Head(todo[t]) = call
Wakes(t, p) == cpu = NoThread /\ phase[t] = p

Enter(t, p) == phase' = [phase EXCEPT ![t] = p]
Blocks(t, p) == Enter(t, p) /\ cpu' = NoThread

\* The call has returned; the thread goes on with the next one at once.
Proceed(t) ==
  /\ todo' = [todo EXCEPT ![t] = Tail(@)]
  /\ Enter(t, "call")
  /\ IF Tail(todo[t]) = <<>>
       THEN job' = [job EXCEPT ![t] = "idle"] /\ cpu' = NoThread
       ELSE UNCHANGED job /\ cpu' = t

\* A variant with a defect: a read goes on although the update has failed.
FailIgnored(t) == Proceed(t)

\* The mutex was not to be had in time: a read is refused, the other jobs
\* ignore the error.
Fail(t) ==
  IF job[t] \in Reads
    THEN todo' = [todo EXCEPT ![t] = <<"refuse">>] /\ Enter(t, "call") /\ cpu' = t /\ UNCHANGED job
    ELSE Proceed(t)

Waiting(t) == {u \in Threads \ {t} : phase[u] = "lock"}

\* A variant with a defect: the callback is made before the unlock.
UnlockAfterCallback(t) == UNCHANGED mutex

\* k_mutex_unlock() gives the mutex to a waiter, if there is one.
Unlock(t) ==
  \/ Waiting(t) = {} /\ mutex' = NoThread
  \/ \E u \in Waiting(t) : mutex' = u

\* sensor_manager_get_data() and the updates, once they have the mutex.
Enters(t) ==
  IF Head(todo[t]) = "get"
    THEN /\ copy' = [copy EXCEPT ![t] = current_data]
         /\ Unlock(t) /\ Proceed(t)
         /\ UNCHANGED reads
    ELSE /\ mutex' = t
         /\ reads' = [reads EXCEPT ![t] = Selected[Head(todo[t])]]
         /\ Blocks(t, "read")
         /\ UNCHANGED <<job, todo, copy>>

Lock(t) ==
  /\ \E call \in Updates \cup {"get"} : At(t, call)
  /\ IF mutex = NoThread
       THEN Enters(t)
       ELSE Blocks(t, "lock") /\ UNCHANGED <<mutex, job, todo, reads, copy>>
  /\ UNCHANGED <<fresh, current_data, update_callback, armed, connected_count, works>>

Locked(t) ==
  /\ Wakes(t, "lock") /\ mutex = t
  /\ Enters(t)
  /\ UNCHANGED <<fresh, current_data, update_callback, armed, connected_count, works>>

\* Held up by reads that block longer than the timeout: 500 ms, 100 ms for "get".
GiveUp(t) ==
  /\ Wakes(t, "lock") /\ mutex # t
  /\ Fail(t)
  /\ UNCHANGED <<mutex, reads, copy, fresh, current_data, update_callback, armed,
                 connected_count, works>>

-----------------------------------------------------------------------------
(* Updates *)

Valid(data, s) == [data EXCEPT !.valid_mask = @ \cup {s}]
Invalid(data, s) == [data EXCEPT !.valid_mask = @ \ {s}]

TemperatureHumidityRead ==
  \/ \E c \in Climates : current_data' = Valid([current_data EXCEPT
       !.temperature = c.temperature, !.humidity = c.humidity], "temphum")
  \/ "temphum" \in MayFail /\ current_data' = Invalid(current_data, "temphum")

PressureRead ==
  \/ \E p \in Pressures : current_data' = Valid([current_data EXCEPT !.pressure = p], "pressure")
  \/ "pressure" \in MayFail /\ current_data' = Invalid(current_data, "pressure")

\* A variant with a defect: one good value is enough.
AirQualityReadEither ==
  \/ \E g \in Gases :
       LET data == [current_data EXCEPT
                      !.eco2 = IF Eco2Ok(g.eco2) THEN g.eco2 ELSE @,
                      !.tvoc = IF TvocOk(g.tvoc) THEN g.tvoc ELSE @]
       IN current_data' = IF Eco2Ok(g.eco2) \/ TvocOk(g.tvoc)
                            THEN Valid(data, "air") ELSE Invalid(data, "air")
  \/ "air" \in MayFail /\ current_data' = Invalid(current_data, "air")

\* Each good value is stored, the bit needs both.
AirQualityRead ==
  \/ \E g \in Gases :
       LET data == [current_data EXCEPT
                      !.eco2 = IF Eco2Ok(g.eco2) THEN g.eco2 ELSE @,
                      !.tvoc = IF TvocOk(g.tvoc) THEN g.tvoc ELSE @]
       IN current_data' = IF Eco2Ok(g.eco2) /\ TvocOk(g.tvoc)
                            THEN Valid(data, "air") ELSE Invalid(data, "air")
  \/ "air" \in MayFail /\ current_data' = Invalid(current_data, "air")

\* One sensor has been read.  After the last, copy, unlock, and call back.
SensorRead(t) ==
  /\ Wakes(t, "read")
  /\ \/ Head(reads[t]) = "temphum" /\ TemperatureHumidityRead
     \/ Head(reads[t]) = "pressure" /\ PressureRead
     \/ Head(reads[t]) = "air" /\ AirQualityRead
     \/ Head(reads[t]) = "battery" /\ UNCHANGED current_data
  /\ reads' = [reads EXCEPT ![t] = Tail(@)]
  /\ fresh' = IF job[Rx] = "idle" THEN fresh ELSE fresh \cup {Head(reads[t])}
  /\ IF Tail(reads[t]) # <<>>
       THEN UNCHANGED <<mutex, cpu, job, todo, phase, copy>>
       ELSE /\ Unlock(t)
            /\ IF update_callback
                 THEN /\ copy' = [copy EXCEPT ![t] = current_data']
                      /\ Enter(t, "callback") /\ cpu' = t
                      /\ UNCHANGED <<job, todo>>
                 ELSE Proceed(t) /\ UNCHANGED copy
  /\ UNCHANGED <<update_callback, armed, connected_count, works>>

CallbackReturns(t) ==
  /\ cpu = t /\ phase[t] = "callback"
  /\ copy' = [copy EXCEPT ![t] = NoData]
  /\ Proceed(t)
  /\ UNCHANGED <<mutex, reads, fresh, current_data, update_callback, armed,
                 connected_count, works>>

-----------------------------------------------------------------------------
(* Calls into the CCS811 driver, without the mutex *)

\* aq_work saves the baseline only when that is due.
DriverCall(t) ==
  /\ \/ /\ \E call \in DriverCalls : At(t, call)
        /\ Blocks(t, "driver") /\ UNCHANGED <<job, todo>>
     \/ At(t, "baseline") /\ Proceed(t)
  /\ UNCHANGED <<mutex, reads, copy, fresh, current_data, update_callback, armed,
                 connected_count, works>>

\* sensor_manager_update_air_quality_for_ble(): both good values or none.  Each
\* may be of a sample of its own, and one that the driver leaves unwritten is
\* whatever the stack holds.
ForBle ==
  \/ \E g, h \in Gases :
       IF Eco2Ok(g.eco2) /\ TvocOk(h.tvoc)
         THEN current_data' = Valid([current_data EXCEPT !.eco2 = g.eco2, !.tvoc = h.tvoc], "air")
         ELSE UNCHANGED current_data
  \/ UNCHANGED current_data

DriverReturns(t) ==
  /\ Wakes(t, "driver")
  /\ IF Head(todo[t]) = "for_ble" THEN ForBle ELSE UNCHANGED current_data
  /\ Proceed(t)
  /\ UNCHANGED <<mutex, reads, copy, fresh, update_callback, armed, connected_count, works>>

-----------------------------------------------------------------------------
(* The rest of the boot sequence, of the handlers and of the reads *)

\* Nobody else has the mutex before advertising starts.
Register(t) ==
  /\ At(t, "register") /\ update_callback' = TRUE
  /\ Proceed(t)
  /\ UNCHANGED <<mutex, reads, copy, fresh, current_data, armed, connected_count, works>>

Arm(t) ==
  /\ At(t, "arm") /\ update_callback /\ armed' = TRUE
  /\ Proceed(t)
  /\ UNCHANGED <<mutex, reads, copy, fresh, current_data, update_callback, connected_count, works>>

\* main() passes its copy to ess_service_update() as the callback would.
Seed(t) ==
  /\ At(t, "seed")
  /\ Enter(t, "callback")
  /\ UNCHANGED <<mutex, cpu, job, todo, reads, copy, fresh, current_data, update_callback, armed,
                 connected_count, works>>

Schedule(t) ==
  /\ At(t, "schedule")
  /\ works' = IF Periodic THEN {"env_work", "aq_work"} ELSE works
  /\ Proceed(t)
  /\ UNCHANGED <<mutex, reads, copy, fresh, current_data, update_callback, armed, connected_count>>

\* A variant with a defect: the handler does not ask whether a client is left.
RearmAnyway(t) ==
  /\ At(t, "rearm")
  /\ works' = IF Periodic /\ armed THEN works \cup {job[t]} ELSE works
  /\ Proceed(t)
  /\ UNCHANGED <<mutex, reads, copy, fresh, current_data, update_callback, armed, connected_count>>

\* A variant with a defect: every handler arms the air quality item.
RearmAirQuality(t) ==
  /\ At(t, "rearm")
  /\ works' = IF Periodic /\ armed /\ connected_count > 0 THEN works \cup {"aq_work"} ELSE works
  /\ Proceed(t)
  /\ UNCHANGED <<mutex, reads, copy, fresh, current_data, update_callback, armed, connected_count>>

\* The end of a work handler.
Rearm(t) ==
  /\ At(t, "rearm")
  /\ works' = IF Periodic /\ armed /\ connected_count > 0 THEN works \cup {job[t]} ELSE works
  /\ Proceed(t)
  /\ UNCHANGED <<mutex, reads, copy, fresh, current_data, update_callback, armed, connected_count>>

\* The GATT read answers from its copy, or refuses.
Return(t) ==
  /\ At(t, "answer") \/ At(t, "refuse")
  /\ copy' = [copy EXCEPT ![t] = NoData]
  /\ Proceed(t)
  /\ UNCHANGED <<mutex, reads, fresh, current_data, update_callback, armed,
                 connected_count, works>>

-----------------------------------------------------------------------------
(* Jobs *)

Start(t, j) ==
  /\ cpu = NoThread /\ job[t] = "idle" /\ job[Main] = "idle"
  /\ cpu' = t
  /\ job' = [job EXCEPT ![t] = j]
  /\ todo' = [todo EXCEPT ![t] = Script[j]]
  /\ fresh' = IF t = Rx THEN {} ELSE fresh
  /\ UNCHANGED <<mutex, phase, reads, copy, current_data, update_callback, armed>>

\* The host serves one connection at a time.
OnConnected ==
  /\ armed /\ connected_count = 0
  /\ connected_count' = connected_count + 1
  /\ Start(Rx, "connect")
  /\ UNCHANGED works

\* A variant with a defect: a disconnect is counted without a tracked client.
OnDisconnectedUntracked ==
  /\ connected_count' = connected_count - 1
  /\ works' = IF Periodic THEN {} ELSE works
  /\ Start(Rx, "disconnect")

\* With one connection this client is always the last.
OnDisconnected ==
  /\ connected_count > 0
  /\ connected_count' = connected_count - 1
  /\ works' = IF Periodic THEN {} ELSE works
  /\ Start(Rx, "disconnect")

Read(c) ==
  /\ connected_count > 0
  /\ Start(Rx, c)
  /\ UNCHANGED <<connected_count, works>>

Work(w) ==
  /\ w \in works /\ works' = works \ {w}
  /\ Start(WorkQueue, w)
  /\ UNCHANGED connected_count

\* The steps that have nothing to do with the user of the data.
Internal(t) ==
  \/ Lock(t) \/ Locked(t) \/ GiveUp(t) \/ SensorRead(t)
  \/ DriverCall(t) \/ DriverReturns(t)
  \/ Register(t) \/ Arm(t) \/ Seed(t) \/ Schedule(t) \/ Rearm(t)

Step(t) == Internal(t) \/ CallbackReturns(t) \/ Return(t)

SmNext ==
  \/ \E t \in Threads : Step(t)
  \/ OnConnected \/ OnDisconnected
  \/ \E c \in Reads : Read(c)
  \/ \E w \in {"env_work", "aq_work"} : Work(w)

SmSpec == SmInit /\ [][SmNext]_smVars

\* Drivers answer, and a thread that can go on does so when the running one has
\* blocked often enough; the timers of scheduled work expire, and the
\* work queue takes items in the order they come in.
SmFairSpec ==
  /\ SmSpec
  /\ \A t \in Threads : SF_smVars(Step(t))
  /\ \A w \in {"env_work", "aq_work"} : SF_smVars(Work(w))

-----------------------------------------------------------------------------
(* Properties *)

SmTypeOK ==
  /\ mutex \in Threads \cup {NoThread} /\ cpu \in Threads \cup {NoThread}
  /\ job \in [Threads -> Jobs]
  /\ todo \in [Threads -> Seq(Calls)]
  /\ phase \in [Threads -> {"call", "lock", "read", "callback", "driver"}]
  /\ reads \in [Threads -> Seq(Sensors)]
  /\ copy \in [Threads -> SensorData]
  /\ fresh \in SUBSET Sensors
  /\ current_data \in SensorData
  /\ update_callback \in BOOLEAN /\ armed \in BOOLEAN
  /\ connected_count \in 0 .. 1
  /\ works \subseteq {"env_work", "aq_work"}

\* Sensors are read only under the mutex, and whoever holds it is reading or
\* about to: no thread takes the mutex into the update callback, into a call of
\* the CCS811 driver made on its own, or into idleness.
MutexDiscipline ==
  \A t \in Threads :
    /\ phase[t] = "read" => mutex = t
    /\ mutex = t => phase[t] \in {"read", "lock"}

\* The air quality bit vouches for both values: no order of full and of refused
\* readings leaves it set over a value that was not good, although an update
\* stores one value without the other and a BLE request writes without the mutex.
GasReadingsValid ==
  "air" \in current_data.valid_mask => Eco2Ok(current_data.eco2) /\ TvocOk(current_data.tvoc)

\* Timed sampling is scheduled only for a client, also when a handler was running
\* while its item was cancelled, and never dies under one: outside the connect
\* handler each work item is scheduled or being handled, whatever failed.
SamplingFollowsClient ==
  /\ works # {} => connected_count > 0
  /\ Periodic /\ connected_count > 0 /\ job[Rx] # "connect" =>
       \A w \in {"env_work", "aq_work"} : w \in works \/ job[WorkQueue] = w

\* sensor_manager_on_connected() reads the environment first so that the air
\* quality it reads next is compensated with temperature and humidity of this
\* connection: what is valid at that time has been read since the connect.
ConnectCompensationFresh ==
  phase[Rx] = "read" /\ job[Rx] = "connect" /\ Head(reads[Rx]) = "air"
    /\ "temphum" \in current_data.valid_mask => "temphum" \in fresh

\* A read of an environment characteristic is answered only with the sensor
\* read again since the request, also when a timer's sample has the mutex, and
\* never with what an earlier job left in the sensor manager.
ReadIsFresh ==
  cpu = Rx /\ phase[Rx] = "call" /\ todo[Rx] = <<"answer">>
    /\ job[Rx] \in {"temperature", "humidity", "pressure"} => Source[job[Rx]] \in fresh

\* A lasting client's environment is sampled again and again.
SamplingContinues ==
  connected_count > 0 ~> (connected_count = 0 \/ job[WorkQueue] = "env_work")
=============================================================================
