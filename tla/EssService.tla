----------------------------- MODULE EssService -----------------------------
(***************************************************************************)
(* app/src/ess_service.c on top of the sensor manager: the five            *)
(* characteristics, the updates that arrive through the callback, the      *)
(* reads that fetch on demand, and the client's subscriptions.             *)
(*                                                                         *)
(* An update goes through the characteristics in order.  A notification    *)
(* may wait for a buffer, so another thread may come in there, except on   *)
(* the system work queue, where the host does not wait.  The trigger of    *)
(* every characteristic is and stays VALUE_CHANGED.                        *)
(*                                                                         *)
(* Descriptors are constants and are left out.                             *)
(***************************************************************************)
EXTENDS SensorManager, EssEncode

CONSTANT Subscribable \* characteristics the client may subscribe to

ASSUME SubscribableAssumption == Subscribable \subseteq Reads

VARIABLES
  sensor,   \* the cached characteristics
  step,     \* how far each thread's update is
  ready,    \* what ccs811_driver_is_ready() answers
  announced \* the value of each characteristic that a subscribed client last saw,
            \* none if the host has refused to send one  (history)

essVars == <<sensor, step, ready, announced>>
vars == <<smVars, essVars>>

-----------------------------------------------------------------------------
Order == <<"temperature", "humidity", "pressure", "co2", "tvoc">>

InRange(c, data) ==
  CASE c = "temperature" -> TemperatureInRange(data.temperature)
    [] c = "humidity"    -> HumidityInRange(data.humidity)
    [] c = "pressure"    -> PressureInRange(data.pressure)
    [] c = "co2"         -> Co2InRange(data.eco2)
    [] c = "tvoc"        -> TvocInRange(data.tvoc)

Encoded(c, data) ==
  CASE c = "temperature" -> EncodeTemperature(data.temperature)
    [] c = "humidity"    -> EncodeHumidity(data.humidity)
    [] c = "pressure"    -> EncodePressure(data.pressure)
    [] c = "co2"         -> data.eco2
    [] c = "tvoc"        -> data.tvoc

IsValid(c, data) == Source[c] \in data.valid_mask

\* What update_sensor_i16() and update_sensor_u16() compare are 16-bit values.
Compared(c, value) == IF c = "pressure" THEN value ELSE AsInt16(value)

Unknown(value) == [value |-> value, value_known |-> FALSE, notify_enabled |-> FALSE]

EssInit ==
  /\ SmInit
  /\ sensor = [temperature |-> Unknown(ESS_UNKNOWN_S16), humidity |-> Unknown(ESS_UNKNOWN_U16),
               pressure |-> Unknown(0), co2 |-> Unknown(ESS_UNKNOWN_U16),
               tvoc |-> Unknown(ESS_UNKNOWN_U16)]
  /\ step = [t \in Threads |-> 1]
  /\ ready = FALSE
  /\ announced = [c \in Reads |-> {sensor[c].value}]

-----------------------------------------------------------------------------
(* Updates *)

Known(s, value) == [s EXCEPT !.value = value, !.value_known = TRUE]

\* invalidate_sensor()
Invalidated(s) == [s EXCEPT !.value_known = FALSE]

Updating(t, c) == cpu = t /\ phase[t] = "callback" /\ step[t] <= Len(Order) /\ Order[step[t]] = c

GoOn(t) == step' = [step EXCEPT ![t] = @ + 1]

\* The early return of ess_service_update() skips the characteristics that follow.
GoToEnd(t) == step' = [step EXCEPT ![t] = Len(Order) + 1]

\* A variant with a defect: the value is stored before it is compared.
UpdateSensorStoredFirst(t, c, value) ==
  /\ sensor' = [sensor EXCEPT ![c] = Known(@, value)]
  /\ UNCHANGED <<cpu, announced>>
  /\ GoOn(t)

\* update_sensor_i16(), _u16() and _u32(): a refused notification is only logged.
UpdateSensor(t, c, value) ==
  /\ sensor' = [sensor EXCEPT ![c] = Known(@, value)]
  /\ IF /\ sensor[c].notify_enabled
        /\ ShouldNotify("VALUE_CHANGED", Compared(c, sensor[c].value), Compared(c, value), 0)
       THEN /\ \E sent \in {{value}, {}} : announced' = [announced EXCEPT ![c] = sent]
            /\ cpu' = IF t = WorkQueue THEN t ELSE NoThread
       ELSE UNCHANGED <<cpu, announced>>
  /\ GoOn(t)

Invalidate(cs) ==
  /\ sensor' = [c \in Reads |-> IF c \in cs THEN Invalidated(sensor[c]) ELSE sensor[c]]
  /\ UNCHANGED <<cpu, announced>>

\* A variant with a defect: a bad sample leaves the value as it was.
UpdateEnvironmentKeeps(t, c) ==
  /\ Updating(t, c)
  /\ \/ ~IsValid(c, copy[t]) /\ Invalidate({}) /\ GoOn(t)
     \/ IsValid(c, copy[t]) /\ ~InRange(c, copy[t]) /\ Invalidate({c}) /\ GoToEnd(t)
     \/ IsValid(c, copy[t]) /\ InRange(c, copy[t]) /\ UpdateSensor(t, c, Encoded(c, copy[t]))
  /\ UNCHANGED ready

UpdateEnvironment(t, c) ==
  /\ Updating(t, c)
  /\ \/ ~IsValid(c, copy[t]) /\ Invalidate({c}) /\ GoOn(t)
     \/ IsValid(c, copy[t]) /\ ~InRange(c, copy[t]) /\ Invalidate({c}) /\ GoToEnd(t)
     \/ IsValid(c, copy[t]) /\ InRange(c, copy[t]) /\ UpdateSensor(t, c, Encoded(c, copy[t]))
  /\ UNCHANGED ready

\* A gas is asked for readiness twice, and conditioning may end in between.
UpdateGas(t, c, rejected) ==
  /\ Updating(t, c)
  /\ ready' \in {ready, TRUE}
  /\ IF IsValid(c, copy[t]) /\ ready
       THEN IF rejected
              THEN Invalidate({"co2", "tvoc"}) /\ GoToEnd(t)
              ELSE UpdateSensor(t, c, Encoded(c, copy[t]))
       ELSE IF ~ready'
              THEN UpdateSensor(t, c, ESS_UNKNOWN_U16)
              ELSE Invalidate({c}) /\ GoOn(t)

\* A variant with a defect: the service does not check its own range.
UpdateCo2Unchecked(t) == UpdateGas(t, "co2", FALSE)

UpdateCo2(t) ==
  UpdateGas(t, "co2", ~InRange("co2", copy[t]) \/ ~InRange("tvoc", copy[t]))

UpdateTvoc(t) == UpdateGas(t, "tvoc", FALSE)

Update(t) ==
  /\ \/ \E c \in {"temperature", "humidity", "pressure"} : UpdateEnvironment(t, c)
     \/ UpdateCo2(t)
     \/ UpdateTvoc(t)
  /\ UNCHANGED <<mutex, job, todo, phase, reads, copy, fresh, current_data, update_callback, armed,
                 connected_count, works>>

\* The notification is on its way and the update goes on.
Notified(t) ==
  /\ Wakes(t, "callback")
  /\ cpu' = t
  /\ UNCHANGED <<mutex, job, todo, phase, reads, copy, fresh, current_data, update_callback, armed,
                 connected_count, works, essVars>>

Updated(t) ==
  /\ step[t] > Len(Order)
  /\ CallbackReturns(t)
  /\ step' = [step EXCEPT ![t] = 1]
  /\ UNCHANGED <<sensor, ready, announced>>

-----------------------------------------------------------------------------
(* The client *)

\* A read of a gas needs the sensor; before it is ready, 0xFFFF is the answer.
ReadUnready(c) ==
  /\ c \in {"co2", "tvoc"} /\ ~ready
  /\ cpu = NoThread /\ job[Rx] = "idle" /\ connected_count > 0
  /\ sensor' = [sensor EXCEPT ![c] = Known(@, ESS_UNKNOWN_U16)]
  /\ announced' = IF sensor[c].notify_enabled
                    THEN [announced EXCEPT ![c] = {ESS_UNKNOWN_U16}] ELSE announced
  /\ UNCHANGED <<smVars, step, ready>>

\* A variant with a defect: a gas is read whether or not the sensor is ready.
StartReadAnyway(c) == Read(c) /\ UNCHANGED essVars

StartRead(c) ==
  /\ c \in {"co2", "tvoc"} => ready
  /\ Read(c)
  /\ UNCHANGED essVars

Refreshed(c, data) ==
  IF IsValid(c, data) /\ InRange(c, data)
    THEN Known(sensor[c], Encoded(c, data)) ELSE Invalidated(sensor[c])

\* read_u16() stores both values of the sensor, but stops at the first it has
\* to refuse; the others store the one that is read.
Stored(c, data) ==
  CASE c = "humidity" -> {"temperature", "humidity"}
    [] c = "temperature" /\ Refreshed("temperature", data).value_known
                      -> {"temperature", "humidity"}
    [] OTHER          -> {c}

Answer(t) ==
  /\ At(t, "answer")
  /\ LET c == job[t] IN
       /\ sensor' = [d \in Reads |->
            IF d \in Stored(c, copy[t]) THEN Refreshed(d, copy[t]) ELSE sensor[d]]
       /\ announced' = IF sensor[c].notify_enabled /\ sensor'[c].value_known
                         THEN [announced EXCEPT ![c] = {sensor'[c].value}] ELSE announced
  /\ Return(t)
  /\ UNCHANGED <<step, ready>>

Refuse(t) ==
  /\ At(t, "refuse")
  /\ sensor' = [sensor EXCEPT ![job[t]] = Invalidated(@)]
  /\ Return(t)
  /\ UNCHANGED <<step, ready, announced>>

\* The ..._ccc_cfg_changed() handlers.  A client that subscribes is told nothing yet.
CccCfgChanged(c, on) ==
  /\ cpu = NoThread /\ job[Rx] = "idle" /\ connected_count > 0
  /\ sensor' = [sensor EXCEPT ![c].notify_enabled = on]
  /\ announced' = [announced EXCEPT ![c] = {sensor[c].value}]
  /\ UNCHANGED <<smVars, step, ready>>

\* The host withdraws the subscriptions of a client that is not bonded.
ClientLeaves ==
  /\ OnDisconnected
  /\ sensor' = [c \in Reads |-> [sensor[c] EXCEPT !.notify_enabled = FALSE]]
  /\ UNCHANGED <<step, ready, announced>>

\* The conditioning time has passed.
BecomesReady ==
  /\ ~ready /\ ready' = TRUE
  /\ UNCHANGED <<smVars, sensor, step, announced>>

EssStep(t) ==
  \/ Internal(t) /\ UNCHANGED essVars
  \/ Update(t) \/ Notified(t) \/ Updated(t)
  \/ Answer(t) \/ Refuse(t)

EssNext ==
  \/ \E t \in Threads : EssStep(t)
  \/ OnConnected /\ UNCHANGED essVars
  \/ ClientLeaves \/ BecomesReady
  \/ \E c \in Reads : StartRead(c) \/ ReadUnready(c)
  \/ \E c \in Subscribable, on \in BOOLEAN : CccCfgChanged(c, on)
  \/ \E w \in {"env_work", "aq_work"} : Work(w) /\ UNCHANGED essVars

EssSpec == EssInit /\ [][EssNext]_vars

-----------------------------------------------------------------------------
(* Properties *)

\* What a characteristic may show; TVOC has the sensor manager's range.
Sendable(c, v) ==
  CASE c = "temperature" -> v \in ESS_TEMP_MIN_E_2C .. ESS_TEMP_MAX_E_2C \/ v = ESS_UNKNOWN_S16
    [] c = "humidity" -> v \in ESS_HUM_MIN_E_2PCT .. ESS_HUM_MAX_E_2PCT \/ v = ESS_UNKNOWN_U16
    [] c = "pressure" -> v \in ESS_PRESS_MIN_DPA .. ESS_PRESS_MAX_DPA \/ v = 0
    [] c = "co2"      -> Co2InRange(v) \/ v = ESS_UNKNOWN_U16
    [] c = "tvoc"     -> TvocOk(v) \/ v = ESS_UNKNOWN_U16

EssTypeOK ==
  /\ SmTypeOK
  /\ \A c \in Reads : /\ DOMAIN sensor[c] = {"value", "value_known", "notify_enabled"}
                      /\ Sendable(c, sensor[c].value)
  /\ step \in [Threads -> 1 .. Len(Order) + 1]
  /\ ready \in BOOLEAN

Quiet == \A t \in Threads : job[t] = "idle"

\* ess_service_update() "updates all Environmental Sensing Service
\* characteristics with the provided sensor data" (ess_service.h), and the
\* sensor manager passes every new sample to it: when nothing is going on, an
\* environment characteristic shows the last sample, or that it was not good.
EssCurrent ==
  Quiet => \A c \in {"temperature", "humidity", "pressure"} :
    sensor[c] = Refreshed(c, current_data)

\* No change stays unannounced unless the host refuses it: when nothing is
\* going on, the value of a characteristic the client is subscribed to is the
\* one it had at the subscription, or was read or handed to bt_gatt_notify()
\* since.
NoChangeUnannounced ==
  Quiet => \A c \in Reads :
    sensor[c].notify_enabled /\ sensor[c].value_known => announced[c] \subseteq {sensor[c].value}

\* Conditioning may end at any point of an update or a read: a gas value is
\* never a known real one while the sensor is not ready.
NoGasBeforeReady ==
  ~ready => \A c \in {"co2", "tvoc"} :
    sensor[c].value_known => sensor[c].value = ESS_UNKNOWN_U16
=============================================================================
