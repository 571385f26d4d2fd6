------------------------------- MODULE EssProofs -------------------------------
(***************************************************************************)
(* The range of the characteristics' values and the rule about gas values  *)
(* before the sensor is ready, for any readings, failing sensors,          *)
(* subscriptions and both builds.                                          *)
(*                                                                         *)
(* The service runs inside the sensor manager's steps, so its invariants   *)
(* rest on the sensor manager's (SensorManagerProofs): a copy is a copy of *)
(* data whose air quality bit vouches for both gases (CopyInv), and a gas  *)
(* is read only from a ready sensor (GasInv).                              *)
(*                                                                         *)
(* The limits stay names: no proof but that of LimitsInt needs their       *)
(* values.                                                                 *)
(***************************************************************************)
EXTENDS EssService, SensorManagerProofs

-----------------------------------------------------------------------------
(* Values *)

\* The air quality bit vouches for both gases.
GasesOk(data) == "air" \in data.valid_mask => Eco2Ok(data.eco2) /\ TvocOk(data.tvoc)

\* Lemma: the limits and the values for "not known" are integers, in order.
LEMMA LimitsInt ==
  /\ ESS_TEMP_MIN_E_2C \in Int /\ ESS_TEMP_MAX_E_2C \in Int
  /\ ESS_TEMP_MIN_E_2C <= ESS_TEMP_MAX_E_2C
  /\ ESS_HUM_MIN_E_2PCT \in Int /\ ESS_HUM_MAX_E_2PCT \in Int
  /\ ESS_HUM_MIN_E_2PCT <= ESS_HUM_MAX_E_2PCT
  /\ ESS_PRESS_MIN_DPA \in Int /\ ESS_PRESS_MAX_DPA \in Int
  /\ ESS_PRESS_MIN_DPA <= ESS_PRESS_MAX_DPA
  /\ ESS_UNKNOWN_S16 \in Int /\ ESS_UNKNOWN_U16 \in Int
BY SMT
DEF ESS_TEMP_MIN_E_2C, ESS_TEMP_MAX_E_2C, ESS_HUM_MIN_E_2PCT, ESS_HUM_MAX_E_2PCT,
    ESS_PRESS_MIN_DPA, ESS_PRESS_MAX_DPA, ESS_UNKNOWN_S16, ESS_UNKNOWN_U16

\* Lemma: clamping puts a value between its limits (ess_encode.c).
LEMMA ClampedRange ==
  ASSUME NEW x \in Int, NEW low \in Int, NEW high \in Int, low <= high
  PROVE  Clamped(x, low, high) \in low .. high
BY DEF Clamped

\* Lemma: truncation yields an integer.
LEMMA TruncatedInt == ASSUME NEW x \in Int PROVE Truncated(x) \in Int
BY DEF Truncated, Finer

\* Lemma: the cases of the encoder and of the ranges, one by one.
LEMMA EncodedCases ==
  ASSUME NEW data
  PROVE  /\ Encoded("temperature", data) = EncodeTemperature(data.temperature)
         /\ Encoded("humidity", data) = EncodeHumidity(data.humidity)
         /\ Encoded("pressure", data) = EncodePressure(data.pressure)
         /\ Encoded("co2", data) = data.eco2
         /\ Encoded("tvoc", data) = data.tvoc
         /\ InRange("co2", data) = Co2InRange(data.eco2)
         /\ \A c \in {"co2", "tvoc"} : IsValid(c, data) => "air" \in data.valid_mask
BY DEF Encoded, InRange, IsValid, Source

\* Lemma: so do those of what may be sent.
LEMMA SendableCases ==
  ASSUME NEW v
  PROVE  /\ v \in ESS_TEMP_MIN_E_2C .. ESS_TEMP_MAX_E_2C => Sendable("temperature", v)
         /\ v \in ESS_HUM_MIN_E_2PCT .. ESS_HUM_MAX_E_2PCT => Sendable("humidity", v)
         /\ v \in ESS_PRESS_MIN_DPA .. ESS_PRESS_MAX_DPA \/ v = 0 => Sendable("pressure", v)
         /\ Co2InRange(v) => Sendable("co2", v)
         /\ TvocOk(v) => Sendable("tvoc", v)
         /\ v = ESS_UNKNOWN_S16 => Sendable("temperature", v)
         /\ v = ESS_UNKNOWN_U16 => \A c \in {"humidity", "co2", "tvoc"} : Sendable(c, v)
BY DEF Sendable

\* Lemma: the encoders keep to the range of their characteristic; TVOC has the
\* sensor manager's range.
LEMMA EncodedOk ==
  ASSUME NEW data \in SensorData, GasesOk(data), NEW c \in Reads, IsValid(c, data),
         c = "co2" => InRange(c, data)
  PROVE  Encoded(c, data) \in Int /\ Sendable(c, Encoded(c, data))
<1>t. /\ data.temperature \in Int /\ data.humidity \in Int /\ data.pressure \in Int
      /\ data.eco2 \in Nat /\ data.tvoc \in Nat
  BY DEF SensorData
<1>1. CASE c = "temperature"
  <2>1. Truncated(data.temperature) \in Int BY <1>t, TruncatedInt
  <2>2. EncodeTemperature(data.temperature) \in ESS_TEMP_MIN_E_2C .. ESS_TEMP_MAX_E_2C
    BY <2>1, ClampedRange, LimitsInt DEF EncodeTemperature
  <2>3. EncodeTemperature(data.temperature) \in Int BY <2>2, LimitsInt
  <2> QED BY <1>1, <2>2, <2>3, EncodedCases, SendableCases
<1>2. CASE c = "humidity"
  <2>1. Truncated(data.humidity) \in Int BY <1>t, TruncatedInt
  <2>2. EncodeHumidity(data.humidity) \in ESS_HUM_MIN_E_2PCT .. ESS_HUM_MAX_E_2PCT
    BY <2>1, ClampedRange, LimitsInt DEF EncodeHumidity
  <2>3. EncodeHumidity(data.humidity) \in Int BY <2>2, LimitsInt
  <2> QED BY <1>2, <2>2, <2>3, EncodedCases, SendableCases
<1>3. CASE c = "pressure"
  <2>1. Truncated(data.pressure) \in Int BY <1>t, TruncatedInt
  <2>2. EncodePressure(data.pressure) \in ESS_PRESS_MIN_DPA .. ESS_PRESS_MAX_DPA
    BY <2>1, ClampedRange, LimitsInt DEF EncodePressure
  <2>3. EncodePressure(data.pressure) \in Int BY <2>2, LimitsInt
  <2> QED BY <1>3, <2>2, <2>3, EncodedCases, SendableCases
<1>4. CASE c = "co2"
  <2>1. Co2InRange(data.eco2) BY <1>4, EncodedCases
  <2> QED BY <1>t, <1>4, <2>1, EncodedCases, SendableCases
<1>5. CASE c = "tvoc"
  <2>1. TvocOk(data.tvoc) BY <1>5, EncodedCases DEF GasesOk
  <2> QED BY <1>t, <1>5, <2>1, EncodedCases, SendableCases
<1> QED BY <1>1, <1>2, <1>3, <1>4, <1>5 DEF Reads

-----------------------------------------------------------------------------
(* The invariant *)

Characteristic == [value : Int, value_known : BOOLEAN, notify_enabled : BOOLEAN]

SensorOk ==
  /\ sensor \in [Reads -> Characteristic]
  /\ \A c \in Reads : Sendable(c, sensor[c].value)

StepOk == step \in [Threads -> 1 .. Len(Order) + 1]

CopyInv == \A t \in Threads : GasesOk(copy[t])

GasInv ==
  /\ ready \in BOOLEAN
  /\ \A t \in Threads : job[t] \in {"co2", "tvoc"} => ready
  /\ NoGasBeforeReady

ManagerInv == TypeInv /\ GasReadingsValid /\ CopyInv
EssInv == ManagerInv /\ SensorOk /\ StepOk /\ GasInv

\* Lemma: storing a value changes nothing else.
LEMMA KnownUpdates ==
  ASSUME NEW s \in Characteristic, NEW v \in Int
  PROVE  Known(s, v) \in Characteristic /\ Known(s, v).value = v
BY DEF Characteristic, Known

\* Lemma: nor does invalidating it, which leaves the value itself as it was.
LEMMA InvalidatedUpdates ==
  ASSUME NEW s \in Characteristic
  PROVE  /\ Invalidated(s) \in Characteristic /\ Invalidated(s).value = s.value
         /\ Invalidated(s).value_known = FALSE
BY DEF Characteristic, Invalidated

\* Lemma: whatever a thread copies is good.
LEMMA CopyStep ==
  ASSUME ManagerInv, NEW t \in Threads, Step(t) PROVE ManagerInv'
<1>s. [SmNext]_smVars BY DEF SmNext
<1>1. TypeInv' BY <1>s, TypeStep DEF ManagerInv
<1>2. GasReadingsValid' BY <1>s, GasStep DEF ManagerInv
<1>3. copy \in [Threads -> SensorData] BY DEF ManagerInv, TypeInv, ControlInv, ControlType
<1>4. GasesOk(NoData) BY DEF GasesOk, NoData
<1>5. GasesOk(current_data) /\ GasesOk(current_data')
  BY <1>2 DEF ManagerInv, GasReadingsValid, GasesOk
<1>6. \/ UNCHANGED copy
      \/ copy' = [copy EXCEPT ![t] = NoData]
      \/ copy' = [copy EXCEPT ![t] = current_data]
      \/ copy' = [copy EXCEPT ![t] = current_data']
  <2>1. ASSUME Enters(t) PROVE UNCHANGED copy \/ copy' = [copy EXCEPT ![t] = current_data]
    BY <2>1 DEF Enters
  <2>2. CASE Lock(t) BY <2>1, <2>2 DEF Lock
  <2>3. CASE Locked(t) BY <2>1, <2>3 DEF Locked
  <2>4. CASE SensorRead(t) BY <2>4 DEF SensorRead
  <2>5. CASE GiveUp(t) BY <2>5 DEF GiveUp
  <2>6. CASE DriverCall(t) \/ DriverReturns(t) BY <2>6 DEF DriverCall, DriverReturns
  <2>7. CASE Register(t) \/ Arm(t) \/ Seed(t) \/ Schedule(t) \/ Rearm(t)
    BY <2>7 DEF Register, Arm, Seed, Schedule, Rearm
  <2>8. CASE CallbackReturns(t) \/ Return(t) BY <2>8 DEF CallbackReturns, Return
  <2> QED BY <2>2, <2>3, <2>4, <2>5, <2>6, <2>7, <2>8 DEF Step, Internal
<1>7. CopyInv' BY <1>3, <1>4, <1>5, <1>6 DEF ManagerInv, CopyInv
<1> QED BY <1>1, <1>2, <1>7 DEF ManagerInv

\* Lemma: what a read stores is good.
LEMMA RefreshedOk ==
  ASSUME SensorOk, NEW data \in SensorData, GasesOk(data), NEW c \in Reads
  PROVE  /\ Refreshed(c, data) \in Characteristic
         /\ Sendable(c, Refreshed(c, data).value)
<1>1. sensor[c] \in Characteristic /\ Sendable(c, sensor[c].value) BY DEF SensorOk
<1>2. CASE IsValid(c, data) /\ InRange(c, data)
  <2>1. Refreshed(c, data) = Known(sensor[c], Encoded(c, data)) BY <1>2 DEF Refreshed
  <2>2. Encoded(c, data) \in Int /\ Sendable(c, Encoded(c, data)) BY <1>2, EncodedOk
  <2> QED BY <1>1, <2>1, <2>2, KnownUpdates
<1>3. CASE ~(IsValid(c, data) /\ InRange(c, data))
  <2>1. Refreshed(c, data) = Invalidated(sensor[c]) BY <1>3 DEF Refreshed
  <2> QED BY <1>1, <2>1, InvalidatedUpdates
<1> QED BY <1>2, <1>3

\* Lemma: a read of one characteristic stores a gas only if it reads that gas.
LEMMA StoredOnes ==
  ASSUME NEW c, NEW data PROVE Stored(c, data) \subseteq {"temperature", "humidity", c}
<1>1. CASE c = "humidity" BY <1>1 DEF Stored
<1>2. CASE c # "humidity" /\ c = "temperature" /\ Refreshed("temperature", data).value_known
  BY <1>2 DEF Stored
<1>3. CASE ~(c = "humidity") /\ ~(c = "temperature" /\ Refreshed("temperature", data).value_known)
  BY <1>3 DEF Stored
<1> QED BY <1>1, <1>2, <1>3

\* Lemma: at boot nothing is known.
LEMMA EssStart == EssInit => EssInv
<1> SUFFICES ASSUME EssInit PROVE EssInv OBVIOUS
<1>1. ManagerInv
  <2>1. SmInit BY DEF EssInit
  <2>2. TypeInv BY <2>1, TypeInit
  <2>3. "air" \notin current_data.valid_mask BY <2>1 DEF SmInit, NoData
  <2>4. GasReadingsValid BY <2>3 DEF GasReadingsValid
  <2>5. \A t \in Threads : copy[t] = NoData BY <2>1 DEF SmInit
  <2>6. GasesOk(NoData) BY DEF GasesOk, NoData
  <2>7. CopyInv BY <2>5, <2>6 DEF CopyInv
  <2> QED BY <2>2, <2>4, <2>7 DEF ManagerInv
<1>2. \A v \in Int : Unknown(v) \in Characteristic /\ Unknown(v).value = v
                   /\ Unknown(v).value_known = FALSE
  BY DEF Unknown, Characteristic
<1>3. /\ sensor.temperature = Unknown(ESS_UNKNOWN_S16) /\ sensor.humidity = Unknown(ESS_UNKNOWN_U16)
      /\ sensor.pressure = Unknown(0) /\ sensor.co2 = Unknown(ESS_UNKNOWN_U16)
      /\ sensor.tvoc = Unknown(ESS_UNKNOWN_U16)
  BY DEF EssInit
<1>4. sensor = [c \in Reads |-> sensor[c]] BY DEF EssInit, Reads
<1>5. \A c \in Reads : sensor[c] \in Characteristic /\ Sendable(c, sensor[c].value)
  BY <1>2, <1>3, LimitsInt, SendableCases DEF Reads
<1>6. SensorOk BY <1>4, <1>5 DEF SensorOk
<1>7. StepOk
  <2>1. Len(Order) = 5 BY DEF Order
  <2> QED BY <2>1 DEF EssInit, StepOk
<1>8. GasInv
  <2>1. ready = FALSE BY DEF EssInit
  <2>2. \A t \in Threads : job[t] \in {"boot", "idle"} BY DEF EssInit, SmInit
  <2>3. \A c \in {"co2", "tvoc"} : ~sensor[c].value_known BY <1>2, <1>3, LimitsInt
  <2> QED BY <2>1, <2>2, <2>3 DEF GasInv, NoGasBeforeReady
<1> QED BY <1>1, <1>6, <1>7, <1>8 DEF EssInv

-----------------------------------------------------------------------------
(* The steps *)

\* Lemma: an update stores what may be sent, and while the sensor is not ready
\* no gas value.
LEMMA UpdateStores ==
  ASSUME EssInv, NEW t \in Threads, Update(t)
  PROVE  /\ SensorOk' /\ StepOk' /\ NoGasBeforeReady'
         /\ ready' \in BOOLEAN /\ (ready => ready')
         /\ cpu' \in {NoThread, t, cpu}
<1>s. /\ sensor \in [Reads -> Characteristic] /\ \A c \in Reads : Sendable(c, sensor[c].value)
      /\ ready \in BOOLEAN /\ NoGasBeforeReady
      /\ copy[t] \in SensorData /\ GasesOk(copy[t])
  BY DEF EssInv, SensorOk, GasInv, ManagerInv, CopyInv, TypeInv, ControlInv, ControlType
<1>n. Len(Order) = 5 BY DEF Order
<1> DEFINE Stores(c, v) == sensor' = [sensor EXCEPT ![c] = Known(sensor[c], v)]
           Invalidates(cs) == sensor' =
             [c \in Reads |-> IF c \in cs THEN Invalidated(sensor[c]) ELSE sensor[c]]
<1>1. ASSUME NEW c \in Reads, NEW v, UpdateSensor(t, c, v)
      PROVE  Stores(c, v) /\ cpu' \in {NoThread, t, cpu} /\ GoOn(t)
  BY <1>1 DEF UpdateSensor
<1>2. ASSUME NEW cs, Invalidate(cs) PROVE Invalidates(cs) /\ cpu' = cpu
  BY <1>2 DEF Invalidate
<1>3. ASSUME NEW c \in Reads, NEW v \in Int, Sendable(c, v), Stores(c, v)
      PROVE  SensorOk' /\ sensor'[c].value = v /\ \A d \in Reads \ {c} : sensor'[d] = sensor[d]
  <2>1. Known(sensor[c], v) \in Characteristic /\ Known(sensor[c], v).value = v
    BY <1>s, <1>3, KnownUpdates
  <2>2. sensor' \in [Reads -> Characteristic] /\ sensor'[c] = Known(sensor[c], v)
        /\ \A d \in Reads \ {c} : sensor'[d] = sensor[d]
    BY <1>s, <1>3, <2>1
  <2> QED BY <1>s, <1>3, <2>1, <2>2 DEF SensorOk
<1>4. ASSUME NEW cs, Invalidates(cs)
      PROVE  SensorOk' /\ \A d \in Reads : \/ sensor'[d] = sensor[d]
                                        \/ ~sensor'[d].value_known
  <2>1. \A d \in Reads : sensor'[d] = IF d \in cs THEN Invalidated(sensor[d]) ELSE sensor[d]
    BY <1>4
  <2>2. \A d \in Reads : /\ Invalidated(sensor[d]) \in Characteristic
                         /\ Invalidated(sensor[d]).value = sensor[d].value
                         /\ Invalidated(sensor[d]).value_known = FALSE
    BY <1>s, InvalidatedUpdates
  <2>3. sensor' = [d \in Reads |-> sensor'[d]] BY <1>4
  <2>4. \A d \in Reads : sensor'[d] \in Characteristic /\ Sendable(d, sensor'[d].value)
    BY <1>s, <2>1, <2>2
  <2>5. SensorOk' BY <2>3, <2>4 DEF SensorOk
  <2> QED BY <2>1, <2>2, <2>5
<1>5. ASSUME step[t] <= Len(Order), GoOn(t) \/ GoToEnd(t) PROVE StepOk'
  <2>1. step \in [Threads -> 1 .. 6] BY <1>n DEF EssInv, StepOk
  <2>2. step[t] \in 1 .. 5 BY <1>5, <1>n, <2>1
  <2>3. CASE GoOn(t)
    <3>1. step' = [step EXCEPT ![t] = step[t] + 1] /\ step[t] + 1 \in 1 .. 6
      BY <2>2, <2>3 DEF GoOn
    <3> QED BY <1>n, <2>1, <3>1 DEF StepOk
  <2>4. CASE GoToEnd(t)
    <3>1. step' = [step EXCEPT ![t] = 6] BY <1>n, <2>4 DEF GoToEnd
    <3> QED BY <1>n, <2>1, <3>1 DEF StepOk
  <2> QED BY <1>5, <2>3, <2>4
<1> HIDE DEF Stores, Invalidates
<1>6. ASSUME NEW c \in {"temperature", "humidity", "pressure"}, UpdateEnvironment(t, c)
      PROVE  SensorOk' /\ StepOk' /\ cpu' \in {NoThread, t, cpu} /\ ready' = ready
             /\ NoGasBeforeReady'
  <2>0. c \in Reads /\ step[t] <= Len(Order) /\ ready' = ready
    BY <1>6 DEF UpdateEnvironment, Updating, Reads
  <2>1. CASE Invalidate({c}) /\ (GoOn(t) \/ GoToEnd(t))
    <3>1. \A d \in {"co2", "tvoc"} : sensor'[d] = sensor[d] \/ ~sensor'[d].value_known
      BY <1>2, <1>4, <2>1 DEF Reads
    <3>2. NoGasBeforeReady' BY <1>s, <2>0, <3>1 DEF NoGasBeforeReady
    <3> QED BY <1>2, <1>4, <1>5, <2>0, <2>1, <3>2
  <2>2. CASE IsValid(c, copy[t]) /\ UpdateSensor(t, c, Encoded(c, copy[t]))
    <3>1. Encoded(c, copy[t]) \in Int /\ Sendable(c, Encoded(c, copy[t]))
      BY <1>s, <2>0, <2>2, EncodedOk
    <3>2. \A d \in Reads \ {c} : sensor'[d] = sensor[d] BY <1>1, <1>3, <2>0, <2>2, <3>1
    <3>3. \A d \in {"co2", "tvoc"} : sensor'[d] = sensor[d] BY <3>2 DEF Reads
    <3>4. NoGasBeforeReady' BY <1>s, <2>0, <3>3 DEF NoGasBeforeReady
    <3> QED BY <1>1, <1>3, <1>5, <2>0, <2>2, <3>1, <3>4
  <2> QED BY <1>6, <2>1, <2>2 DEF UpdateEnvironment
<1>7. ASSUME NEW c \in {"co2", "tvoc"}, NEW rejected, UpdateGas(t, c, rejected),
             c = "co2" => rejected \/ InRange(c, copy[t])
      PROVE  SensorOk' /\ StepOk' /\ cpu' \in {NoThread, t, cpu} /\ ready' \in {ready, TRUE}
             /\ NoGasBeforeReady'
  <2>0. c \in Reads /\ step[t] <= Len(Order) /\ ready' \in {ready, TRUE}
    BY <1>7 DEF UpdateGas, Updating, Reads
  <2>g. ~ready' => \A d \in {"co2", "tvoc"} : sensor[d].value_known => sensor[d].value = ESS_UNKNOWN_U16
    <3>1. CASE ready = TRUE BY <2>0, <3>1
    <3>2. CASE ready = FALSE BY <1>s, <3>2 DEF NoGasBeforeReady
    <3> QED BY <1>s, <3>1, <3>2
  <2>1. CASE \E cs : Invalidate(cs) /\ (GoOn(t) \/ GoToEnd(t))
    <3>1. \A d \in {"co2", "tvoc"} : sensor'[d] = sensor[d] \/ ~sensor'[d].value_known
      BY <1>2, <1>4, <2>1 DEF Reads
    <3>2. NoGasBeforeReady' BY <2>g, <3>1 DEF NoGasBeforeReady
    <3> QED BY <1>2, <1>4, <1>5, <2>0, <2>1, <3>2
  <2>2. CASE IsValid(c, copy[t]) /\ ready /\ ~rejected /\ UpdateSensor(t, c, Encoded(c, copy[t]))
    <3>1. Encoded(c, copy[t]) \in Int /\ Sendable(c, Encoded(c, copy[t]))
      BY <1>s, <1>7, <2>0, <2>2, EncodedOk
    <3>2. NoGasBeforeReady' BY <2>0, <2>2 DEF NoGasBeforeReady
    <3> QED BY <1>1, <1>3, <1>5, <2>0, <2>2, <3>1, <3>2
  <2>3. CASE UpdateSensor(t, c, ESS_UNKNOWN_U16)
    <3>1. ESS_UNKNOWN_U16 \in Int /\ Sendable(c, ESS_UNKNOWN_U16)
      BY LimitsInt, SendableCases
    <3>2. sensor'[c].value = ESS_UNKNOWN_U16 /\ \A d \in Reads \ {c} : sensor'[d] = sensor[d]
      BY <1>1, <1>3, <2>0, <2>3, <3>1
    <3>3. \A d \in {"co2", "tvoc"} : sensor'[d].value = ESS_UNKNOWN_U16 \/ sensor'[d] = sensor[d]
      BY <3>2 DEF Reads
    <3>4. NoGasBeforeReady' BY <2>g, <3>3 DEF NoGasBeforeReady
    <3> QED BY <1>1, <1>3, <1>5, <2>0, <2>3, <3>1, <3>4
  <2> QED BY <1>7, <2>1, <2>2, <2>3 DEF UpdateGas
<1>8. CASE \E c \in {"temperature", "humidity", "pressure"} : UpdateEnvironment(t, c)
  BY <1>s, <1>6, <1>8
<1>9. CASE UpdateCo2(t) BY <1>s, <1>7, <1>9 DEF UpdateCo2
<1>10. CASE UpdateTvoc(t) BY <1>s, <1>7, <1>10 DEF UpdateTvoc
<1> QED BY <1>8, <1>9, <1>10 DEF Update

\* Lemma: an update of the service keeps its invariant.
LEMMA UpdateKeeps == ASSUME EssInv, NEW t \in Threads, Update(t) PROVE EssInv'
<1>1. /\ SensorOk' /\ StepOk' /\ NoGasBeforeReady'
      /\ ready' \in BOOLEAN /\ (ready => ready') /\ cpu' \in {NoThread, t, cpu}
  BY UpdateStores
<1>2. UNCHANGED <<mutex, job, todo, phase, reads, copy, fresh, current_data, update_callback, armed,
                  connected_count, works>>
  BY DEF Update
<1>3. ManagerInv'
  <2>1. cpu' \in Threads \cup {NoThread}
    BY <1>1 DEF EssInv, ManagerInv, TypeInv, ControlInv, ControlType
  <2>2. ControlType' BY <1>2, <2>1 DEF EssInv, ManagerInv, TypeInv, ControlInv, ControlType
  <2>3. CallInv' BY <1>2 DEF EssInv, ManagerInv, TypeInv, ControlInv, CallInv
  <2>4. JobInv' BY <1>2 DEF EssInv, ManagerInv, TypeInv, ControlInv, JobInv
  <2>5. MutexDiscipline' BY <1>2 DEF EssInv, ManagerInv, TypeInv, ControlInv, MutexDiscipline
  <2>6. DataType' BY <1>2 DEF EssInv, ManagerInv, TypeInv, DataType
  <2>7. GasReadingsValid' BY <1>2 DEF EssInv, ManagerInv, GasReadingsValid
  <2>8. CopyInv' BY <1>2 DEF EssInv, ManagerInv, CopyInv
  <2> QED BY <2>2, <2>3, <2>4, <2>5, <2>6, <2>7, <2>8 DEF ManagerInv, TypeInv, ControlInv
<1>4. GasInv' BY <1>1, <1>2 DEF EssInv, GasInv
<1> QED BY <1>1, <1>3, <1>4 DEF EssInv

\* Lemma: a step of the sensor manager that leaves the characteristics alone
\* starts no read of a gas.
LEMMA StepGas ==
  ASSUME EssInv, NEW t \in Threads, Step(t), UNCHANGED ready
  PROVE  \A u \in Threads : job'[u] \in {"co2", "tvoc"} => ready'
<1>1. TypeInv /\ \A u \in Threads : job[u] \in {"co2", "tvoc"} => ready
  BY DEF EssInv, ManagerInv, GasInv
<1>2. job'[t] \in {job[t], "idle"} BY <1>1, StepJob
<1>3. \A u \in Threads \ {t} : job'[u] = job[u] BY <1>1, StepTouches
<1> QED BY <1>1, <1>2, <1>3

\* Lemma: a read of the client is answered with what may be sent, or refused.
LEMMA ReadKeeps ==
  ASSUME EssInv, NEW t \in Threads, Answer(t) \/ Refuse(t) PROVE EssInv'
<1>s. /\ sensor \in [Reads -> Characteristic] /\ \A c \in Reads : Sendable(c, sensor[c].value)
      /\ SensorOk /\ NoGasBeforeReady /\ ready \in BOOLEAN
      /\ copy[t] \in SensorData /\ GasesOk(copy[t]) /\ (job[t] \in {"co2", "tvoc"} => ready)
  BY DEF EssInv, SensorOk, GasInv, ManagerInv, CopyInv, TypeInv, ControlInv, ControlType
<1>1. Step(t) /\ UNCHANGED <<step, ready>> BY DEF Answer, Refuse, Step
<1>2. ManagerInv' BY <1>1, CopyStep DEF EssInv
<1>3. StepOk' BY <1>1 DEF EssInv, StepOk
<1>4. \A u \in Threads : job'[u] \in {"co2", "tvoc"} => ready' BY <1>1, StepGas
<1>5. SensorOk' /\ NoGasBeforeReady'
  <2>1. CASE Answer(t)
    <3>1. sensor' = [d \in Reads |->
            IF d \in Stored(job[t], copy[t]) THEN Refreshed(d, copy[t]) ELSE sensor[d]]
      BY <2>1 DEF Answer
    <3>2. \A d \in Reads : /\ Refreshed(d, copy[t]) \in Characteristic
                           /\ Sendable(d, Refreshed(d, copy[t]).value)
      BY <1>s, RefreshedOk
    <3>3. \A d \in Reads : sensor'[d] \in Characteristic /\ Sendable(d, sensor'[d].value)
      BY <1>s, <3>1, <3>2
    <3>4. SensorOk' BY <3>1, <3>3 DEF SensorOk
    <3>5. CASE ready BY <1>1, <3>4, <3>5 DEF NoGasBeforeReady
    <3>6. CASE ~ready
      <4>1. Stored(job[t], copy[t]) \subseteq {"temperature", "humidity", job[t]} BY StoredOnes
      <4>2. \A d \in {"co2", "tvoc"} : d \notin Stored(job[t], copy[t]) BY <1>s, <3>6, <4>1
      <4>3. \A d \in {"co2", "tvoc"} : sensor'[d] = sensor[d] BY <3>1, <4>2 DEF Reads
      <4> QED BY <1>s, <1>1, <3>4, <4>3 DEF NoGasBeforeReady
    <3> QED BY <3>5, <3>6
  <2>2. CASE Refuse(t)
    <3>1. sensor' = [sensor EXCEPT ![job[t]] = Invalidated(sensor[job[t]])] BY <2>2 DEF Refuse
    <3>2. \A d \in Reads : /\ Invalidated(sensor[d]) \in Characteristic
                           /\ Invalidated(sensor[d]).value = sensor[d].value
                           /\ Invalidated(sensor[d]).value_known = FALSE
      BY <1>s, InvalidatedUpdates
    <3>3. \A d \in Reads : sensor'[d] = sensor[d] \/ sensor'[d] = Invalidated(sensor[d])
      BY <1>s, <3>1
    <3>4. sensor' = [d \in Reads |-> sensor'[d]] BY <1>s, <3>1
    <3>5. \A d \in Reads : sensor'[d] \in Characteristic /\ Sendable(d, sensor'[d].value)
      BY <1>s, <3>2, <3>3
    <3>6. SensorOk' BY <3>4, <3>5 DEF SensorOk
    <3>7. \A d \in {"co2", "tvoc"} : sensor'[d] = sensor[d] \/ ~sensor'[d].value_known
      BY <3>2, <3>3 DEF Reads
    <3> QED BY <1>s, <1>1, <3>6, <3>7 DEF NoGasBeforeReady
  <2> QED BY <2>1, <2>2
<1>6. GasInv' BY <1>s, <1>1, <1>4, <1>5 DEF GasInv
<1> QED BY <1>2, <1>3, <1>5, <1>6 DEF EssInv

\* Lemma: the other steps of a thread leave the characteristics alone.
LEMMA OtherSteps ==
  ASSUME EssInv, NEW t \in Threads,
         (Internal(t) /\ UNCHANGED essVars) \/ Notified(t) \/ Updated(t)
  PROVE  EssInv'
<1>1. CASE Notified(t)
  <2>1. cpu' = t /\ UNCHANGED <<mutex, job, todo, phase, reads, copy, fresh, current_data,
                     update_callback, armed, connected_count, works, sensor, step, ready>>
    BY <1>1 DEF Notified, essVars
  <2>2. ControlType' BY <2>1 DEF EssInv, ManagerInv, TypeInv, ControlInv, ControlType
  <2>3. CallInv' BY <2>1 DEF EssInv, ManagerInv, TypeInv, ControlInv, CallInv
  <2>4. JobInv' BY <2>1 DEF EssInv, ManagerInv, TypeInv, ControlInv, JobInv
  <2>5. MutexDiscipline' BY <2>1 DEF EssInv, ManagerInv, TypeInv, ControlInv, MutexDiscipline
  <2>6. DataType' BY <2>1 DEF EssInv, ManagerInv, TypeInv, DataType
  <2>7. GasReadingsValid' /\ CopyInv' BY <2>1 DEF EssInv, ManagerInv, GasReadingsValid, CopyInv
  <2>8. SensorOk' /\ StepOk' BY <2>1 DEF EssInv, SensorOk, StepOk
  <2>9. GasInv' BY <2>1 DEF EssInv, GasInv, NoGasBeforeReady
  <2> QED BY <2>2, <2>3, <2>4, <2>5, <2>6, <2>7, <2>8, <2>9
          DEF EssInv, ManagerInv, TypeInv, ControlInv
<1>2. CASE (Internal(t) /\ UNCHANGED essVars) \/ Updated(t)
  <2>1. Step(t) /\ UNCHANGED <<sensor, ready>> BY <1>2 DEF Updated, Step, essVars
  <2>2. ManagerInv' BY <2>1, CopyStep DEF EssInv
  <2>3. SensorOk' BY <2>1 DEF EssInv, SensorOk
  <2>4. StepOk'
    <3>1. CASE UNCHANGED step BY <3>1 DEF EssInv, StepOk
    <3>2. CASE step' = [step EXCEPT ![t] = 1]
      <4>1. Len(Order) = 5 BY DEF Order
      <4> QED BY <3>2, <4>1 DEF EssInv, StepOk
    <3> QED BY <1>2, <3>1, <3>2 DEF Updated, essVars
  <2>5. \A u \in Threads : job'[u] \in {"co2", "tvoc"} => ready' BY <2>1, StepGas
  <2>6. GasInv' BY <2>1, <2>5 DEF EssInv, GasInv, NoGasBeforeReady
  <2> QED BY <2>2, <2>3, <2>4, <2>6 DEF EssInv
<1> QED BY <1>1, <1>2

\* Lemma: a job starts without a copy, and a gas is read from a ready sensor.
LEMMA JobKeeps ==
  ASSUME EssInv,
         \/ OnConnected /\ UNCHANGED essVars
         \/ ClientLeaves
         \/ \E c \in Reads : StartRead(c)
         \/ \E w \in {"env_work", "aq_work"} : Work(w) /\ UNCHANGED essVars
  PROVE  EssInv'
<1>s. [SmNext]_smVars BY DEF SmNext, ClientLeaves, StartRead
<1>1. TypeInv' /\ GasReadingsValid' BY <1>s, TypeStep, GasStep DEF EssInv, ManagerInv
<1>2. PICK u \in Threads, j \in Jobs : Start(u, j) /\ (j \in {"co2", "tvoc"} => ready)
  <2>1. CASE OnConnected BY <2>1 DEF OnConnected, Jobs, Threads
  <2>2. CASE ClientLeaves BY <2>2 DEF ClientLeaves, OnDisconnected, Jobs, Threads
  <2>3. CASE \E c \in Reads : StartRead(c) BY <2>3 DEF StartRead, Read, Jobs, Threads
  <2>4. CASE \E w \in {"env_work", "aq_work"} : Work(w) BY <2>4 DEF Work, Jobs, Threads
  <2> QED BY <2>1, <2>2, <2>3, <2>4
<1>3. job' = [job EXCEPT ![u] = j] /\ copy' = copy /\ job \in [Threads -> Jobs]
  BY <1>2 DEF Start, EssInv, ManagerInv, TypeInv, ControlInv, ControlType
<1>4. CopyInv' BY <1>3 DEF EssInv, ManagerInv, CopyInv
<1>5. UNCHANGED <<step, ready>> BY DEF ClientLeaves, StartRead, essVars
<1>6. \/ UNCHANGED sensor
      \/ sensor' = [c \in Reads |-> [sensor[c] EXCEPT !.notify_enabled = FALSE]]
  BY DEF ClientLeaves, StartRead, essVars
<1>7. \A c \in Reads :
        LET off == [sensor[c] EXCEPT !.notify_enabled = FALSE]
        IN /\ off \in Characteristic /\ off.value = sensor[c].value
           /\ off.value_known = sensor[c].value_known
  BY DEF EssInv, SensorOk, Characteristic
<1>8. SensorOk' BY <1>6, <1>7 DEF EssInv, SensorOk
<1>9. \A c \in Reads : /\ sensor'[c].value = sensor[c].value
                       /\ sensor'[c].value_known = sensor[c].value_known
  BY <1>6, <1>7
<1>10. NoGasBeforeReady' BY <1>5, <1>9 DEF EssInv, GasInv, NoGasBeforeReady, Reads
<1>11. StepOk' BY <1>5 DEF EssInv, StepOk
<1>12. GasInv' BY <1>2, <1>3, <1>5, <1>10 DEF EssInv, GasInv
<1> QED BY <1>1, <1>4, <1>8, <1>11, <1>12 DEF EssInv, ManagerInv

\* Lemma: so does what happens between jobs: a subscription, a gas read before
\* the sensor is ready, the end of conditioning.
LEMMA ClientKeeps ==
  ASSUME EssInv,
         \/ \E c \in Reads : ReadUnready(c)
         \/ \E c \in Subscribable, on \in BOOLEAN : CccCfgChanged(c, on)
         \/ BecomesReady
         \/ UNCHANGED vars
  PROVE  EssInv'
<1>s. /\ sensor \in [Reads -> Characteristic] /\ \A c \in Reads : Sendable(c, sensor[c].value)
      /\ ready \in BOOLEAN /\ NoGasBeforeReady
  BY DEF EssInv, SensorOk, GasInv
<1>1. UNCHANGED smVars BY DEF ReadUnready, CccCfgChanged, BecomesReady, vars
<1>2. UNCHANGED <<mutex, cpu, job, todo, phase, reads, copy, fresh, current_data, update_callback,
                  armed, connected_count, works>>
  BY <1>1 DEF smVars, threadVars
<1>3. TypeInv' /\ GasReadingsValid' BY <1>1, TypeStep, GasStep DEF EssInv, ManagerInv
<1>4. ManagerInv' BY <1>2, <1>3 DEF EssInv, ManagerInv, CopyInv
<1>5. UNCHANGED step /\ ready' \in {ready, TRUE}
  BY DEF ReadUnready, CccCfgChanged, BecomesReady, vars, essVars
<1>6. StepOk' BY <1>5 DEF EssInv, StepOk
<1>7. SensorOk' /\ NoGasBeforeReady'
  <2>1. CASE \E c \in Reads : ReadUnready(c)
    <3>1. PICK c \in {"co2", "tvoc"} :
            /\ sensor' = [sensor EXCEPT ![c] = Known(sensor[c], ESS_UNKNOWN_U16)]
            /\ ready' = ready
      BY <2>1 DEF ReadUnready
    <3>2. ESS_UNKNOWN_U16 \in Int /\ Sendable(c, ESS_UNKNOWN_U16) BY LimitsInt, SendableCases
    <3>3. /\ Known(sensor[c], ESS_UNKNOWN_U16) \in Characteristic
          /\ Known(sensor[c], ESS_UNKNOWN_U16).value = ESS_UNKNOWN_U16
      BY <1>s, <3>2, KnownUpdates DEF Reads
    <3>4. /\ sensor' \in [Reads -> Characteristic] /\ sensor'[c].value = ESS_UNKNOWN_U16
          /\ \A d \in Reads \ {c} : sensor'[d] = sensor[d]
      BY <1>s, <3>1, <3>3 DEF Reads
    <3>5. SensorOk' BY <1>s, <3>2, <3>4 DEF SensorOk
    <3>6. NoGasBeforeReady' BY <1>s, <3>1, <3>4 DEF NoGasBeforeReady, Reads
    <3> QED BY <3>5, <3>6
  <2>2. CASE \E c \in Subscribable, on \in BOOLEAN : CccCfgChanged(c, on)
    <3>1. PICK c \in Reads, on \in BOOLEAN :
            sensor' = [sensor EXCEPT ![c].notify_enabled = on] /\ ready' = ready
      BY <2>2, SubscribableAssumption DEF CccCfgChanged
    <3>2. /\ [sensor[c] EXCEPT !.notify_enabled = on] \in Characteristic
          /\ [sensor[c] EXCEPT !.notify_enabled = on].value = sensor[c].value
          /\ [sensor[c] EXCEPT !.notify_enabled = on].value_known = sensor[c].value_known
      BY <1>s DEF Characteristic
    <3>3. /\ sensor' \in [Reads -> Characteristic]
          /\ \A d \in Reads : /\ sensor'[d].value = sensor[d].value
                              /\ sensor'[d].value_known = sensor[d].value_known
      BY <1>s, <3>1, <3>2
    <3>4. NoGasBeforeReady' BY <1>s, <3>1, <3>3 DEF NoGasBeforeReady, Reads
    <3> QED BY <1>s, <3>3, <3>4 DEF SensorOk
  <2>3. CASE BecomesReady BY <2>3 DEF BecomesReady, EssInv, SensorOk, NoGasBeforeReady
  <2>4. CASE UNCHANGED vars
    BY <1>s, <2>4 DEF vars, essVars, EssInv, SensorOk, NoGasBeforeReady
  <2> QED BY <2>1, <2>2, <2>3, <2>4
<1>8. GasInv' BY <1>2, <1>5, <1>7 DEF EssInv, GasInv
<1> QED BY <1>4, <1>6, <1>7, <1>8 DEF EssInv

\* Lemma: the invariant is inductive.
LEMMA EssKeeps == EssInv /\ [EssNext]_vars => EssInv'
<1> SUFFICES ASSUME EssInv, [EssNext]_vars PROVE EssInv' OBVIOUS
<1>1. ASSUME NEW t \in Threads, EssStep(t) PROVE EssInv'
  BY <1>1, UpdateKeeps, ReadKeeps, OtherSteps DEF EssStep
<1> QED BY <1>1, JobKeeps, ClientKeeps DEF EssNext

\* The service never shows a value outside the range of its characteristic:
\* readings are clamped on the way to the wire (ess_encode.c:18-61), CO2 is
\* checked (ess_service.c:286-289), and TVOC keeps to the sensor manager's
\* range, whatever the drivers answer.
THEOREM EssTypeCorrect == EssSpec => []EssTypeOK
<1>1. EssInv => EssTypeOK
  <2> SUFFICES ASSUME EssInv PROVE EssTypeOK OBVIOUS
  <2>1. SmTypeOK BY TypeParts DEF EssInv, ManagerInv, TypeInv, ControlInv
  <2>2. \A c \in Reads : DOMAIN sensor[c] = {"value", "value_known", "notify_enabled"}
    BY DEF EssInv, SensorOk, Characteristic
  <2> QED BY <2>1, <2>2 DEF EssInv, SensorOk, StepOk, GasInv, EssTypeOK
<1> QED BY <1>1, EssStart, EssKeeps, PTL DEF EssSpec

\* A gas value is never a known real one while the sensor is not ready, at
\* whatever point of an update or a read its conditioning ends
\* (ess_service.c:766-809, 296-378).
THEOREM NoGasBeforeReadyHolds == EssSpec => []NoGasBeforeReady
<1>1. EssInv => NoGasBeforeReady BY DEF EssInv, GasInv
<1> QED BY <1>1, EssStart, EssKeeps, PTL DEF EssSpec

-----------------------------------------------------------------------------
(* Values that mean "not known" *)

\* What stands in each environment characteristic until its first good sample.
Placeholder == [temperature |-> ESS_UNKNOWN_S16, humidity |-> ESS_UNKNOWN_U16, pressure |-> 0]

KnownIsReal == \A c \in DOMAIN Placeholder : sensor[c].value_known => sensor[c].value # Placeholder[c]

\* Lemma: no reading is encoded as one of them.
LEMMA EncodedReal ==
  ASSUME NEW data \in SensorData, NEW c \in DOMAIN Placeholder
  PROVE  Encoded(c, data) \in Int /\ Encoded(c, data) # Placeholder[c]
<1>p. /\ Placeholder["temperature"] = ESS_UNKNOWN_S16 /\ Placeholder["humidity"] = ESS_UNKNOWN_U16
      /\ Placeholder["pressure"] = 0 /\ c \in {"temperature", "humidity", "pressure"}
  BY DEF Placeholder
<1>l. /\ ESS_UNKNOWN_S16 < ESS_TEMP_MIN_E_2C /\ ESS_UNKNOWN_U16 > ESS_HUM_MAX_E_2PCT
      /\ 0 < ESS_PRESS_MIN_DPA
  BY SMT DEF ESS_TEMP_MIN_E_2C, ESS_HUM_MAX_E_2PCT, ESS_PRESS_MIN_DPA, ESS_UNKNOWN_S16,
             ESS_UNKNOWN_U16
<1>t. /\ Truncated(data.temperature) \in Int /\ Truncated(data.humidity) \in Int
      /\ Truncated(data.pressure) \in Int
  BY TruncatedInt DEF SensorData
<1>1. EncodeTemperature(data.temperature) \in ESS_TEMP_MIN_E_2C .. ESS_TEMP_MAX_E_2C
  BY <1>t, ClampedRange, LimitsInt DEF EncodeTemperature
<1>2. EncodeHumidity(data.humidity) \in ESS_HUM_MIN_E_2PCT .. ESS_HUM_MAX_E_2PCT
  BY <1>t, ClampedRange, LimitsInt DEF EncodeHumidity
<1>3. EncodePressure(data.pressure) \in ESS_PRESS_MIN_DPA .. ESS_PRESS_MAX_DPA
  BY <1>t, ClampedRange, LimitsInt DEF EncodePressure
<1>4. CASE c = "temperature"
  <2>1. Encoded(c, data) = EncodeTemperature(data.temperature) BY <1>4, EncodedCases
  <2> QED BY <1>p, <1>l, <1>1, <1>4, <2>1, LimitsInt
<1>5. CASE c = "humidity"
  <2>1. Encoded(c, data) = EncodeHumidity(data.humidity) BY <1>5, EncodedCases
  <2> QED BY <1>p, <1>l, <1>2, <1>5, <2>1, LimitsInt
<1>6. CASE c = "pressure"
  <2>1. Encoded(c, data) = EncodePressure(data.pressure) BY <1>6, EncodedCases
  <2> QED BY <1>p, <1>l, <1>3, <1>6, <2>1, LimitsInt
<1> QED BY <1>p, <1>4, <1>5, <1>6

\* Lemma: a step leaves an environment characteristic as it is but for the
\* subscription, invalidates it, or stores an encoded reading.
LEMMA EnvironmentMoves ==
  ASSUME EssInv, [EssNext]_vars, NEW c \in DOMAIN Placeholder
  PROVE  \/ /\ sensor'[c].value = sensor[c].value
            /\ sensor'[c].value_known = sensor[c].value_known
         \/ ~sensor'[c].value_known
         \/ \E data \in SensorData : sensor'[c].value = Encoded(c, data)
<1>s. /\ sensor \in [Reads -> Characteristic] /\ copy \in [Threads -> SensorData]
      /\ c \in {"temperature", "humidity", "pressure"} /\ c \in Reads
  BY DEF EssInv, SensorOk, ManagerInv, TypeInv, ControlInv, ControlType, Placeholder, Reads
<1>k. \A d \in Reads, v \in Int : Known(sensor[d], v).value = v BY <1>s, KnownUpdates
<1>i. \A d \in Reads : Invalidated(sensor[d]).value_known = FALSE BY <1>s, InvalidatedUpdates
<1>c. \A data \in SensorData, d \in {"temperature", "humidity", "pressure"} :
        Encoded(d, data) \in Int
  BY EncodedReal DEF Placeholder
<1>2. ASSUME NEW cs, Invalidate(cs) PROVE sensor'[c] = sensor[c] \/ ~sensor'[c].value_known
  BY <1>2, <1>s, <1>i DEF Invalidate
<1>3. ASSUME NEW t \in Threads, NEW d \in Reads, NEW v, UpdateSensor(t, d, v)
      PROVE  sensor'[c] = IF c = d THEN Known(sensor[d], v) ELSE sensor[c]
  BY <1>3, <1>s DEF UpdateSensor
<1>4. ASSUME NEW t \in Threads, Update(t)
      PROVE  \/ sensor'[c] = sensor[c] \/ ~sensor'[c].value_known
             \/ sensor'[c].value = Encoded(c, copy[t])
  <2>1. ASSUME NEW d \in {"temperature", "humidity", "pressure"}, UpdateEnvironment(t, d)
        PROVE  \/ sensor'[c] = sensor[c] \/ ~sensor'[c].value_known
               \/ sensor'[c].value = Encoded(c, copy[t])
    <3>1. CASE Invalidate({d}) BY <1>2, <3>1
    <3>2. CASE UpdateSensor(t, d, Encoded(d, copy[t]))
      <4>1. d \in Reads BY DEF Reads
      <4>2. sensor'[c] = IF c = d THEN Known(sensor[d], Encoded(d, copy[t])) ELSE sensor[c]
        BY <1>3, <3>2, <4>1
      <4>3. c = d => sensor'[c].value = Encoded(d, copy[t])
        <5>1. copy[t] \in SensorData BY <1>s
        <5>2. Encoded(d, copy[t]) \in Int BY <1>c, <5>1
        <5>3. Known(sensor[d], Encoded(d, copy[t])).value = Encoded(d, copy[t])
          BY <1>k, <4>1, <5>2
        <5> QED BY <4>2, <5>3
      <4> QED BY <4>2, <4>3
    <3> QED BY <2>1, <3>1, <3>2 DEF UpdateEnvironment
  <2>2. ASSUME NEW d \in {"co2", "tvoc"}, NEW rejected, UpdateGas(t, d, rejected)
        PROVE  sensor'[c] = sensor[c] \/ ~sensor'[c].value_known
    <3>1. CASE \E cs : Invalidate(cs) BY <1>2, <3>1
    <3>2. CASE \E v : UpdateSensor(t, d, v) BY <1>s, <1>3, <3>2 DEF Reads
    <3> QED BY <2>2, <3>1, <3>2 DEF UpdateGas
  <2> QED BY <1>4, <2>1, <2>2 DEF Update, UpdateCo2, UpdateTvoc
<1>5. ASSUME NEW t \in Threads, Answer(t)
      PROVE  \/ sensor'[c] = sensor[c] \/ ~sensor'[c].value_known
             \/ sensor'[c].value = Encoded(c, copy[t])
  <2>1. sensor'[c] = IF c \in Stored(job[t], copy[t]) THEN Refreshed(c, copy[t]) ELSE sensor[c]
    BY <1>5, <1>s DEF Answer
  <2>2. \/ Refreshed(c, copy[t]) = Known(sensor[c], Encoded(c, copy[t]))
        \/ Refreshed(c, copy[t]) = Invalidated(sensor[c])
    BY DEF Refreshed
  <2> QED BY <1>s, <1>k, <1>i, <1>c, <2>1, <2>2
<1>6. ASSUME NEW t \in Threads, Refuse(t) PROVE sensor'[c] = sensor[c] \/ ~sensor'[c].value_known
  <2>1. sensor' = [sensor EXCEPT ![job[t]] = Invalidated(sensor[job[t]])] BY <1>6 DEF Refuse
  <2> QED BY <1>s, <1>i, <2>1
<1>7. ASSUME NEW t \in Threads,
             (Internal(t) /\ UNCHANGED essVars) \/ Notified(t) \/ Updated(t)
      PROVE  sensor'[c] = sensor[c]
  BY <1>7 DEF Notified, Updated, essVars
<1>8. ASSUME NEW d \in Reads, ReadUnready(d) PROVE sensor'[c] = sensor[c]
  BY <1>8, <1>s DEF ReadUnready
<1>9. ASSUME NEW s \in Characteristic, NEW on \in BOOLEAN
      PROVE  /\ [s EXCEPT !.notify_enabled = on].value = s.value
             /\ [s EXCEPT !.notify_enabled = on].value_known = s.value_known
  BY DEF Characteristic
<1>10. ASSUME NEW d \in Reads, NEW on \in BOOLEAN, CccCfgChanged(d, on)
       PROVE  /\ sensor'[c].value = sensor[c].value
              /\ sensor'[c].value_known = sensor[c].value_known
  <2>1. \/ sensor'[c] = sensor[c]
        \/ sensor'[c] = [sensor[c] EXCEPT !.notify_enabled = on]
    BY <1>10, <1>s DEF CccCfgChanged
  <2>2. sensor[c] \in Characteristic BY <1>s
  <2> QED BY <1>9, <2>1, <2>2
<1>11. CASE ClientLeaves
  <2>1. sensor'[c] = [sensor[c] EXCEPT !.notify_enabled = FALSE] BY <1>11, <1>s DEF ClientLeaves
  <2>2. sensor[c] \in Characteristic BY <1>s
  <2> QED BY <1>9, <2>1, <2>2
<1>12. CASE \/ OnConnected /\ UNCHANGED essVars
            \/ BecomesReady \/ UNCHANGED vars
            \/ \E d \in Reads : StartRead(d)
            \/ \E w \in {"env_work", "aq_work"} : Work(w) /\ UNCHANGED essVars
  <2>1. sensor' = sensor BY <1>12 DEF BecomesReady, StartRead, vars, essVars
  <2> QED BY <2>1
<1>13. CASE \E t \in Threads : EssStep(t)
  BY <1>s, <1>4, <1>5, <1>6, <1>7, <1>13 DEF EssStep
<1>14. CASE \E d \in Reads : StartRead(d) \/ ReadUnready(d) BY <1>8, <1>12, <1>14
<1>15. CASE \E d \in Subscribable, on \in BOOLEAN : CccCfgChanged(d, on)
  BY <1>10, <1>15, SubscribableAssumption
<1> QED BY <1>11, <1>12, <1>13, <1>14, <1>15 DEF EssNext

\* A known temperature, humidity or pressure "came from a validated sensor
\* reading" (ess_service.c:117): the values that stand for "not known" (0x8000,
\* 0xFFFF and 0) are never stored as known, whatever the sensors read and
\* whichever of the paths of ess_service.c stores them (336, 355, 480, 642-682).
THEOREM KnownIsRealHolds == EssSpec => []KnownIsReal
<1>1. EssInit => KnownIsReal
  <2>1. \A v : Unknown(v).value_known = FALSE BY DEF Unknown
  <2> QED BY <2>1 DEF EssInit, KnownIsReal, Placeholder
<1>2. EssInv /\ KnownIsReal /\ [EssNext]_vars => KnownIsReal'
  <2> SUFFICES ASSUME EssInv, KnownIsReal, [EssNext]_vars, NEW c \in DOMAIN Placeholder,
                      sensor'[c].value_known
              PROVE  sensor'[c].value # Placeholder[c]
    BY DEF KnownIsReal, Placeholder
  <2>1. CASE sensor'[c].value = sensor[c].value /\ sensor'[c].value_known = sensor[c].value_known
    BY <2>1 DEF KnownIsReal
  <2>2. CASE \E data \in SensorData : sensor'[c].value = Encoded(c, data) BY <2>2, EncodedReal
  <2> QED BY <2>1, <2>2, EnvironmentMoves
<1> QED BY <1>1, <1>2, EssStart, EssKeeps, PTL DEF EssSpec

-----------------------------------------------------------------------------
(* What the wire format loses *)

\* Lemma: dropping a digit loses less than one of what remains, and never
\* changes the sign.
LEMMA TruncatedNear ==
  ASSUME NEW x \in Int
  PROVE  LET e == Truncated(x)
         IN /\ x >= 0 => 0 <= e * Finer /\ e * Finer <= x /\ x < (e + 1) * Finer
            /\ x < 0 => e * Finer <= 0 /\ x <= e * Finer /\ (e - 1) * Finer < x
<1>1. CASE x >= 0
  <2>1. Truncated(x) = x \div 10 BY <1>1 DEF Truncated, Finer
  <2> QED BY <1>1, <2>1 DEF Finer
<1>2. CASE x < 0
  <2>1. Truncated(x) = -((-x) \div 10) BY <1>2 DEF Truncated, Finer
  <2> QED BY <1>2, <2>1 DEF Finer
<1> QED BY <1>1, <1>2

\* A reading that passes the range check is sent with an error of less than one
\* unit of the wire format: the clamp of the encoder never touches it, so the
\* limits of ess_service.c:268-284 and of ess_encode.c:18-61 agree.
THEOREM EncodingAccurate ==
  ASSUME NEW x \in Int
  PROVE  /\ TemperatureInRange(x) => EncodeTemperature(x) = Truncated(x)
         /\ HumidityInRange(x) => EncodeHumidity(x) = Truncated(x)
         /\ PressureInRange(x) => EncodePressure(x) = Truncated(x)
         /\ x - Truncated(x) * Finer \in -(Finer - 1) .. Finer - 1
<1>0. Truncated(x) \in Int BY TruncatedInt
<1>1. ASSUME NEW low \in Int, NEW high \in Int, low <= high, x \in low * Finer .. high * Finer
      PROVE  Clamped(Truncated(x), low, high) = Truncated(x)
  <2>1. low * 10 <= x /\ x <= high * 10 BY <1>1 DEF Finer
  <2>2. low <= Truncated(x) /\ Truncated(x) <= high BY <1>0, <1>1, <2>1, TruncatedNear DEF Finer
  <2> QED BY <1>0, <1>1, <2>2 DEF Clamped
<1>2. TemperatureInRange(x) => EncodeTemperature(x) = Truncated(x)
  BY <1>1, LimitsInt DEF TemperatureInRange, EncodeTemperature
<1>3. HumidityInRange(x) => EncodeHumidity(x) = Truncated(x)
  BY <1>1, LimitsInt DEF HumidityInRange, EncodeHumidity
<1>4. PressureInRange(x) => EncodePressure(x) = Truncated(x)
  BY <1>1, LimitsInt DEF PressureInRange, EncodePressure
<1>5. x - Truncated(x) * Finer \in -(Finer - 1) .. Finer - 1
  BY <1>0, TruncatedNear DEF Finer
<1> QED BY <1>2, <1>3, <1>4, <1>5
================================================================================
