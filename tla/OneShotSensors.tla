--------------------------- MODULE OneShotSensors ---------------------------
(***************************************************************************)
(* The drivers of the HTS221 (temperature, humidity) and of the LPS22HB    *)
(* (pressure), app/src/sensor_hts221_driver.c and                          *)
(* app/src/sensor_lps22hb_driver.c, with the two sensors.                  *)
(*                                                                         *)
(* Both drivers power the sensor on, trigger one conversion, wait for its  *)
(* data-ready interrupt with a timeout, fetch the sample and power the     *)
(* sensor off.  The sensor manager reads one sensor at a time, under its   *)
(* mutex.  The HTS221's interrupt is handled by a thread of Zephyr's       *)
(* driver, the LPS22HB's in the interrupt itself.                          *)
(*                                                                         *)
(* A step ends where the code can block or be interrupted.  Any I2C        *)
(* transfer may fail, and then has no effect.  A trigger starts one        *)
(* conversion; it may be lost and it may outlast the wait for it, but not  *)
(* the LPS22HB's next stabilisation delay (StabilizationAssumption in the  *)
(* README): 150 ms against some 40 ms.                                     *)
(***************************************************************************)
EXTENDS Naturals, Sequences

CONSTANTS
  Rx, WorkQueue,  \* the threads that read sensors once the system is up
  NoThread,       \* nobody reads
  TriggerThread   \* the thread that handles the HTS221's interrupt

Readers == {Rx, WorkQueue}

ASSUME ReadersAssumption == NoThread \notin Readers \cup {TriggerThread}

VARIABLES
  reader,                 \* who holds sensor_manager_mutex for a read
  todo,                   \* the sensors it still has to read
  pc,                     \* where it stands in the driver of the first of them
  result,                 \* what the last read of each sensor returned
  device,                 \* the two sensors
  power,                  \* their power switches, and the last call to turn them
  hts_trigger,            \* sensor_trigger_set() succeeded
  hts_irq,                \* the HTS221's interrupt waits for its handler
  hts221_data_ready_sem,
  hts221_enabled,
  timedOut,               \* some HTS221 read has timed out  (history)
  interrupt_initialized,
  armed,                  \* the LPS22HB's pin interrupt is enabled
  data_ready_sem,
  lps22hb_enabled

readVars == <<reader, todo, pc, result, power>>
htsVars  == <<hts_trigger, hts_irq, hts221_data_ready_sem, hts221_enabled, timedOut>>
lpsVars  == <<interrupt_initialized, armed, data_ready_sem, lps22hb_enabled>>
vars == <<readVars, device, htsVars, lpsVars>>

-----------------------------------------------------------------------------
Sensors == {"hts", "lps"}

\* converting: a conversion is running; drdy: a sample waits to be fetched;
\* out: whether the sample in the output registers belongs to the current read,
\* that is, whether its conversion ended after the read's trigger.
Device == [converting : BOOLEAN, drdy : BOOLEAN, out : {"own", "old"}]

\* on: the sensor is on, whatever the driver's flag says; call: what the last
\* power_on() or power_off() of its driver returned  (history).
Power == [on : BOOLEAN, call : {"none", "ok", "error"}]

\* The updates of the sensor manager that read these sensors.
Updates == {<<"hts", "lps">>, <<"hts">>, <<"lps">>}

Locations == {"idle", "power_on", "trigger", "start", "wait", "disarm", "fetch", "power_off"}

\* Both drivers are initialised, which leaves each sensor on or off as it was.  A
\* driver goes on if the trigger cannot be set, and polls if the interrupt pin's
\* port is not ready.
Init ==
  /\ reader = NoThread /\ todo = <<>> /\ pc = "idle"
  /\ result = [s \in Sensors |-> "none"]
  /\ device = [s \in Sensors |-> [converting |-> FALSE, drdy |-> FALSE, out |-> "old"]]
  /\ power \in [Sensors -> {[on |-> on, call |-> "none"] : on \in BOOLEAN}]
  /\ hts_trigger \in BOOLEAN /\ hts_irq = FALSE
  /\ hts221_data_ready_sem = 0 /\ hts221_enabled = FALSE /\ timedOut = FALSE
  /\ interrupt_initialized \in BOOLEAN /\ armed = FALSE
  /\ data_ready_sem = 0 /\ lps22hb_enabled = FALSE

At(s, p) == todo # <<>> /\ Head(todo) = s /\ pc = p
Goto(p) == pc' = p /\ UNCHANGED <<reader, todo>>

\* The read of a sensor has a result; what is left is to power it off.
PowerDown(s, r) == result' = [result EXCEPT ![s] = r] /\ Goto("power_off")

\* A call of power_on() or power_off() leaves the sensor on or off.
Switched(s, on, call) == power' = [power EXCEPT ![s] = [on |-> on, call |-> call]]

\* The driver returns; the update goes on with its next sensor.
Return ==
  /\ todo' = Tail(todo)
  /\ IF Tail(todo) = <<>>
       THEN reader' = NoThread /\ pc' = "idle"
       ELSE pc' = "power_on" /\ UNCHANGED reader

\* A thread has taken the sensor manager's mutex for an update.
Read(t, u) ==
  /\ reader = NoThread
  /\ reader' = t /\ todo' = u /\ pc' = "power_on"
  /\ result' = [s \in Sensors |-> IF \E i \in DOMAIN u : u[i] = s THEN "none" ELSE result[s]]
  /\ device' = [s \in Sensors |-> [device[s] EXCEPT !.out = "old"]]
  /\ UNCHANGED <<power, htsVars, lpsVars>>

\* Whether the current read has triggered its conversion.
Triggered(s) == pc \in {"wait", "disarm", "fetch", "power_off"} /\ todo # <<>> /\ Head(todo) = s

\* The fields of a sensor after a conversion and after its registers are read.
Converted(s) == [converting |-> FALSE, drdy |-> TRUE,
                 out |-> IF Triggered(s) THEN "own" ELSE device[s].out]
Fetched(s) == [device[s] EXCEPT !.drdy = FALSE]

ConversionLost(s) ==
  /\ device[s].converting
  /\ device' = [device EXCEPT ![s].converting = FALSE]
  /\ UNCHANGED <<readVars, htsVars, lpsVars>>

-----------------------------------------------------------------------------
(* HTS221 *)

\* A variant with a defect: the semaphore has no limit.
HtsHandlerCounts ==
  /\ hts_irq /\ reader # TriggerThread
  /\ hts_irq' = FALSE /\ hts221_data_ready_sem' = hts221_data_ready_sem + 1
  /\ UNCHANGED <<readVars, device, hts_trigger, hts221_enabled, timedOut, lpsVars>>

\* The handler is not called while its thread is held up in a read.
HtsHandler ==
  /\ hts_irq /\ reader # TriggerThread
  /\ hts_irq' = FALSE /\ hts221_data_ready_sem' = 1
  /\ UNCHANGED <<readVars, device, hts_trigger, hts221_enabled, timedOut, lpsVars>>

\* A rising data-ready line raises the interrupt, one that is still up may.
HtsConverted ==
  /\ device["hts"].converting
  /\ device' = [device EXCEPT !["hts"] = Converted("hts")]
  /\ \/ hts_irq' = hts_trigger
     \/ device["hts"].drdy /\ UNCHANGED hts_irq
  /\ UNCHANGED <<readVars, hts_trigger, hts221_data_ready_sem, hts221_enabled, timedOut, lpsVars>>

\* The flag alone decides whether there is a command to send.  If that fails the
\* read returns at once.
HtsPowerOn ==
  /\ At("hts", "power_on")
  /\ \/ /\ hts221_enabled' = TRUE
        /\ Switched("hts", ~hts221_enabled \/ power["hts"].on, "ok")
        /\ Goto("trigger") /\ UNCHANGED result
     \/ /\ ~hts221_enabled
        /\ Switched("hts", power["hts"].on, "error")
        /\ result' = [result EXCEPT !["hts"] = "error"]
        /\ Return /\ UNCHANGED hts221_enabled
  /\ UNCHANGED <<device, hts_trigger, hts_irq, hts221_data_ready_sem, timedOut, lpsVars>>

\* A variant with a defect: an error returns without powering the sensor off.
HtsTriggerReturns ==
  /\ At("hts", "trigger")
  /\ \/ /\ device' = [device EXCEPT !["hts"].converting = TRUE]
        /\ Goto("wait") /\ UNCHANGED result
     \/ /\ result' = [result EXCEPT !["hts"] = "error"]
        /\ Return /\ UNCHANGED device
  /\ UNCHANGED <<power, htsVars, lpsVars>>

HtsTrigger ==
  /\ At("hts", "trigger")
  /\ \/ /\ device' = [device EXCEPT !["hts"].converting = TRUE]
        /\ Goto("wait") /\ UNCHANGED result
     \/ PowerDown("hts", "error") /\ UNCHANGED device
  /\ UNCHANGED <<power, htsVars, lpsVars>>

HtsDataReady ==
  /\ At("hts", "wait") /\ hts221_data_ready_sem = 1
  /\ hts221_data_ready_sem' = 0
  /\ Goto("fetch")
  /\ UNCHANGED <<result, power, device, hts_trigger, hts_irq, hts221_enabled, timedOut, lpsVars>>

\* A variant with a defect: after the timeout the registers are read all the same.
HtsTimeoutFetches ==
  /\ At("hts", "wait") /\ hts221_data_ready_sem = 0
  /\ Goto("fetch")
  /\ UNCHANGED <<result, power, device, htsVars, lpsVars>>

HtsTimeout ==
  /\ At("hts", "wait") /\ hts221_data_ready_sem = 0
  /\ PowerDown("hts", "error") /\ timedOut' = TRUE
  /\ UNCHANGED <<power, device, hts_trigger, hts_irq, hts221_data_ready_sem, hts221_enabled, lpsVars>>

\* The fetch or one of the two channels may fail.
HtsFetch ==
  /\ At("hts", "fetch")
  /\ \/ device' = [device EXCEPT !["hts"] = Fetched("hts")] /\ PowerDown("hts", device["hts"].out)
     \/ device' = [device EXCEPT !["hts"] = Fetched("hts")] /\ PowerDown("hts", "error")
     \/ PowerDown("hts", "error") /\ UNCHANGED device
  /\ UNCHANGED <<power, htsVars, lpsVars>>

HtsPowerOff ==
  /\ At("hts", "power_off")
  /\ \E ok \in BOOLEAN :
       /\ hts221_enabled' = (hts221_enabled /\ ~ok)
       /\ Switched("hts", power["hts"].on /\ ~(hts221_enabled /\ ok),
                   IF ok THEN "ok" ELSE "error")
  /\ Return
  /\ UNCHANGED <<result, device, hts_trigger, hts_irq, hts221_data_ready_sem, timedOut, lpsVars>>

-----------------------------------------------------------------------------
(* LPS22HB *)

\* The interrupt comes with a rising line only, and its callback at once.
LpsConverted ==
  /\ device["lps"].converting
  /\ device' = [device EXCEPT !["lps"] = Converted("lps")]
  /\ data_ready_sem' = IF armed /\ ~device["lps"].drdy THEN 1 ELSE data_ready_sem
  /\ UNCHANGED <<readVars, htsVars, interrupt_initialized, armed, lps22hb_enabled>>

\* A failure returns at once.  The sensor is then on all the same if it was the
\* interrupt line, set up after the switch, that could not be.
LpsPowerOn ==
  /\ At("lps", "power_on")
  /\ \/ /\ lps22hb_enabled' = TRUE /\ Switched("lps", TRUE, "ok")
        /\ Goto("trigger") /\ UNCHANGED result
     \/ /\ \E on \in {power["lps"].on, power["lps"].on \/ interrupt_initialized} :
             Switched("lps", on, "error")
        /\ result' = [result EXCEPT !["lps"] = "error"]
        /\ Return /\ UNCHANGED lps22hb_enabled
  /\ UNCHANGED <<device, htsVars, interrupt_initialized, armed, data_ready_sem>>

\* A variant with a defect: the semaphore keeps what an earlier read left.
LpsTriggerKeepsToken ==
  /\ At("lps", "trigger") /\ ~device["lps"].converting
  /\ device' = [device EXCEPT !["lps"] = Fetched("lps")] \/ UNCHANGED device
  /\ armed' = interrupt_initialized \/ UNCHANGED armed
  /\ Goto("start")
  /\ UNCHANGED <<result, power, htsVars, interrupt_initialized, data_ready_sem, lps22hb_enabled>>

\* After the stabilisation delay: an old sample is read away, if that works, and
\* the interrupt is enabled, if that works.
LpsTrigger ==
  /\ At("lps", "trigger") /\ ~device["lps"].converting
  /\ device' = [device EXCEPT !["lps"] = Fetched("lps")] \/ UNCHANGED device
  /\ data_ready_sem' = 0
  /\ armed' = interrupt_initialized \/ UNCHANGED armed
  /\ Goto("start")
  /\ UNCHANGED <<result, power, htsVars, interrupt_initialized, lps22hb_enabled>>

LpsStart ==
  /\ At("lps", "start")
  /\ \/ /\ device' = [device EXCEPT !["lps"].converting = TRUE]
        /\ Goto("wait") /\ UNCHANGED result
     \/ PowerDown("lps", "error") /\ UNCHANGED device
  /\ UNCHANGED <<power, htsVars, lpsVars>>

\* Without the interrupt the driver sleeps for the whole timeout.
LpsSleep ==
  /\ At("lps", "wait") /\ ~interrupt_initialized
  /\ Goto("fetch")
  /\ UNCHANGED <<result, power, device, htsVars, lpsVars>>

LpsDataReady ==
  /\ At("lps", "wait") /\ interrupt_initialized /\ data_ready_sem = 1
  /\ data_ready_sem' = 0
  /\ Goto("disarm")
  /\ UNCHANGED <<result, power, device, htsVars, interrupt_initialized, armed, lps22hb_enabled>>

\* A variant with a defect: a timeout triggers another conversion, without limit.
LpsTimeoutRetries ==
  /\ At("lps", "wait") /\ interrupt_initialized /\ data_ready_sem = 0
  /\ Goto("trigger")
  /\ UNCHANGED <<result, power, device, htsVars, lpsVars>>

LpsTimeout ==
  /\ At("lps", "wait") /\ interrupt_initialized /\ data_ready_sem = 0
  /\ result' = [result EXCEPT !["lps"] = "error"]
  /\ Goto("disarm")
  /\ UNCHANGED <<power, device, htsVars, lpsVars>>

\* The interrupt may still come between the timeout and this.
LpsDisarm ==
  /\ At("lps", "disarm")
  /\ armed' = FALSE
  /\ Goto(IF result["lps"] = "error" THEN "power_off" ELSE "fetch")
  /\ UNCHANGED <<result, power, device, htsVars, interrupt_initialized, data_ready_sem,
                 lps22hb_enabled>>

LpsFetch ==
  /\ At("lps", "fetch")
  /\ \/ device' = [device EXCEPT !["lps"] = Fetched("lps")] /\ PowerDown("lps", device["lps"].out)
     \/ device' = [device EXCEPT !["lps"] = Fetched("lps")] /\ PowerDown("lps", "error")
     \/ PowerDown("lps", "error") /\ UNCHANGED device
  /\ UNCHANGED <<power, htsVars, lpsVars>>

\* A variant with a defect: the interrupt is disabled after the power-off command,
\* whose failure returns first.
LpsPowerOffFirst ==
  /\ At("lps", "power_off")
  /\ \E ok \in BOOLEAN :
       /\ armed' = (armed /\ ~ok)
       /\ lps22hb_enabled' = (lps22hb_enabled /\ ~ok)
       /\ Switched("lps", power["lps"].on /\ ~ok, IF ok THEN "ok" ELSE "error")
  /\ Return
  /\ UNCHANGED <<result, device, htsVars, interrupt_initialized, data_ready_sem>>

LpsPowerOff ==
  /\ At("lps", "power_off")
  /\ armed' = FALSE
  /\ \E ok \in BOOLEAN :
       /\ lps22hb_enabled' = (lps22hb_enabled /\ ~ok)
       /\ Switched("lps", power["lps"].on /\ ~ok, IF ok THEN "ok" ELSE "error")
  /\ Return
  /\ UNCHANGED <<result, device, htsVars, interrupt_initialized, data_ready_sem>>

-----------------------------------------------------------------------------
(* Specification *)

HtsStep == HtsPowerOn \/ HtsTrigger \/ HtsDataReady \/ HtsTimeout \/ HtsFetch \/ HtsPowerOff
LpsStep ==
  \/ LpsPowerOn \/ LpsTrigger \/ LpsStart \/ LpsSleep \/ LpsDataReady \/ LpsTimeout
  \/ LpsDisarm \/ LpsFetch \/ LpsPowerOff

DeviceStep == HtsConverted \/ LpsConverted \/ \E s \in Sensors : ConversionLost(s)

Next ==
  \/ \E t \in Readers, u \in Updates : Read(t, u)
  \/ HtsStep \/ LpsStep
  \/ HtsHandler \/ DeviceStep

Spec == Init /\ [][Next]_vars

\* Timeouts and I2C transfers end, and so do conversions; no one has to read.
FairSpec == Spec /\ WF_vars(HtsStep) /\ WF_vars(LpsStep) /\ WF_vars(LpsConverted)

-----------------------------------------------------------------------------
(* Properties *)

OneShotTypeOK ==
  /\ reader \in Readers \cup {NoThread}
  /\ todo \in Updates \cup {<<>>}
  /\ pc \in Locations
  /\ result \in [Sensors -> {"none", "own", "old", "error"}]
  /\ device \in [Sensors -> Device]
  /\ power \in [Sensors -> Power]
  /\ hts_trigger \in BOOLEAN /\ hts_irq \in BOOLEAN /\ hts221_enabled \in BOOLEAN
  /\ timedOut \in BOOLEAN
  /\ interrupt_initialized \in BOOLEAN /\ armed \in BOOLEAN /\ lps22hb_enabled \in BOOLEAN
  /\ hts221_data_ready_sem \in 0 .. 1 /\ data_ready_sem \in 0 .. 1

Asked(s) == \E i \in DOMAIN todo : todo[i] = s

Lps == INSTANCE Measurement WITH
  asked  <- Asked("lps"),
  synced <- interrupt_initialized,
  answer <- IF Asked("lps") THEN "none" ELSE result["lps"]

\* lps22hb_driver_read_pressure() keeps the promise of a one-shot sensor: with
\* its interrupt, no conversion that came too late for an earlier read, no sample
\* left in the registers and no failing I2C transfer makes a read return a
\* pressure from before its trigger.
LpsMeasures == Lps!Spec

\* hts221_driver_read_both() does so only until a read has timed out: as long as
\* none has, no order of errors, lost conversions and late handlers leaves a
\* data-ready token for a read whose own sample is not there yet.
HtsOwnUntilTimeout == ~timedOut => result["hts"] # "old"

\* "Now fetch the fresh sample using Zephyr driver": what a read of the HTS221
\* returns was measured for it.
HtsSampleIsOwn == result["hts"] # "old"

\* Where a driver needs its sensor on.
Measuring == Locations \ {"idle", "power_on"}

\* The drivers believe their flags and switch the sensor on themselves: on no path
\* through errors of earlier reads does a read trigger or fetch from a sensor that
\* is off, and whichever way a read ends, the sensor is off afterwards, unless the
\* last call of power_on() or power_off() failed.  The exception is wider than
\* "always power down after reading": lps22hb_driver_power_on() may fail with the
\* sensor on, and the read then returns without powering it off.
PowerFollowsReads ==
  \A s \in Sensors :
    /\ \A p \in Measuring : At(s, p) => power[s].on
    /\ power[s].on /\ ~Asked(s) => power[s].call # "ok"

\* The pin interrupt of the LPS22HB is enabled only between the trigger of a read
\* and its end, whichever transfer in between fails.
LpsDisarmed == armed => \E p \in {"start", "wait", "disarm", "power_off"} : At("lps", p)

\* No read blocks its thread for ever, not even the one whose data-ready handler
\* is waiting for the same thread.
EveryReadReturns == reader # NoThread ~> reader = NoThread
=============================================================================
