---------------------------- MODULE OneShotProofs ----------------------------
(* Theorems about OneShotSensors, for any threads that satisfy its assumption. *)
EXTENDS OneShotSensors, TLAPS

-----------------------------------------------------------------------------
(* The inductive invariant *)

\* A thread that reads stands in the driver of the first sensor on its list.
ReadInv ==
  /\ reader = NoThread <=> todo = <<>>
  /\ pc = "idle" <=> todo = <<>>
  /\ pc \in {"start", "disarm"} => Head(todo) = "lps"

\* Until a read has timed out, the conversion, its interrupt and its token exist
\* one at a time and only while the read that triggered the conversion waits.
HtsInv ==
  ~timedOut =>
    /\ result["hts"] # "old"
    /\ device["hts"].converting => At("hts", "wait") /\ ~hts_irq /\ hts221_data_ready_sem = 0
    /\ hts_irq =>
         At("hts", "wait") /\ device["hts"].out = "own" /\ hts221_data_ready_sem = 0
    /\ hts221_data_ready_sem = 1 => At("hts", "wait") /\ device["hts"].out = "own"
    /\ At("hts", "fetch") => device["hts"].out = "own"

\* A token that ends a wait is one of the conversion it waits for.
LpsInv ==
  /\ At("lps", "start") => data_ready_sem = 0 /\ ~device["lps"].converting
  /\ interrupt_initialized =>
       /\ result["lps"] # "old"
       /\ At("lps", "wait") /\ data_ready_sem = 1 => device["lps"].out = "own"
       /\ At("lps", "disarm") /\ result["lps"] # "error" => device["lps"].out = "own"
       /\ At("lps", "fetch") => device["lps"].out = "own"

\* A read that is about to power its sensor off has its result.
ResultInv == At("lps", "power_off") => result["lps"] # "none"

\* The flags are behind the switches only where that does no harm; a sensor is on
\* while its read needs it and otherwise only after a call that failed or before the
\* first one.
PowerInv ==
  /\ hts221_enabled => power["hts"].on
  /\ \A p \in Measuring : At("hts", p) => hts221_enabled
  /\ \A p \in Measuring : At("lps", p) => power["lps"].on
  /\ \A s \in Sensors :
       power[s].on => power[s].call # "ok" \/ \E p \in Measuring : At(s, p)

ArmInv == LpsDisarmed /\ (armed => interrupt_initialized)

IInv == OneShotTypeOK /\ ReadInv /\ HtsInv /\ LpsInv /\ ResultInv /\ PowerInv /\ ArmInv

-----------------------------------------------------------------------------
(* The list of sensors still to be read *)

LEMMA Lists ==
  ASSUME NEW u \in Updates \cup {<<>>}
  PROVE  /\ u = <<>> \/ u = <<"hts">> \/ u = <<"lps">> \/ u = <<"hts", "lps">>
         /\ u # <<>> => Head(u) \in Sensors /\ Tail(u) \in Updates \cup {<<>>}
         /\ u # <<>> /\ Head(u) = "lps" => u = <<"lps">> /\ Tail(u) = <<>>
         /\ u # <<>> /\ Head(u) = "hts" => Tail(u) = <<>> \/ Tail(u) = <<"lps">>
  <1>1. CASE u = <<>>
    BY <1>1 DEF Updates, Sensors
  <1>2. CASE u = <<"hts">>
    BY <1>2 DEF Updates, Sensors
  <1>3. CASE u = <<"lps">>
    BY <1>3 DEF Updates, Sensors
  <1>4. CASE u = <<"hts", "lps">>
    BY <1>4 DEF Updates, Sensors
  <1>5. QED
    BY <1>1, <1>2, <1>3, <1>4 DEF Updates

LEMMA InitInv == Init => IInv
  <1> SUFFICES ASSUME Init PROVE IInv
    OBVIOUS
  <1>0. [s \in Sensors |-> [converting |-> FALSE, drdy |-> FALSE, out |-> "old"]]
          \in [Sensors -> Device]
    BY DEF Device
  <1>1. OneShotTypeOK
    <2>1. /\ reader \in Readers \cup {NoThread}
          /\ todo \in Updates \cup {<<>>}
          /\ pc \in Locations
          /\ hts221_data_ready_sem \in 0 .. 1 /\ data_ready_sem \in 0 .. 1
      BY DEF Init, Locations
    <2>2. /\ result \in [Sensors -> {"none", "own", "old", "error"}]
          /\ device \in [Sensors -> Device]
          /\ power \in [Sensors -> Power]
      BY <1>0 DEF Init, Power
    <2>3. /\ hts_trigger \in BOOLEAN /\ hts_irq \in BOOLEAN /\ hts221_enabled \in BOOLEAN
          /\ timedOut \in BOOLEAN
          /\ interrupt_initialized \in BOOLEAN /\ armed \in BOOLEAN
          /\ lps22hb_enabled \in BOOLEAN
      BY DEF Init
    <2>4. QED
      BY <2>1, <2>2, <2>3 DEF OneShotTypeOK
  <1>2. ReadInv /\ ResultInv /\ HtsInv /\ LpsInv /\ PowerInv
    <2>1. \A s \in Sensors : power[s].call = "none"
      BY DEF Init
    <2>2. QED
      BY <2>1 DEF Init, ReadInv, ResultInv, HtsInv, LpsInv, PowerInv, At, Sensors
  <1>3. ArmInv
    BY DEF Init, ArmInv, LpsDisarmed
  <1>4. QED
    BY <1>1, <1>2, <1>3 DEF IInv

-----------------------------------------------------------------------------
(* What every step does to types and to the place of the reader *)

\* How the place of the reader may change in a step of a driver.
LEMMA ReturnType ==
  ASSUME OneShotTypeOK, ReadInv, todo # <<>>, Return
  PROVE  /\ reader' \in Readers \cup {NoThread}
         /\ todo' \in Updates \cup {<<>>} /\ todo' = Tail(todo)
         /\ pc' \in {"idle", "power_on"}
         /\ reader' = NoThread <=> todo' = <<>>
         /\ pc' = "idle" <=> todo' = <<>>
  <1>1. Tail(todo) \in Updates \cup {<<>>}
    BY Lists DEF OneShotTypeOK
  <1>2. CASE Tail(todo) = <<>>
    BY <1>1, <1>2 DEF Return, OneShotTypeOK
  <1>3. CASE Tail(todo) # <<>>
    BY <1>1, <1>3 DEF Return, OneShotTypeOK, ReadInv
  <1>4. QED
    BY <1>2, <1>3

LEMMA DeviceType ==
  ASSUME OneShotTypeOK, NEW s \in Sensors
  PROVE  /\ Converted(s) \in Device /\ Fetched(s) \in Device
         /\ [device EXCEPT ![s].converting = TRUE] \in [Sensors -> Device]
         /\ [device EXCEPT ![s].converting = FALSE] \in [Sensors -> Device]
         /\ [device EXCEPT ![s] = Converted(s)] \in [Sensors -> Device]
         /\ [device EXCEPT ![s] = Fetched(s)] \in [Sensors -> Device]
  <1>1. Converted(s) \in Device /\ Fetched(s) \in Device
    BY DEF OneShotTypeOK, Converted, Fetched, Device
  <1>2. QED
    BY <1>1 DEF OneShotTypeOK, Device

\* Lemma: a call to the power switch keeps its type and touches one sensor.
LEMMA SwitchedType ==
  ASSUME OneShotTypeOK, NEW s \in Sensors, NEW on \in BOOLEAN, NEW call \in {"ok", "error"},
         Switched(s, on, call)
  PROVE  /\ power' \in [Sensors -> Power]
         /\ power'[s] = [on |-> on, call |-> call]
         /\ \A u \in Sensors \ {s} : power'[u] = power[u]
  BY DEF OneShotTypeOK, Switched, Power

\* Lemma: what each step that turns a power switch does to it.
LEMMA PowerSteps ==
  ASSUME OneShotTypeOK
  PROVE  /\ HtsPowerOn \/ HtsPowerOff \/ LpsPowerOn \/ LpsPowerOff =>
              power' \in [Sensors -> Power]
         /\ HtsPowerOn \/ HtsPowerOff => power'["lps"] = power["lps"]
         /\ LpsPowerOn \/ LpsPowerOff => power'["hts"] = power["hts"]
  <1>0. /\ "hts" \in Sensors /\ "lps" \in Sensors /\ "hts" # "lps"
        /\ power["hts"].on \in BOOLEAN /\ power["lps"].on \in BOOLEAN
        /\ hts221_enabled \in BOOLEAN /\ interrupt_initialized \in BOOLEAN
    BY DEF OneShotTypeOK, Sensors, Power
  <1>1. ASSUME HtsPowerOn \/ HtsPowerOff
        PROVE  power' \in [Sensors -> Power] /\ power'["lps"] = power["lps"]
    <2>1. PICK on \in BOOLEAN, call \in {"ok", "error"} : Switched("hts", on, call)
      BY <1>0, <1>1 DEF HtsPowerOn, HtsPowerOff
    <2>2. QED
      BY <1>0, <2>1, SwitchedType
  <1>2. ASSUME LpsPowerOn \/ LpsPowerOff
        PROVE  power' \in [Sensors -> Power] /\ power'["hts"] = power["hts"]
    <2>1. PICK on \in BOOLEAN, call \in {"ok", "error"} : Switched("lps", on, call)
      BY <1>0, <1>2 DEF LpsPowerOn, LpsPowerOff
    <2>2. QED
      BY <1>0, <2>1, SwitchedType
  <1>3. QED
    BY <1>1, <1>2

LEMMA ReadType ==
  ASSUME OneShotTypeOK, ReadInv, NEW t \in Readers, NEW u \in Updates, Read(t, u)
  PROVE  OneShotTypeOK' /\ ReadInv'
  <1>1. u # <<>> /\ u \in Updates \cup {<<>>}
    BY DEF Updates
  <1>2. [s \in Sensors |-> [device[s] EXCEPT !.out = "old"]] \in [Sensors -> Device]
    BY DEF OneShotTypeOK, Device
  <1>3. [s \in Sensors |-> IF \E i \in DOMAIN u : u[i] = s THEN "none" ELSE result[s]]
          \in [Sensors -> {"none", "own", "old", "error"}]
    BY DEF OneShotTypeOK
  <1>4. reader' \in Readers \cup {NoThread} /\ pc' \in Locations
    BY DEF Read, Locations
  <1>5. OneShotTypeOK'
    BY <1>1, <1>2, <1>3, <1>4 DEF OneShotTypeOK, Read, htsVars, lpsVars
  <1>6. ReadInv'
    BY <1>1, ReadersAssumption DEF ReadInv, Read, Readers
  <1>7. QED
    BY <1>5, <1>6

LEMMA HtsType ==
  ASSUME OneShotTypeOK, ReadInv, HtsStep
  PROVE  OneShotTypeOK' /\ ReadInv'
  <1> USE DeviceType, ReturnType, PowerSteps DEF OneShotTypeOK, ReadInv, At, Sensors, Locations
  <1>1. CASE HtsPowerOn
    BY <1>1 DEF HtsPowerOn, Goto, lpsVars
  <1>2. CASE HtsTrigger
    BY <1>2 DEF HtsTrigger, Goto, PowerDown, htsVars, lpsVars
  <1>3. CASE HtsDataReady
    BY <1>3 DEF HtsDataReady, Goto, lpsVars
  <1>4. CASE HtsTimeout
    BY <1>4 DEF HtsTimeout, Goto, PowerDown, lpsVars
  <1>5. CASE HtsFetch
    BY <1>5 DEF HtsFetch, Goto, PowerDown, htsVars, lpsVars, Device
  <1>6. CASE HtsPowerOff
    BY <1>6 DEF HtsPowerOff, lpsVars
  <1>7. QED
    BY <1>1, <1>2, <1>3, <1>4, <1>5, <1>6 DEF HtsStep

LEMMA LpsType ==
  ASSUME OneShotTypeOK, ReadInv, LpsStep
  PROVE  OneShotTypeOK' /\ ReadInv'
  <1> USE DeviceType, ReturnType, PowerSteps DEF OneShotTypeOK, ReadInv, At, Sensors, Locations
  <1>1. CASE LpsPowerOn
    <2>1. /\ todo # <<>> /\ Head(todo) = "lps" /\ UNCHANGED <<device, htsVars>>
          /\ UNCHANGED <<interrupt_initialized, armed, data_ready_sem>>
          /\ power' \in [Sensors -> Power]
      BY <1>1 DEF LpsPowerOn
    <2>2. CASE Goto("trigger")
      <3>1. UNCHANGED <<reader, todo, result>> /\ lps22hb_enabled' \in BOOLEAN /\ pc' = "trigger"
        BY <1>1, <2>1, <2>2 DEF LpsPowerOn, Goto, Return
      <3>2. QED
        BY <2>1, <3>1 DEF htsVars
    <2>3. CASE Return /\ ~Goto("trigger")
      <3>1. /\ result' = [result EXCEPT !["lps"] = "error"]
            /\ lps22hb_enabled' = lps22hb_enabled
        BY <1>1, <2>3 DEF LpsPowerOn
      <3>2. result' \in [Sensors -> {"none", "own", "old", "error"}]
        BY <3>1
      <3>3. QED
        BY <2>1, <2>3, <3>1, <3>2 DEF htsVars
    <2>4. QED
      BY <1>1, <2>2, <2>3 DEF LpsPowerOn
  <1>2. CASE LpsTrigger
    BY <1>2 DEF LpsTrigger, Goto, htsVars
  <1>3. CASE LpsStart
    BY <1>3 DEF LpsStart, Goto, PowerDown, htsVars, lpsVars
  <1>4. CASE LpsSleep
    BY <1>4 DEF LpsSleep, Goto, htsVars, lpsVars
  <1>5. CASE LpsDataReady
    BY <1>5 DEF LpsDataReady, Goto, htsVars
  <1>6. CASE LpsTimeout
    BY <1>6 DEF LpsTimeout, Goto, htsVars, lpsVars
  <1>7. CASE LpsDisarm
    BY <1>7 DEF LpsDisarm, Goto, htsVars
  <1>8. CASE LpsFetch
    BY <1>8 DEF LpsFetch, Goto, PowerDown, htsVars, lpsVars, Device
  <1>9. CASE LpsPowerOff
    BY <1>9 DEF LpsPowerOff, htsVars
  <1>10. QED
    BY <1>1, <1>2, <1>3, <1>4, <1>5, <1>6, <1>7, <1>8, <1>9 DEF LpsStep

LEMMA EnvironmentType ==
  ASSUME OneShotTypeOK, ReadInv, HtsHandler \/ DeviceStep
  PROVE  OneShotTypeOK' /\ ReadInv'
  <1> USE DeviceType DEF OneShotTypeOK, ReadInv, Sensors, readVars, htsVars, lpsVars
  <1>1. CASE HtsHandler
    <2>1. hts_irq' \in BOOLEAN
      <3>1. hts_irq' = FALSE
        BY <1>1 DEF HtsHandler
      <3>2. QED
        BY ONLY <3>1
    <2>2. hts221_data_ready_sem' \in 0 .. 1
      BY <1>1 DEF HtsHandler
    <2>3. UNCHANGED <<readVars, device, hts_trigger, hts221_enabled, timedOut, lpsVars>>
      BY <1>1 DEF HtsHandler
    <2>4. QED
      BY <2>1, <2>2, <2>3
  <1>2. CASE HtsConverted
    BY <1>2 DEF HtsConverted
  <1>3. CASE LpsConverted
    BY <1>3 DEF LpsConverted
  <1>4. CASE \E s \in Sensors : ConversionLost(s)
    <2>1. PICK s \in Sensors : ConversionLost(s)
      BY <1>4
    <2>2. device' \in [Sensors -> Device]
      BY <2>1 DEF ConversionLost
    <2>3. UNCHANGED <<readVars, htsVars, lpsVars>>
      BY <2>1 DEF ConversionLost
    <2>4. QED
      BY <2>2, <2>3
  <1>5. QED
    BY <1>1, <1>2, <1>3, <1>4 DEF DeviceStep

-----------------------------------------------------------------------------
(* HTS221: conversion, interrupt and token *)

LEMMA HtsInvHts ==
  ASSUME OneShotTypeOK, ReadInv, HtsInv, HtsStep
  PROVE  HtsInv'
  <1> USE ReturnType DEF OneShotTypeOK, HtsInv, At, Sensors, Device
  <1>1. CASE HtsPowerOn
    BY <1>1 DEF HtsPowerOn, Goto, lpsVars
  <1>2. CASE HtsTrigger
    BY <1>2 DEF HtsTrigger, Goto, PowerDown, htsVars, lpsVars
  <1>3. CASE HtsDataReady
    BY <1>3 DEF HtsDataReady, Goto, lpsVars
  <1>4. CASE HtsTimeout
    BY <1>4 DEF HtsTimeout
  <1>5. CASE HtsFetch
    BY <1>5 DEF HtsFetch, Goto, PowerDown, htsVars, lpsVars, Fetched
  <1>6. CASE HtsPowerOff
    BY <1>6 DEF HtsPowerOff, lpsVars
  <1>7. QED
    BY <1>1, <1>2, <1>3, <1>4, <1>5, <1>6 DEF HtsStep

\* No step of the LPS22HB's driver touches what belongs to the HTS221, and the
\* reader is not in the HTS221's driver then.
LEMMA LpsLeavesHts ==
  ASSUME OneShotTypeOK, ReadInv, LpsStep
  PROVE  /\ UNCHANGED htsVars /\ result'["hts"] = result["hts"]
         /\ device'["hts"] = device["hts"] /\ power'["hts"] = power["hts"]
         /\ \A p \in Locations : ~At("hts", p)
         /\ \A p \in Locations \ {"idle", "power_on"} : ~At("hts", p)'
  <1> USE ReturnType, PowerSteps DEF OneShotTypeOK, At, Sensors, Locations, htsVars
  <1>1. CASE LpsPowerOn
    BY <1>1 DEF LpsPowerOn, Goto
  <1>2. CASE LpsTrigger
    BY <1>2 DEF LpsTrigger, Goto
  <1>3. CASE LpsStart
    BY <1>3 DEF LpsStart, Goto, PowerDown, lpsVars
  <1>4. CASE LpsSleep
    BY <1>4 DEF LpsSleep, Goto, lpsVars
  <1>5. CASE LpsDataReady
    BY <1>5 DEF LpsDataReady, Goto
  <1>6. CASE LpsTimeout
    BY <1>6 DEF LpsTimeout, Goto, lpsVars
  <1>7. CASE LpsDisarm
    BY <1>7 DEF LpsDisarm, Goto
  <1>8. CASE LpsFetch
    BY <1>8 DEF LpsFetch, Goto, PowerDown, lpsVars
  <1>9. CASE LpsPowerOff
    BY <1>9 DEF LpsPowerOff
  <1>10. QED
    BY <1>1, <1>2, <1>3, <1>4, <1>5, <1>6, <1>7, <1>8, <1>9 DEF LpsStep

LEMMA HtsInvEnvironment ==
  ASSUME OneShotTypeOK, ReadInv, HtsInv, HtsHandler \/ DeviceStep
  PROVE  HtsInv'
  <1> USE DEF OneShotTypeOK, HtsInv, At, Sensors, Device, readVars, htsVars, lpsVars
  <1>1. CASE HtsHandler
    BY <1>1 DEF HtsHandler
  <1>2. CASE HtsConverted
    BY <1>2 DEF HtsConverted, Converted, Triggered
  <1>3. CASE LpsConverted
    BY <1>3 DEF LpsConverted
  <1>4. CASE \E s \in Sensors : ConversionLost(s)
    BY <1>4 DEF ConversionLost
  <1>5. QED
    BY <1>1, <1>2, <1>3, <1>4 DEF DeviceStep

-----------------------------------------------------------------------------
(* LPS22HB: conversion and token *)

LEMMA LpsInvLps ==
  ASSUME OneShotTypeOK, ReadInv, LpsInv, ResultInv, ArmInv, LpsStep
  PROVE  LpsInv' /\ ResultInv'
  <1> USE ReturnType DEF OneShotTypeOK, LpsInv, ResultInv, At, Sensors, Device
  <1>1. CASE LpsPowerOn
    BY <1>1 DEF LpsPowerOn, Goto, htsVars
  <1>2. CASE LpsTrigger
    BY <1>2 DEF LpsTrigger, Goto, htsVars, Fetched
  <1>3. CASE LpsStart
    BY <1>3 DEF LpsStart, Goto, PowerDown, htsVars, lpsVars
  <1>4. CASE LpsSleep
    BY <1>4 DEF LpsSleep, Goto, htsVars, lpsVars
  <1>5. CASE LpsDataReady
    BY <1>5 DEF LpsDataReady, Goto, htsVars
  <1>6. CASE LpsTimeout
    BY <1>6 DEF LpsTimeout, Goto, htsVars, lpsVars
  <1>7. CASE LpsDisarm
    BY <1>7 DEF LpsDisarm, Goto, htsVars
  <1>8. CASE LpsFetch
    BY <1>8 DEF LpsFetch, Goto, PowerDown, htsVars, lpsVars, Fetched
  <1>9. CASE LpsPowerOff
    BY <1>9 DEF LpsPowerOff, htsVars
  <1>10. QED
    BY <1>1, <1>2, <1>3, <1>4, <1>5, <1>6, <1>7, <1>8, <1>9 DEF LpsStep

\* The same for a step of the HTS221's driver.
LEMMA HtsLeavesLps ==
  ASSUME OneShotTypeOK, ReadInv, HtsStep
  PROVE  /\ UNCHANGED lpsVars /\ result'["lps"] = result["lps"]
         /\ device'["lps"] = device["lps"] /\ power'["lps"] = power["lps"]
         /\ \A p \in Locations : ~At("lps", p)
         /\ \A p \in Locations \ {"idle", "power_on"} : ~At("lps", p)'
  <1> USE ReturnType, PowerSteps DEF OneShotTypeOK, At, Sensors, Locations, lpsVars
  <1>1. CASE HtsPowerOn
    BY <1>1 DEF HtsPowerOn, Goto
  <1>2. CASE HtsTrigger
    BY <1>2 DEF HtsTrigger, Goto, PowerDown, htsVars
  <1>3. CASE HtsDataReady
    BY <1>3 DEF HtsDataReady, Goto
  <1>4. CASE HtsTimeout
    BY <1>4 DEF HtsTimeout, Goto, PowerDown
  <1>5. CASE HtsFetch
    BY <1>5 DEF HtsFetch, Goto, PowerDown, htsVars
  <1>6. CASE HtsPowerOff
    BY <1>6 DEF HtsPowerOff
  <1>7. QED
    BY <1>1, <1>2, <1>3, <1>4, <1>5, <1>6 DEF HtsStep

LEMMA LpsInvEnvironment ==
  ASSUME OneShotTypeOK, ReadInv, LpsInv, ResultInv, HtsHandler \/ DeviceStep
  PROVE  LpsInv' /\ ResultInv'
  <1> USE DEF OneShotTypeOK, LpsInv, ResultInv, At, Sensors, Device, readVars, htsVars, lpsVars
  <1>1. CASE HtsHandler
    BY <1>1 DEF HtsHandler
  <1>2. CASE HtsConverted
    BY <1>2 DEF HtsConverted
  <1>3. CASE LpsConverted
    BY <1>3 DEF LpsConverted, Converted, Triggered
  <1>4. CASE \E s \in Sensors : ConversionLost(s)
    BY <1>4 DEF ConversionLost
  <1>5. QED
    BY <1>1, <1>2, <1>3, <1>4 DEF DeviceStep

-----------------------------------------------------------------------------
(* Power and the pin interrupt *)

LEMMA PowerInvHts ==
  ASSUME OneShotTypeOK, ReadInv, PowerInv, HtsStep
  PROVE  PowerInv'
  <1> USE DEF OneShotTypeOK, At, Measuring, Locations, Power
  <1>0. "hts" \in Sensors /\ "lps" \in Sensors /\ Sensors = {"hts", "lps"}
    BY DEF Sensors
  <1>1. /\ \A p \in Measuring : ~At("lps", p)'
        /\ power'["lps"] = power["lps"] /\ ~\E p \in Measuring : At("lps", p)
    BY HtsLeavesLps
  <1>2. /\ hts221_enabled' => power'["hts"].on
        /\ \A p \in Measuring : At("hts", p)' => hts221_enabled'
        /\ power'["hts"].on => power'["hts"].call # "ok" \/ \E p \in Measuring : At("hts", p)'
    <2> USE <1>0 DEF PowerInv
    <2>1. CASE HtsPowerOn
      <3>1. PICK on \in BOOLEAN, call \in {"ok", "error"} :
              /\ Switched("hts", on, call)
              /\ \/ /\ hts221_enabled' = TRUE /\ Goto("trigger")
                    /\ on = (~hts221_enabled \/ power["hts"].on)
                 \/ /\ hts221_enabled' = FALSE /\ Return /\ call = "error"
        BY <2>1 DEF HtsPowerOn
      <3>2. power'["hts"] = [on |-> on, call |-> call]
        BY <1>0, <3>1 DEF Switched
      <3>3. CASE Goto("trigger")
        <4>1. pc' = "trigger" /\ todo' = todo /\ todo # <<>> /\ Head(todo) = "hts"
          BY <2>1, <3>3 DEF HtsPowerOn, Goto
        <4>2. At("hts", "trigger")' /\ "trigger" \in Measuring
          BY <4>1
        <4>3. hts221_enabled' = TRUE /\ on = TRUE
          BY <2>1, <3>1, <4>1 DEF Return, HtsPowerOn
        <4>4. QED
          BY <3>2, <4>2, <4>3
      <3>4. CASE ~Goto("trigger")
        <4>1. hts221_enabled' = FALSE /\ call = "error" /\ pc' \in {"idle", "power_on"}
          BY <2>1, <3>1, <3>4, ReturnType DEF HtsPowerOn
        <4>2. \A p \in Measuring : ~At("hts", p)'
          BY <4>1
        <4>3. QED
          BY <3>2, <4>1, <4>2
      <3>5. QED
        BY <3>3, <3>4
    <2>2. CASE HtsTrigger
      BY <2>2 DEF HtsTrigger, Goto, PowerDown, htsVars
    <2>3. CASE HtsDataReady
      BY <2>3 DEF HtsDataReady, Goto
    <2>4. CASE HtsTimeout
      BY <2>4 DEF HtsTimeout, Goto, PowerDown
    <2>5. CASE HtsFetch
      BY <2>5 DEF HtsFetch, Goto, PowerDown, htsVars
    <2>6. CASE HtsPowerOff
      <3>1. hts221_enabled /\ power["hts"].on
        BY <2>6 DEF HtsPowerOff
      <3>2. PICK ok \in BOOLEAN :
              /\ hts221_enabled' = (hts221_enabled /\ ~ok)
              /\ Switched("hts", power["hts"].on /\ ~(hts221_enabled /\ ok),
                          IF ok THEN "ok" ELSE "error")
        BY <2>6 DEF HtsPowerOff
      <3>3. hts221_enabled' = ~ok /\ Switched("hts", ~ok, IF ok THEN "ok" ELSE "error")
        BY <3>1, <3>2
      <3>4. power'["hts"] = [on |-> ~ok, call |-> IF ok THEN "ok" ELSE "error"]
        BY <3>3, SwitchedType
      <3>5. \A p \in Measuring : ~At("hts", p)'
        <4>1. todo # <<>> /\ Return
          BY <2>6 DEF HtsPowerOff
        <4>2. pc' \in {"idle", "power_on"}
          BY <4>1, ReturnType
        <4>3. QED
          BY <4>2
      <3>6. CASE ok = TRUE
        <4>1. power'["hts"] = [on |-> FALSE, call |-> "ok"] /\ hts221_enabled' = FALSE
          BY <3>3, <3>4, <3>6
        <4>2. ~power'["hts"].on
          BY <4>1
        <4>3. QED
          BY <3>5, <4>1, <4>2
      <3>7. CASE ok = FALSE
        <4>1. power'["hts"] = [on |-> TRUE, call |-> "error"] /\ hts221_enabled' = TRUE
          BY <3>3, <3>4, <3>7
        <4>2. power'["hts"].on = TRUE /\ power'["hts"].call = "error"
          BY <4>1
        <4>3. QED
          BY <3>5, <4>1, <4>2
      <3>8. QED
        BY <3>6, <3>7
    <2>7. QED
      BY <2>1, <2>2, <2>3, <2>4, <2>5, <2>6 DEF HtsStep
  <1>3. QED
    BY <1>0, <1>1, <1>2 DEF PowerInv

LEMMA PowerInvLps ==
  ASSUME OneShotTypeOK, ReadInv, PowerInv, LpsStep
  PROVE  PowerInv'
  <1> USE DEF OneShotTypeOK, At, Measuring, Locations, Power
  <1>0. "hts" \in Sensors /\ "lps" \in Sensors /\ Sensors = {"hts", "lps"}
    BY DEF Sensors
  <1>1. /\ \A p \in Measuring : ~At("hts", p)'
        /\ power'["hts"] = power["hts"] /\ ~\E p \in Measuring : At("hts", p)
        /\ hts221_enabled' = hts221_enabled
    BY LpsLeavesHts DEF htsVars
  <1>2. /\ \A p \in Measuring : At("lps", p)' => power'["lps"].on
        /\ power'["lps"].on => power'["lps"].call # "ok" \/ \E p \in Measuring : At("lps", p)'
    <2> USE <1>0 DEF PowerInv
    <2>1. CASE LpsPowerOn
      <3>1. PICK on \in BOOLEAN, call \in {"ok", "error"} :
              /\ Switched("lps", on, call)
              /\ (Goto("trigger") /\ on = TRUE) \/ (Return /\ call = "error")
        BY <2>1 DEF LpsPowerOn
      <3>2. power'["lps"] = [on |-> on, call |-> call]
        BY <1>0, <3>1 DEF Switched
      <3>3. CASE Goto("trigger") /\ on = TRUE
        <4>1. pc' = "trigger" /\ todo' = todo /\ todo # <<>> /\ Head(todo) = "lps"
          BY <2>1, <3>3 DEF LpsPowerOn, Goto
        <4>2. At("lps", "trigger")' /\ "trigger" \in Measuring
          BY <4>1
        <4>3. QED
          BY <3>2, <3>3, <4>2
      <3>4. CASE Return /\ call = "error"
        <4>1. pc' \in {"idle", "power_on"}
          BY <2>1, <3>4, ReturnType DEF LpsPowerOn
        <4>2. \A p \in Measuring : ~At("lps", p)'
          BY <4>1
        <4>3. QED
          BY <3>2, <3>4, <4>2
      <3>5. QED
        BY <3>1, <3>3, <3>4
    <2>2. CASE LpsTrigger
      BY <2>2 DEF LpsTrigger, Goto
    <2>3. CASE LpsStart
      BY <2>3 DEF LpsStart, Goto, PowerDown
    <2>4. CASE LpsSleep
      BY <2>4 DEF LpsSleep, Goto
    <2>5. CASE LpsDataReady
      BY <2>5 DEF LpsDataReady, Goto
    <2>6. CASE LpsTimeout
      BY <2>6 DEF LpsTimeout, Goto
    <2>7. CASE LpsDisarm
      BY <2>7 DEF LpsDisarm, Goto
    <2>8. CASE LpsFetch
      BY <2>8 DEF LpsFetch, Goto, PowerDown
    <2>9. CASE LpsPowerOff
      <3>1. power["lps"].on
        BY <2>9 DEF LpsPowerOff
      <3>2. PICK ok \in BOOLEAN :
              Switched("lps", power["lps"].on /\ ~ok, IF ok THEN "ok" ELSE "error")
        BY <2>9 DEF LpsPowerOff
      <3>3. Switched("lps", ~ok, IF ok THEN "ok" ELSE "error")
        BY <3>1, <3>2
      <3>4. power'["lps"] = [on |-> ~ok, call |-> IF ok THEN "ok" ELSE "error"]
        BY <3>3, SwitchedType
      <3>5. \A p \in Measuring : ~At("lps", p)'
        <4>1. todo # <<>> /\ Return
          BY <2>9 DEF LpsPowerOff
        <4>2. pc' \in {"idle", "power_on"}
          BY <4>1, ReturnType
        <4>3. QED
          BY <4>2
      <3>6. CASE ok = TRUE
        <4>1. power'["lps"] = [on |-> FALSE, call |-> "ok"]
          BY <3>4, <3>6
        <4>2. ~power'["lps"].on
          BY <4>1
        <4>3. QED
          BY <3>5, <4>1, <4>2
      <3>7. CASE ok = FALSE
        <4>1. power'["lps"] = [on |-> TRUE, call |-> "error"]
          BY <3>4, <3>7
        <4>2. power'["lps"].on = TRUE /\ power'["lps"].call = "error"
          BY <4>1
        <4>3. QED
          BY <3>5, <4>1, <4>2
      <3>8. QED
        BY <3>6, <3>7
    <2>10. QED
      BY <2>1, <2>2, <2>3, <2>4, <2>5, <2>6, <2>7, <2>8, <2>9 DEF LpsStep
  <1>3. QED
    BY <1>0, <1>1, <1>2 DEF PowerInv

LEMMA ArmInvLps ==
  ASSUME OneShotTypeOK, ReadInv, ArmInv, LpsStep
  PROVE  ArmInv'
  <1> USE DEF OneShotTypeOK, ArmInv, LpsDisarmed, At, Locations
  <1>1. CASE LpsPowerOn
    BY <1>1 DEF LpsPowerOn
  <1>2. CASE LpsTrigger
    BY <1>2 DEF LpsTrigger, Goto
  <1>3. CASE LpsStart
    BY <1>3 DEF LpsStart, Goto, PowerDown, lpsVars
  <1>4. CASE LpsSleep
    BY <1>4 DEF LpsSleep, Goto, lpsVars
  <1>5. CASE LpsDataReady
    BY <1>5 DEF LpsDataReady, Goto
  <1>6. CASE LpsTimeout
    BY <1>6 DEF LpsTimeout, Goto, lpsVars
  <1>7. CASE LpsDisarm
    BY <1>7 DEF LpsDisarm
  <1>8. CASE LpsFetch
    BY <1>8 DEF LpsFetch, lpsVars
  <1>9. CASE LpsPowerOff
    BY <1>9 DEF LpsPowerOff
  <1>10. QED
    BY <1>1, <1>2, <1>3, <1>4, <1>5, <1>6, <1>7, <1>8, <1>9 DEF LpsStep

-----------------------------------------------------------------------------
(* Every step *)

LEMMA InvRead ==
  ASSUME IInv, NEW t \in Readers, NEW u \in Updates, Read(t, u)
  PROVE  IInv'
  <1> USE DEF IInv
  <1>1. OneShotTypeOK' /\ ReadInv'
    BY ReadType
  <1>2. todo = <<>> /\ pc' = "power_on"
    BY DEF Read, ReadInv
  <1>3. /\ result'["hts"] \in {"none", result["hts"]} /\ result'["lps"] \in {"none", result["lps"]}
        /\ \A s \in Sensors : device'[s].converting = device[s].converting
        /\ UNCHANGED <<power, htsVars, lpsVars>>
    BY DEF Read, Sensors, OneShotTypeOK, Device
  <1>4. HtsInv'
    BY <1>2, <1>3 DEF HtsInv, At, htsVars, Sensors
  <1>5. LpsInv' /\ ResultInv'
    BY <1>2, <1>3 DEF LpsInv, ResultInv, At, lpsVars
  <1>6. PowerInv' /\ ArmInv'
    BY <1>2, <1>3 DEF PowerInv, Measuring, ArmInv, LpsDisarmed, At, htsVars, lpsVars
  <1>7. QED
    BY <1>1, <1>4, <1>5, <1>6

LEMMA InvHts ==
  ASSUME IInv, HtsStep
  PROVE  IInv'
  <1> USE DEF IInv
  <1>1. OneShotTypeOK' /\ ReadInv'
    BY HtsType
  <1>2. HtsInv'
    BY HtsInvHts
  <1>3. LpsInv' /\ ResultInv' /\ ArmInv'
    BY HtsLeavesLps DEF LpsInv, ResultInv, ArmInv, LpsDisarmed, lpsVars, Locations
  <1>4. PowerInv'
    BY PowerInvHts
  <1>5. QED
    BY <1>1, <1>2, <1>3, <1>4

LEMMA InvLps ==
  ASSUME IInv, LpsStep
  PROVE  IInv'
  <1> USE DEF IInv
  <1>1. OneShotTypeOK' /\ ReadInv'
    BY LpsType
  <1>2. HtsInv'
    BY LpsLeavesHts DEF HtsInv, htsVars, Locations
  <1>3. LpsInv' /\ ResultInv'
    BY LpsInvLps
  <1>4. PowerInv'
    BY PowerInvLps
  <1>5. ArmInv'
    BY ArmInvLps
  <1>6. QED
    BY <1>1, <1>2, <1>3, <1>4, <1>5

LEMMA InvEnvironment ==
  ASSUME IInv, HtsHandler \/ DeviceStep
  PROVE  IInv'
  <1> USE DEF IInv
  <1>1. OneShotTypeOK' /\ ReadInv'
    BY EnvironmentType
  <1>2. HtsInv'
    BY HtsInvEnvironment
  <1>3. LpsInv' /\ ResultInv'
    BY LpsInvEnvironment
  <1>4. UNCHANGED <<readVars, hts221_enabled, lps22hb_enabled, armed, interrupt_initialized>>
    BY DEF HtsHandler, DeviceStep, HtsConverted, LpsConverted, ConversionLost, htsVars, lpsVars
  <1>5. PowerInv' /\ ArmInv'
    BY <1>4 DEF PowerInv, ArmInv, LpsDisarmed, At, readVars
  <1>6. QED
    BY <1>1, <1>2, <1>3, <1>5

LEMMA NextInv ==
  ASSUME IInv, [Next]_vars
  PROVE  IInv'
  <1>1. CASE Next
    BY <1>1, InvRead, InvHts, InvLps, InvEnvironment DEF Next
  <1>2. CASE UNCHANGED vars
    BY <1>2 DEF vars, readVars, htsVars, lpsVars, IInv, OneShotTypeOK, ReadInv, HtsInv, LpsInv,
       ResultInv, PowerInv, ArmInv, LpsDisarmed, At
  <1>3. QED
    BY <1>1, <1>2

LEMMA Invariant == Spec => []IInv
  <1>1. Init => IInv
    BY InitInv
  <1>2. IInv /\ [Next]_vars => IInv'
    BY NextInv
  <1>3. QED
    BY <1>1, <1>2, PTL DEF Spec

-----------------------------------------------------------------------------
(* Theorems *)

\* Every variable of the two drivers keeps its type; the semaphores never count
\* beyond 1.
THEOREM TypeCorrect == Spec => []OneShotTypeOK
  <1>1. IInv => OneShotTypeOK
    BY DEF IInv
  <1>2. QED
    BY <1>1, Invariant, PTL

\* Until a read of the HTS221 times out, every sample it returns is its own.
THEOREM HtsOwnUntilTimeoutHolds == Spec => []HtsOwnUntilTimeout
  <1>1. IInv => HtsOwnUntilTimeout
    BY DEF IInv, HtsInv, HtsOwnUntilTimeout
  <1>2. QED
    BY <1>1, Invariant, PTL

\* A read triggers and fetches only from a sensor that is on, whatever errors of
\* earlier reads its driver's flag has been through, and between two reads a sensor
\* is on only if the last call of power_on() or power_off() failed
\* (sensor_hts221_driver.c:87-135, sensor_lps22hb_driver.c:132-184, 260-293).
THEOREM PowerFollowsReadsHolds == Spec => []PowerFollowsReads
  <1>1. ASSUME IInv, NEW s \in Sensors, NEW p \in Locations, At(s, p)
        PROVE  Asked(s)
    <2>1. todo # <<>> /\ Head(todo) = s /\ todo \in Updates \cup {<<>>}
      BY <1>1 DEF At, IInv, OneShotTypeOK
    <2>2. CASE todo = <<"hts">>
      BY <2>1, <2>2 DEF Asked
    <2>3. CASE todo = <<"lps">>
      BY <2>1, <2>3 DEF Asked
    <2>4. CASE todo = <<"hts", "lps">>
      BY <2>1, <2>4 DEF Asked
    <2>5. QED
      BY <2>1, <2>2, <2>3, <2>4, Lists
  <1>2. IInv => PowerFollowsReads
    BY <1>1 DEF IInv, PowerInv, PowerFollowsReads, Measuring, Sensors
  <1>3. QED
    BY <1>2, Invariant, PTL

\* The LPS22HB's pin interrupt is enabled only from the trigger of a read to its
\* end.
THEOREM LpsDisarmedHolds == Spec => []LpsDisarmed
  <1>1. IInv => LpsDisarmed
    BY DEF IInv, ArmInv
  <1>2. QED
    BY <1>1, Invariant, PTL

-----------------------------------------------------------------------------
(* The LPS22HB's driver implements Measurement *)

LEMMA AskedLps ==
  ASSUME NEW u \in Updates \cup {<<>>}
  PROVE  /\ (\E i \in DOMAIN u : u[i] = "lps") <=> u \in {<<"lps">>, <<"hts", "lps">>}
         /\ u # <<>> /\ Head(u) = "hts" =>
              ((\E i \in DOMAIN Tail(u) : Tail(u)[i] = "lps") <=> \E i \in DOMAIN u : u[i] = "lps")
  <1>1. CASE u = <<>>
    BY <1>1
  <1>2. CASE u = <<"hts">>
    BY <1>2
  <1>3. CASE u = <<"lps">>
    BY <1>3
  <1>4. CASE u = <<"hts", "lps">>
    BY <1>4
  <1>5. QED
    BY <1>1, <1>2, <1>3, <1>4, Lists

\* A step that leaves the LPS22HB's place and result alone is a stutter.
LEMMA StutterStep ==
  ASSUME UNCHANGED interrupt_initialized, Asked("lps")' = Asked("lps"),
         ~Asked("lps") => UNCHANGED result["lps"]
  PROVE  UNCHANGED Lps!vars
  BY DEF Lps!vars

LEMMA ReadAsks ==
  ASSUME IInv, NEW t \in Readers, NEW u \in Updates, Read(t, u)
  PROVE  [Lps!Next]_Lps!vars
  <1>1. ~Asked("lps") /\ todo' = u /\ UNCHANGED interrupt_initialized
    BY DEF Read, Asked, IInv, ReadInv, lpsVars
  <1>2. CASE \E i \in DOMAIN u : u[i] = "lps"
    <2>1. Asked("lps")'
      BY <1>1, <1>2 DEF Asked
    <2>2. QED
      BY <1>1, <2>1 DEF Lps!Next, Lps!Ask
  <1>3. CASE ~\E i \in DOMAIN u : u[i] = "lps"
    <2>1. ~Asked("lps")'
      BY <1>1, <1>3 DEF Asked
    <2>2. result'["lps"] = result["lps"]
      BY <1>3 DEF Read, Sensors, IInv, OneShotTypeOK
    <2>3. QED
      <3>1. Asked("lps")' = Asked("lps")
        BY <1>1, <2>1 DEF Asked
      <3>2. QED
        BY <1>1, <2>2, <3>1, StutterStep
  <1>4. QED
    BY <1>2, <1>3

\* The driver's return is the answer; everything before it is internal.
LEMMA LpsStepAnswers ==
  ASSUME IInv, LpsStep
  PROVE  [Lps!Next]_Lps!vars
  <1>1. /\ todo \in Updates \cup {<<>>} /\ todo # <<>> /\ Head(todo) = "lps"
        /\ UNCHANGED interrupt_initialized
    BY DEF IInv, OneShotTypeOK, LpsStep, LpsPowerOn, LpsTrigger, LpsStart, LpsSleep, LpsDataReady,
       LpsTimeout, LpsDisarm, LpsFetch, LpsPowerOff, At, lpsVars
  <1>2. todo = <<"lps">> /\ Tail(todo) = <<>>
    BY <1>1, Lists
  <1>3. Asked("lps")
    BY <1>2 DEF Asked
  <1>4. CASE UNCHANGED todo
    BY <1>1, <1>3, <1>4, StutterStep DEF Asked
  <1>5. CASE Return
    <2>1. ~Asked("lps")'
      BY <1>2, <1>5 DEF Return, Asked
    <2>2. result'["lps"] \in {"own", "error"} \cup (IF interrupt_initialized THEN {} ELSE {"old"})
      <3>1. CASE LpsPowerOn
        BY <1>5, <3>1 DEF LpsPowerOn, Goto, Return, IInv, OneShotTypeOK, Sensors, ReadInv
      <3>2. CASE LpsPowerOff
        BY <3>2 DEF LpsPowerOff, At, IInv, OneShotTypeOK, Sensors, LpsInv, ResultInv
      <3>3. CASE ~LpsPowerOn /\ ~LpsPowerOff
        BY <1>2, <1>5, <3>3 DEF LpsStep, LpsTrigger, LpsStart, LpsSleep, LpsDataReady, LpsTimeout,
           LpsDisarm, LpsFetch, Goto, PowerDown, Return
      <3>4. QED
        BY <3>1, <3>2, <3>3
    <2>3. QED
      BY <1>1, <1>3, <2>1, <2>2 DEF Lps!Next, Lps!Answer, Lps!Promised
  <1>6. QED
    BY <1>4, <1>5 DEF LpsStep, LpsPowerOn, LpsTrigger, LpsStart, LpsSleep, LpsDataReady,
       LpsTimeout, LpsDisarm, LpsFetch, LpsPowerOff, Goto, PowerDown

LEMMA OtherStepsStutter ==
  ASSUME IInv, HtsStep \/ HtsHandler \/ DeviceStep
  PROVE  UNCHANGED Lps!vars
  <1>1. CASE HtsStep
    <2>1. todo # <<>> /\ Head(todo) = "hts" /\ todo \in Updates \cup {<<>>}
      BY <1>1 DEF IInv, OneShotTypeOK, HtsStep, HtsPowerOn, HtsTrigger, HtsDataReady, HtsTimeout,
         HtsFetch, HtsPowerOff, At
    <2>2. todo' = todo \/ todo' = Tail(todo)
      BY <1>1 DEF HtsStep, HtsPowerOn, HtsTrigger, HtsDataReady, HtsTimeout,
         HtsFetch, HtsPowerOff, Goto, PowerDown, Return
    <2>3. Asked("lps")' = Asked("lps")
      BY <2>1, <2>2, AskedLps DEF Asked
    <2>4. UNCHANGED interrupt_initialized /\ result'["lps"] = result["lps"]
      BY <1>1, HtsLeavesLps DEF IInv, lpsVars
    <2>5. QED
      BY <2>3, <2>4, StutterStep
  <1>2. CASE HtsHandler \/ DeviceStep
    <2>1. UNCHANGED <<todo, result, interrupt_initialized>>
      BY <1>2 DEF HtsHandler, DeviceStep, HtsConverted, LpsConverted, ConversionLost, readVars,
         htsVars, lpsVars
    <2>2. QED
      BY <2>1, StutterStep DEF Asked
  <1>3. QED
    BY <1>1, <1>2

\* The pressure driver keeps the promise of a one-shot sensor: with its interrupt
\* every answer is an error or a sample converted after the request's trigger.
THEOREM LpsMeasuresHolds == Spec => LpsMeasures
  <1>1. Init => Lps!Init
    BY DEF Init, Lps!Init, Asked, Sensors
  <1>2. IInv /\ [Next]_vars => [Lps!Next]_Lps!vars
    <2> SUFFICES ASSUME IInv, [Next]_vars PROVE [Lps!Next]_Lps!vars
      OBVIOUS
    <2>1. CASE Next
      BY <2>1, ReadAsks, LpsStepAnswers, OtherStepsStutter DEF Next
    <2>2. CASE UNCHANGED vars
      BY <2>2, StutterStep DEF vars, readVars, lpsVars, Asked
    <2>3. QED
      BY <2>1, <2>2
  <1>3. QED
    BY <1>1, <1>2, Invariant, PTL DEF Spec, LpsMeasures, Lps!Spec

-----------------------------------------------------------------------------
(* Every read comes to its end *)

\* The longest way from a location to the return of the driver.
Ahead == [idle |-> 0, power_off |-> 1, fetch |-> 2, disarm |-> 3, wait |-> 4, start |-> 5,
          trigger |-> 6, power_on |-> 7]

Remaining == 7 * (IF todo = <<"hts", "lps">> THEN 1 ELSE 0) + Ahead[pc]

\* A step of a driver brings the read closer to its end and no other step, a
\* late handler or conversion, takes it back.
ReadDescends ==
  [][todo # <<>> => /\ Remaining' <= Remaining
                    /\ HtsStep \/ LpsStep => Remaining' < Remaining]_vars

LEMMA Distances ==
  ASSUME NEW p \in Locations
  PROVE  /\ Ahead[p] \in 0 .. 7
         /\ p \notin {"idle"} => Ahead[p] > 0
         /\ Ahead["idle"] = 0 /\ Ahead["power_off"] = 1 /\ Ahead["fetch"] = 2
         /\ Ahead["disarm"] = 3 /\ Ahead["wait"] = 4 /\ Ahead["start"] = 5
         /\ Ahead["trigger"] = 6 /\ Ahead["power_on"] = 7
  BY DEF Ahead, Locations

LEMMA GotoDescends ==
  ASSUME NEW p \in Locations, Goto(p), pc \in Locations, Ahead[p] < Ahead[pc]
  PROVE  Remaining' < Remaining
  <1>1. pc' = p /\ todo' = todo
    BY DEF Goto
  <1>2. Remaining' = 7 * (IF todo = <<"hts", "lps">> THEN 1 ELSE 0) + Ahead[p]
    BY <1>1 DEF Remaining, Ahead
  <1>3. QED
    BY <1>2, Distances DEF Remaining

\* The last sensor's return ends the read, another's is followed by one read.
LEMMA ReturnDescends ==
  ASSUME OneShotTypeOK, ReadInv, todo # <<>>, Return
  PROVE  Remaining' < Remaining
  <1>0. pc \in Locations /\ pc # "idle" /\ Ahead[pc] \in 1 .. 7
    BY Distances DEF OneShotTypeOK, ReadInv
  <1>1. todo = <<"hts">> \/ todo = <<"lps">> \/ todo = <<"hts", "lps">>
    BY Lists DEF OneShotTypeOK
  <1>2. CASE todo # <<"hts", "lps">>
    <2>1. Tail(<<"hts">>) = <<>> /\ Tail(<<"lps">>) = <<>>
      OBVIOUS
    <2>2. Tail(todo) = <<>>
      BY <1>1, <1>2, <2>1
    <2>3. todo' = <<>> /\ pc' = "idle"
      BY <2>2 DEF Return
    <2>4. Remaining' = 0
      BY <2>3 DEF Remaining, Ahead
    <2>5. QED
      BY <1>0, <1>2, <2>4 DEF Remaining
  <1>3. CASE todo = <<"hts", "lps">>
    <2>1. Tail(todo) = <<"lps">>
      BY <1>3
    <2>2. todo' = <<"lps">> /\ pc' = "power_on"
      BY <2>1 DEF Return
    <2>3. Remaining' = 7
      BY <2>2 DEF Remaining, Ahead
    <2>4. QED
      BY <1>0, <1>3, <2>3 DEF Remaining
  <1>4. QED
    BY <1>2, <1>3

LEMMA HtsDescends ==
  ASSUME OneShotTypeOK, ReadInv, HtsStep
  PROVE  Remaining' < Remaining
  <1> USE Distances, GotoDescends, ReturnDescends DEF OneShotTypeOK, At, PowerDown, Locations
  <1>1. CASE HtsPowerOn
    BY <1>1 DEF HtsPowerOn
  <1>2. CASE HtsTrigger
    BY <1>2 DEF HtsTrigger
  <1>3. CASE HtsDataReady
    BY <1>3 DEF HtsDataReady
  <1>4. CASE HtsTimeout
    BY <1>4 DEF HtsTimeout
  <1>5. CASE HtsFetch
    BY <1>5 DEF HtsFetch
  <1>6. CASE HtsPowerOff
    BY <1>6 DEF HtsPowerOff
  <1>7. QED
    BY <1>1, <1>2, <1>3, <1>4, <1>5, <1>6 DEF HtsStep

LEMMA LpsDescends ==
  ASSUME OneShotTypeOK, ReadInv, LpsStep
  PROVE  Remaining' < Remaining
  <1> USE Distances, GotoDescends, ReturnDescends DEF OneShotTypeOK, At, PowerDown, Locations
  <1>1. CASE LpsPowerOn
    <2>1. todo # <<>> /\ pc = "power_on" /\ (Goto("trigger") \/ Return)
      BY <1>1 DEF LpsPowerOn
    <2>2. QED
      BY <2>1
  <1>2. CASE LpsTrigger \/ LpsStart
    BY <1>2 DEF LpsTrigger, LpsStart
  <1>3. CASE LpsSleep \/ LpsDataReady
    BY <1>3 DEF LpsSleep, LpsDataReady
  <1>4. CASE LpsTimeout \/ LpsFetch
    BY <1>4 DEF LpsTimeout, LpsFetch
  <1>5. CASE LpsDisarm
    BY <1>5 DEF LpsDisarm
  <1>6. CASE LpsPowerOff
    BY <1>6 DEF LpsPowerOff
  <1>7. QED
    BY <1>1, <1>2, <1>3, <1>4, <1>5, <1>6 DEF LpsStep

\* An update of both sensors is over after at most fourteen steps of the two
\* drivers, whichever transfers fail and whatever interrupts come when: no path
\* leads back to a trigger or to a wait (sensor_hts221_driver.c:152-235,
\* sensor_lps22hb_driver.c:186-364).  What EveryReadReturns adds to this is that
\* each of these steps is taken.
THEOREM ReadDescendsHolds == Spec => ReadDescends
  <1>1. IInv /\ [Next]_vars =>
          [todo # <<>> => /\ Remaining' <= Remaining
                          /\ HtsStep \/ LpsStep => Remaining' < Remaining]_vars
    <2> SUFFICES ASSUME IInv, Next, todo # <<>>
                 PROVE  /\ Remaining' <= Remaining
                        /\ HtsStep \/ LpsStep => Remaining' < Remaining
      OBVIOUS
    <2>0. OneShotTypeOK /\ ReadInv
      BY DEF IInv
    <2>1. HtsStep \/ LpsStep => Remaining' < Remaining
      BY <2>0, HtsDescends, LpsDescends
    <2>2. Remaining \in Nat /\ Remaining' \in Nat
      <3>1. pc \in Locations /\ pc' \in Locations
        BY NextInv DEF IInv, OneShotTypeOK
      <3>2. Ahead[pc] \in 0 .. 7 /\ Ahead[pc'] \in 0 .. 7
        BY <3>1, Distances
      <3>3. QED
        BY <3>2 DEF Remaining, Ahead
    <2>3. CASE HtsStep \/ LpsStep
      BY <2>1, <2>2, <2>3
    <2>4. CASE HtsHandler \/ DeviceStep
      <3>1. UNCHANGED <<todo, pc>>
        BY <2>4 DEF HtsHandler, DeviceStep, HtsConverted, LpsConverted, ConversionLost, readVars
      <3>2. Remaining' = Remaining
        BY <3>1 DEF Remaining, Ahead
      <3>3. QED
        BY <2>1, <2>2, <3>2
    <2>5. ASSUME NEW t \in Readers, NEW u \in Updates, Read(t, u)
          PROVE  FALSE
      BY <2>0, <2>5 DEF Read, ReadInv
    <2>6. QED
      BY <2>1, <2>3, <2>4, <2>5 DEF Next
  <1>2. QED
    BY <1>1, Invariant, PTL DEF Spec, ReadDescends
=============================================================================
