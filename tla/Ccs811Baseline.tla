--------------------------- MODULE Ccs811Baseline ---------------------------
(***************************************************************************)
(* The CCS811's baseline in app/src/sensor_ccs811_driver.c: loaded from    *)
(* flash by the settings subsystem, restored when the driver starts, read  *)
(* back and written to flash at most once a day.  What the driver does     *)
(* with the sensor's modes and samples is in Ccs811Driver.                 *)
(*                                                                         *)
(* Time is told apart only by the two intervals the code compares with:    *)
(* the conditioning of 20 minutes and the 24 hours between two saves.      *)
(***************************************************************************)
CONSTANTS
  Baselines,   \* the values of the sensor's baseline register
  NoBaseline   \* 0: no baseline is stored

ASSUME BaselinesAssumption ==
  /\ NoBaseline \notin Baselines \cup {"off", "failed"}
  /\ "off" \notin Baselines /\ "failed" \notin Baselines

VARIABLES
  flash,                        \* the value under "ccs811/baseline"
  stored_baseline,
  load,                         \* how loading that value went
  baseline,                     \* the register in the sensor
  ccs811_conditioning_complete,
  conditioning,                 \* the 20 minutes: not started, running, over
  dayPassed,                    \* 24 hours since the last save, or since the start
  restored,                     \* what driver_init restored  (history)
  learned                       \* baselines of a conditioned sensor  (history)

baselineVars == <<flash, stored_baseline, load, baseline, ccs811_conditioning_complete,
                  conditioning, dayPassed, restored, learned>>

-----------------------------------------------------------------------------
BaselineInit ==
  /\ flash = NoBaseline /\ learned = {}
  /\ stored_baseline = NoBaseline /\ load = "none"
  /\ baseline \in Baselines
  /\ ccs811_conditioning_complete = FALSE /\ conditioning = "none"
  /\ dayPassed = FALSE /\ restored = "off"

\* A restart leaves the flash, and a sensor with a baseline of its own.
BaselineReset ==
  /\ stored_baseline' = NoBaseline /\ load' = "none"
  /\ baseline' \in Baselines
  /\ ccs811_conditioning_complete' = FALSE /\ conditioning' = "none"
  /\ dayPassed' = FALSE /\ restored' = "off"
  /\ UNCHANGED <<flash, learned>>

\* ccs811_settings_set(), called by settings_load().
LoadBaseline ==
  /\ \/ stored_baseline' = flash /\ load' = "ok"
     \/ stored_baseline' = stored_baseline /\ load' = "failed"
  /\ UNCHANGED <<flash, baseline, ccs811_conditioning_complete, conditioning,
                 dayPassed, restored, learned>>

\* ccs811_driver_restore_baseline(): the sensor may refuse the write.
RestoreBaseline ==
  IF stored_baseline = NoBaseline
  THEN /\ restored' = IF load = "failed" THEN "failed" ELSE NoBaseline
       /\ UNCHANGED baseline
  ELSE \/ restored' = stored_baseline /\ baseline' = stored_baseline
       \/ restored' = "failed" /\ UNCHANGED baseline

\* ccs811_driver_init().  The device may not be ready, and then nothing starts;
\* nor does the conditioning timer if the mutex is not free in time.
StartDriver ==
  /\ \/ /\ RestoreBaseline
        /\ conditioning' \in {"none", "running"}
     \/ restored' = "failed" /\ UNCHANGED <<baseline, conditioning>>
  /\ ccs811_conditioning_complete' = FALSE
  /\ UNCHANGED <<flash, stored_baseline, load, dayPassed, learned>>

\* The 20 minutes are over; from here on the sensor's own baseline is a good one.
ConditioningElapses ==
  /\ conditioning = "running" /\ conditioning' = "over"
  /\ learned' = learned \cup {baseline}
  /\ UNCHANGED <<flash, stored_baseline, load, baseline, ccs811_conditioning_complete,
                 dayPassed, restored>>

\* ccs811_conditioning_work_handler() or ccs811_driver_is_ready() notices.
ConditioningCompletes ==
  /\ conditioning = "over" /\ ~ccs811_conditioning_complete
  /\ ccs811_conditioning_complete' = TRUE
  /\ UNCHANGED <<flash, stored_baseline, load, baseline, conditioning, dayPassed,
                 restored, learned>>

\* The sensor corrects its baseline.
BaselineDrifts ==
  /\ conditioning # "none"
  /\ baseline' \in Baselines
  /\ learned' = IF conditioning = "over" THEN learned \cup {baseline'} ELSE learned
  /\ UNCHANGED <<flash, stored_baseline, load, ccs811_conditioning_complete, conditioning,
                 dayPassed, restored>>

DayPasses ==
  /\ conditioning # "running" /\ ~dayPassed /\ dayPassed' = TRUE
  /\ UNCHANGED <<flash, stored_baseline, load, baseline, ccs811_conditioning_complete,
                 conditioning, restored, learned>>

\* ccs811_driver_baseline_save_due()
BaselineSaveDue == ccs811_conditioning_complete /\ dayPassed

\* ccs811_driver_save_baseline() up to settings_save_one(): the value and the time
\* of the save are set before anything is written.
FetchBaseline ==
  /\ stored_baseline' = baseline /\ dayPassed' = FALSE
  /\ UNCHANGED <<flash, load, baseline, ccs811_conditioning_complete, conditioning,
                 restored, learned>>

\* settings_save_one(); its failure is only logged.
WriteBaseline ==
  /\ flash' \in {flash, stored_baseline}
  /\ UNCHANGED <<stored_baseline, load, baseline, ccs811_conditioning_complete, conditioning,
                 dayPassed, restored, learned>>

-----------------------------------------------------------------------------
BaselineTypeOK ==
  /\ flash \in Baselines \cup {NoBaseline}
  /\ stored_baseline \in Baselines \cup {NoBaseline}
  /\ load \in {"none", "ok", "failed"}
  /\ baseline \in Baselines
  /\ ccs811_conditioning_complete \in BOOLEAN
  /\ conditioning \in {"none", "running", "over"}
  /\ dayPassed \in BOOLEAN
  /\ restored \in Baselines \cup {NoBaseline, "off", "failed"}
  /\ learned \in SUBSET Baselines

Store == INSTANCE BaselineStore

\* Whatever fails at boot, whenever the power goes and whichever step of a save is
\* under way: the sensor is started with what flash held, or with nothing after an
\* error, and flash only ever changes to a baseline of a conditioned sensor.
PersistsBaseline == Store!Spec
=============================================================================
