---------------------------- MODULE BaselineStore ----------------------------
(***************************************************************************)
(* What keeping the CCS811's baseline in flash promises: flash holds only  *)
(* baselines that a conditioned sensor has computed, losing power changes  *)
(* nothing in it, and a sensor that is started works either with the       *)
(* baseline in flash or, after an error, with its own.                     *)
(***************************************************************************)
CONSTANTS
  Baselines,   \* the values of the sensor's baseline register
  NoBaseline   \* no value: nothing in flash

VARIABLES
  flash,     \* the baseline in flash
  learned,   \* the baselines that a conditioned sensor has computed so far
  restored   \* what the sensor was started with: "off" before, "failed" after an error

vars == <<flash, learned, restored>>

Init == flash = NoBaseline /\ learned = {} /\ restored = "off"

Learn == \E b \in Baselines : learned' = learned \cup {b} /\ UNCHANGED <<flash, restored>>

Save == flash' \in learned /\ UNCHANGED <<learned, restored>>

Start == restored = "off" /\ restored' \in {flash, "failed"} /\ UNCHANGED <<flash, learned>>

LosePower == restored' = "off" /\ UNCHANGED <<flash, learned>>

Next == Learn \/ Save \/ Start \/ LosePower

Spec == Init /\ [][Next]_vars
=============================================================================
