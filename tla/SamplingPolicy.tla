---------------------------- MODULE SamplingPolicy ----------------------------
(***************************************************************************)
(* What the CCS811 driver promises about the measurement mode, without     *)
(* threads, mutex or timers: one conditioning phase that lasts its full    *)
(* time and never comes back, then a sensor that goes live only for a      *)
(* client and goes idle only without one.  The promise is one of safety: a *)
(* mode command may fail, so no change is obliged to happen.               *)
(***************************************************************************)
VARIABLES phase, client, conditioned

policyVars == <<phase, client, conditioned>>

PolicyInit == phase = "conditioning" /\ client = FALSE /\ conditioned = FALSE

ClientComesOrGoes == client' = ~client /\ UNCHANGED <<phase, conditioned>>

ConditioningEnds == conditioned' = TRUE /\ UNCHANGED <<phase, client>>

GoLive == conditioned /\ client /\ phase' = "live" /\ UNCHANGED <<client, conditioned>>

GoIdle == conditioned /\ ~client /\ phase' = "idle" /\ UNCHANGED <<client, conditioned>>

PolicyNext == ClientComesOrGoes \/ ConditioningEnds \/ GoLive \/ GoIdle

PolicySpec == PolicyInit /\ [][PolicyNext]_policyVars
=============================================================================
