------------------------------ MODULE ClientLink ------------------------------
(***************************************************************************)
(* What the connection callbacks promise the two services that count       *)
(* clients, without host, queue or advertisement: no service hears of a    *)
(* client before both are ready; each client is told to the sensors first  *)
(* and then to the battery service, and so is its leaving; and the next    *)
(* client is told to nobody before both have seen the last one go.         *)
(***************************************************************************)
EXTENDS Naturals

VARIABLES
  serving,  \* both services are ready for clients
  sensors,  \* the clients the sensor manager knows of
  battery   \* those the BLE battery service knows of

linkVars == <<serving, sensors, battery>>

LinkInit == serving = FALSE /\ sensors = 0 /\ battery = 0

Serve == ~serving /\ serving' = TRUE /\ UNCHANGED <<sensors, battery>>

SensorsAttach ==
  /\ serving /\ sensors = 0 /\ battery = 0
  /\ sensors' = 1 /\ UNCHANGED <<serving, battery>>

BatteryAttach ==
  /\ sensors = 1 /\ battery = 0
  /\ battery' = 1 /\ UNCHANGED <<serving, sensors>>

SensorsDetach ==
  /\ sensors = 1 /\ battery = 1
  /\ sensors' = 0 /\ UNCHANGED <<serving, battery>>

BatteryDetach ==
  /\ sensors = 0 /\ battery = 1
  /\ battery' = 0 /\ UNCHANGED <<serving, sensors>>

\* The device restarts and forgets everybody.
Forget == serving' = FALSE /\ sensors' = 0 /\ battery' = 0

LinkNext ==
  Serve \/ SensorsAttach \/ BatteryAttach \/ SensorsDetach \/ BatteryDetach \/ Forget

LinkSpec == LinkInit /\ [][LinkNext]_linkVars
=============================================================================
