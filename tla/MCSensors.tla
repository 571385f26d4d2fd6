------------------------------ MODULE MCSensors ------------------------------
(* Values of the constants of SensorManager that its runs share. *)
EXTENDS SensorManager

MCClimates == {[temperature |-> 21000, humidity |-> 45000]}
MCPressures == {10130000}

\* A good reading, and one with the eCO2 of an unready sensor.
MCGases == {[eco2 |-> 400, tvoc |-> 0], [eco2 |-> 0, tvoc |-> 0]}

MCAll == {"temphum", "pressure", "air"}
MCNone == {}
=============================================================================
