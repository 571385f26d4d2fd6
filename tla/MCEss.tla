-------------------------------- MODULE MCEss --------------------------------
(* Values of the constants of EssService that its runs share. *)
EXTENDS EssService

\* Two samples that differ by less than the wire format shows, and a third one.
MCClimates == {[temperature |-> -1009, humidity |-> 45000],
               [temperature |-> -1001, humidity |-> 45004],
               [temperature |-> 21000, humidity |-> 60000]}

\* The HTS221's calibration line may exceed 100 %.
MCHumid == {[temperature |-> 21000, humidity |-> 100001],
            [temperature |-> 21000, humidity |-> 60000]}
MCPressures == {10130000, 10130020}

\* One reading that both accept and one that only the sensor manager does.
MCGases == {[eco2 |-> 400, tvoc |-> 0], [eco2 |-> 8192, tvoc |-> 1187]}

\* Two readings that both accept, the second at the service's limit.
MCTwoGases == {[eco2 |-> 400, tvoc |-> 0], [eco2 |-> 5000, tvoc |-> 0]}

MCPressure == {10130000}

MCHumidityPressureCo2 == {"humidity", "pressure", "co2"}
MCTemphumAir == {"temphum", "air"}
MCNone == {}
=============================================================================
