------------------------------- MODULE MCCcs811 -------------------------------
(* Values of the constants of Ccs811Driver that its runs share. *)
EXTENDS Ccs811Driver

\* A raw value below, at and above what the driver accepts; 0 ppb is accepted.
MCCo2Readings  == {0, 400, 8193}
MCTvocReadings == {0, 1187, 1188}
=============================================================================
