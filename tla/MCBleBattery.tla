----------------------------- MODULE MCBleBattery -----------------------------
(* Values of the constants of BleBattery that its runs share. *)
EXTENDS BleBattery

\* An empty battery and a full one: they differ in every derived value.
MCLevels == {0, 80}
=============================================================================
