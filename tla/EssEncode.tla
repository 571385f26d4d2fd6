------------------------------ MODULE EssEncode ------------------------------
(***************************************************************************)
(* app/src/ess_encode.c and the range checks of app/src/ess_service.c:     *)
(* from sensor readings to the values a client reads.                      *)
(*                                                                         *)
(* Readings are integers ten times finer than the wire format, which is    *)
(* what the code's float product leaves to truncate: thousandths of a      *)
(* degree and of a percent, hundredths of a pascal.  NaN and infinity do   *)
(* not occur: the range checks reject them before they are encoded.        *)
(***************************************************************************)
EXTENDS Integers

ESS_UNKNOWN_S16 == -32768
ESS_UNKNOWN_U16 == 65535

\* The limits of the wire format.
ESS_TEMP_MIN_E_2C == -27315
ESS_TEMP_MAX_E_2C == 32767
ESS_HUM_MIN_E_2PCT == 0
ESS_HUM_MAX_E_2PCT == 10000
ESS_PRESS_MIN_DPA == 260000
ESS_PRESS_MAX_DPA == 1260000

CO2_LOWER_LIMIT == 400
CO2_UPPER_LIMIT == 5000
TVOC_LOWER_LIMIT == 0
TVOC_UPPER_LIMIT == 32767

Finer == 10

\* The conversion of a float to an integer type rounds towards zero.
Truncated(x) == IF x >= 0 THEN x \div Finer ELSE -((-x) \div Finer)

Clamped(x, low, high) == IF x <= low THEN low ELSE IF x >= high THEN high ELSE x

EncodeTemperature(x) == Clamped(Truncated(x), ESS_TEMP_MIN_E_2C, ESS_TEMP_MAX_E_2C)
EncodeHumidity(x) == Clamped(Truncated(x), ESS_HUM_MIN_E_2PCT, ESS_HUM_MAX_E_2PCT)
EncodePressure(x) == Clamped(Truncated(x), ESS_PRESS_MIN_DPA, ESS_PRESS_MAX_DPA)

TemperatureInRange(x) == x \in ESS_TEMP_MIN_E_2C * Finer .. ESS_TEMP_MAX_E_2C * Finer
HumidityInRange(x) == x \in ESS_HUM_MIN_E_2PCT * Finer .. ESS_HUM_MAX_E_2PCT * Finer
PressureInRange(x) == x \in ESS_PRESS_MIN_DPA * Finer .. ESS_PRESS_MAX_DPA * Finer
Co2InRange(ppm) == ppm \in CO2_LOWER_LIMIT .. CO2_UPPER_LIMIT
TvocInRange(ppb) == ppb \in TVOC_LOWER_LIMIT .. TVOC_UPPER_LIMIT

\* What the cast to int16_t makes of a value.
AsInt16(x) == LET word == x % 65536 IN IF word < 32768 THEN word ELSE word - 65536

Conditions == {"INACTIVE", "VALUE_CHANGED", "LESS_THAN", "LESS_OR_EQUAL", "GREATER_THAN",
               "GREATER_OR_EQUAL", "EQUAL_TO", "NOT_EQUAL_TO"}

ShouldNotify(condition, old, new, ref) ==
  CASE condition = "VALUE_CHANGED"    -> new # old
    [] condition = "LESS_THAN"        -> new < ref
    [] condition = "LESS_OR_EQUAL"    -> new <= ref
    [] condition = "GREATER_THAN"     -> new > ref
    [] condition = "GREATER_OR_EQUAL" -> new >= ref
    [] condition = "EQUAL_TO"         -> new = ref
    [] condition = "NOT_EQUAL_TO"     -> new # ref
    [] OTHER                          -> FALSE
=============================================================================
