----------------------------- MODULE Measurement -----------------------------
(***************************************************************************)
(* What a caller of a one-shot sensor is promised: every request is        *)
(* answered with an error or with a sample measured for it.  A driver that *)
(* cannot tell when the data is ready (synced = FALSE) may also answer     *)
(* with a sample from before the request.                                  *)
(***************************************************************************)
VARIABLES
  asked,   \* a request is being worked on
  synced,  \* the sensor tells the driver when its data is ready
  answer   \* the last answer, and "none" before it

vars == <<asked, synced, answer>>

Promised == {"own", "error"} \cup (IF synced THEN {} ELSE {"old"})

Init == asked = FALSE /\ synced \in BOOLEAN /\ answer = "none"

Ask == ~asked /\ asked' = TRUE /\ answer' = "none" /\ UNCHANGED synced

Answer == asked /\ asked' = FALSE /\ answer' \in Promised /\ UNCHANGED synced

Next == Ask \/ Answer

Spec == Init /\ [][Next]_vars
=============================================================================
