--------------------------- MODULE MCTimedTrigger ---------------------------
(* One transition, one wait task, either clock and either setting.          *)
EXTENDS TimedTrigger
=============================================================================
