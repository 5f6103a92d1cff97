---------------------------- MODULE MCEcoThrottle ----------------------------
(* EcoThrottle around its thresholds: constants for TLC.                   *)
EXTENDS EcoThrottle

(* Below, at and between the thresholds 75 and 85 degrees, 100 and 150     *)
(* hundredths; -1: no temperature sensor, no load average.                 *)
SomeTemps == {-1, 74, 75, 84, 85}
SomeLoads == {-1, 99, 100, 149, 150}
=============================================================================
