-------------------------- MODULE MCCircuitBreaker --------------------------
(***************************************************************************)
(* The readings of the runs of CircuitBreaker, under the shipped limits (6  *)
(* per cent a day, 20 per cent from the peak).  Every branch of the gate    *)
(* has its pair: 115 -> 95 is accepted and breaches the daily limit,        *)
(* 95 -> 115 and every move to or from 60 is a jump to be quarantined, 60   *)
(* is far from the baselines 95 and 115, and 60 opens a session beyond the  *)
(* survival limit of either peak.                                           *)
(***************************************************************************)
EXTENDS CircuitBreaker

MCReadings         == {60, 95, 115}
MCSurvivalReadings == {60, 95, 120}
=============================================================================
