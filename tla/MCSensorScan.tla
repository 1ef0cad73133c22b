---------------------------- MODULE MCSensorScan ----------------------------
(* A window of 3 over 8 slots, and samples enough for two compactions.     *)
EXTENDS SensorScan

MCValues == 0 .. MaxSamples
=============================================================================
