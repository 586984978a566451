---------------------------- MODULE MCSpeedLimit ----------------------------
(* A limit below the threshold, one above it and one beyond the highest set speed. *)
EXTENDS SpeedLimitProps
=============================================================================
