-------------------------- MODULE LaneChangeProps --------------------------
(* What the driver may rely on when the car changes lanes. *)
EXTENDS LaneChange

(* With the blinker left on after a change that began by itself, the next lane is the *)
(* driver's to ask for, by a nudge.                                                   *)
OneAutomaticChange == automatic <= 1

(* AutoLaneChangeBsmDelay: a change that waited because the blind spot was occupied   *)
(* does not begin by itself within a second of that.  Only frames of the wait count,  *)
(* and a change of the setting ends the count.                                        *)
BlindspotDelays == [][automatic' > automatic => clearFor = Second]_vars

(* A change comes to an end whatever the model reports.                               *)
EveryChangeEnds == state \in {"starting", "finishing"} ~> state \in {"off", "pre"}
=============================================================================
