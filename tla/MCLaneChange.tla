---------------------------- MODULE MCLaneChange ----------------------------
(* Four frames a second; a change may take three seconds. *)
EXTENDS LaneChangeProps

MCModes == {OFF, NUDGE, NUDGELESS, 2, 3}
=============================================================================
