----------------------------- MODULE MCLoggerd -----------------------------
(* The driver camera, which is not recorded here, and the small video with the sound. *)
EXTENDS LoggerdProps
=============================================================================
