------------------------------ MODULE MCOnroad ------------------------------
(* A car that is identified without OBD multiplexing, one that needs it. *)
EXTENDS OnroadProps

MCQueries == {<<FALSE>>, <<TRUE, FALSE>>}
=============================================================================
