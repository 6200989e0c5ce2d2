---------------------------- MODULE MCRuntimeStats ----------------------------
(* RuntimeStats started at boot and later. *)
EXTENDS RuntimeStats

MCStartTimes == {0, 2}
===============================================================================
