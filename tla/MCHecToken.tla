------------------------------ MODULE MCHecToken ------------------------------
(* HecToken with two requests at a time; the constants are in MCHecToken.cfg. *)
EXTENDS HecToken
===============================================================================
