------------------------------- MODULE MCOnOff --------------------------------
(* A light whose times are up to three ticks. *)
EXTENDS OnOff
===============================================================================
