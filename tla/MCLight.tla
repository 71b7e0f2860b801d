-------------------------------- MODULE MCLight --------------------------------
(* A light whose highest level is 4. *)
EXTENDS Light
================================================================================
