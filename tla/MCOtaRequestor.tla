---------------------------- MODULE MCOtaRequestor ----------------------------
(* A small instance of the update requestor. *)
EXTENDS OtaRequestor
==============================================================================
