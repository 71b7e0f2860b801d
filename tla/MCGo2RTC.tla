------------------------------ MODULE MCGo2RTC ------------------------------
(***************************************************************************)
(* The manager alone, with every interleaving of its callers.              *)
(***************************************************************************)
EXTENDS Go2RTC

=============================================================================
