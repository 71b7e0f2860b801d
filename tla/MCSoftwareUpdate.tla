--------------------------- MODULE MCSoftwareUpdate ---------------------------
(* A small instance: one device that acts, beside one that stays silent. *)
EXTENDS SoftwareUpdateManager, TLC

CONSTANTS p, q

MCTalks == p :> 2 @@ q :> 0
==============================================================================
