--------------------------- MODULE MCIdentityReset ---------------------------
(* Two resets that may overlap, beside a tailscaled that fails once or twice. *)
EXTENDS IdentityReset

CONSTANTS r1, r2
==============================================================================
