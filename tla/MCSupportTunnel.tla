--------------------------- MODULE MCSupportTunnel ---------------------------
(* Small instances of the support access. *)
EXTENDS SupportTunnel, TLC

TokenSymmetry == Permutations(Tokens)
=============================================================================
