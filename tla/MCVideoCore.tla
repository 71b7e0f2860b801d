----------------------------- MODULE MCVideoCore -----------------------------
(* Small instances of Nodalia Video Core. *)
EXTENDS VideoCore, TLC

Symmetry == Permutations(Cameras)
=============================================================================
