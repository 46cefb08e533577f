-------------------------- MODULE MCRadioLifecycle --------------------------
(* RadioLifecycle for small sets of radios and requests. *)
EXTENDS RadioLifecycle, TLC

Symmetry == Permutations(Radios)
=============================================================================
