-------------------------- MODULE MCWindowLifecycle --------------------------
(***************************************************************************)
(* Instances of WindowLifecycle for TLC.  Windows are interchangeable.     *)
(***************************************************************************)
EXTENDS WindowLifecycle, TLC

WindowSymmetry == Permutations(Windows)
=============================================================================
