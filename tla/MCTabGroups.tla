----------------------------- MODULE MCTabGroups -----------------------------
(***************************************************************************)
(* Instances of TabGroups for TLC.  Windows are interchangeable.           *)
(***************************************************************************)
EXTENDS TabGroups, TLC

WindowSymmetry == Permutations(Windows)
=============================================================================
