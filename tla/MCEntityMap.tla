----------------------------- MODULE MCEntityMap -----------------------------
(***************************************************************************)
(* Instances of EntityMap for TLC.  Handles are interchangeable.           *)
(***************************************************************************)
EXTENDS EntityMap, TLC

HandleSymmetry == Permutations(Handles)
=============================================================================
