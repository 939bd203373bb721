---------------------------- MODULE MCAppEffects ----------------------------
(***************************************************************************)
(* Instances of AppEffects for TLC.                                        *)
(***************************************************************************)
EXTENDS AppEffects

AllKinds == {"notify", "emit", "release", "created"}
=============================================================================
