------------------------- MODULE MCLinuxDispatcher -------------------------
(***************************************************************************)
(* An instance of LinuxDispatcher for TLC.                                 *)
(***************************************************************************)
EXTENDS LinuxDispatcher, TLC

CONSTANTS j1, j2, j3

HighLowLow == (j1 :> High) @@ (j2 :> Low) @@ (j3 :> Low)
=============================================================================
