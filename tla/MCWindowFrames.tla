---------------------------- MODULE MCWindowFrames ----------------------------
(***************************************************************************)
(* Instances of WindowFrames for TLC: a window whose root shows a cached   *)
(* view with an uncached one inside, and one with a root alone.            *)
(***************************************************************************)
EXTENDS WindowFrames, TLC

CONSTANTS root1, root2, panel, label

OnePath   == (root1 :> <<1, root1>>) @@ (panel :> <<1, root1, panel>>)
                @@ (label :> <<1, root1, panel, label>>)
PanelPath == OnePath @@ (root2 :> <<2, root2>>)
=============================================================================
