--------------------------- MODULE MCControlPlane ---------------------------
(***************************************************************************)
(* A client that pauses, and one that stops or asks for a step.            *)
(***************************************************************************)
EXTENDS ControlPlane, TLC

CONSTANTS c1, c2
MCSends == (c1 :> {"pause"}) @@ (c2 :> {"stop", "step"})
=============================================================================
