----------------------------- MODULE MCCapture -----------------------------
(* Two or three flows into one collector port, sharing part of their routes. *)
EXTENDS CaptureRun

ThreeFlows == 1..3
TwoFlows   == 1..2
Routes     == [f \in Flow |-> <<{11, 21, 40}, {12, 21, 40}, {12, 22, 31, 40}>>[f]]
=============================================================================
