------------------------------ MODULE MCCapture ------------------------------
(***************************************************************************)
(* Instances of Capture for TLC.                                           *)
(***************************************************************************)
EXTENDS Capture

CONSTANTS receiver, other  \* adders
=============================================================================
