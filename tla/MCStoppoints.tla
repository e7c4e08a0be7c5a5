---------------------------- MODULE MCStoppoints ----------------------------
(***************************************************************************)
(* Instances of Stoppoints for TLC.                                        *)
(***************************************************************************)
EXTENDS Stoppoints

MCNoConditions == {""}

=============================================================================
