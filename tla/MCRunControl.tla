---------------------------- MODULE MCRunControl ----------------------------
(***************************************************************************)
(* Values for TLC of the constants of RunControl.                          *)
(***************************************************************************)
EXTENDS RunControl

AllModes == BOOLEAN

=============================================================================
