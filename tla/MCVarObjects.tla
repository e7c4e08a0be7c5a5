---------------------------- MODULE MCVarObjects ----------------------------
(***************************************************************************)
(* Values for TLC of the constants of VarObjects.                          *)
(***************************************************************************)
EXTENDS VarObjects

OneName == <<"var0">>
=============================================================================
