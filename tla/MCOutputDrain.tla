---------------------------- MODULE MCOutputDrain ---------------------------
(***************************************************************************)
(* Values for TLC of the constants of OutputDrain.  With four bytes and    *)
(* reads of two, a line may end before, at and after the end of a read, and *)
(* a stream may be written to before, during and after the last read.      *)
(***************************************************************************)
EXTENDS OutputDrain

StdoutOnly == {"stdout"}

=============================================================================
