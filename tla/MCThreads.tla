----------------------------- MODULE MCThreads -----------------------------
(***************************************************************************)
(* Two threads: one of two frames, one of none.                             *)
(***************************************************************************)
EXTENDS Threads

MCDepth == <<2, 0>>
=============================================================================
