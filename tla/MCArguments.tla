----------------------------- MODULE MCArguments -----------------------------
(* Arguments, for TLC: every command of the factory that takes arguments. *)
EXTENDS Arguments

AllCommands == DOMAIN Signatures
Console == {"x", Space, Quote, Backslash}
=============================================================================
