---------------------------- MODULE MCEventLoop ------------------------------
(***************************************************************************)
(* Instances of EventLoop for TLC.  One line in the script file and one of *)
(* stdin, with two events, already let an event arrive before, during and  *)
(* after a command, behind another event, and during the wait.             *)
(***************************************************************************)
EXTENDS EventLoop

\* The safety runs consider every way of starting lldb-mi.
MCInputs == AllInputs

\* The liveness run: the start-up phases add no waits of their own.
MCFileOnly == {"file"}

=============================================================================
