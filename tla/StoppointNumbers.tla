-------------------------- MODULE StoppointNumbers --------------------------
(***************************************************************************)
(* What lldb-mi promises a client about the numbers in its breakpoint and  *)
(* watchpoint records: a number is bound to one stoppoint, once, and is    *)
(* never bound to another, not even after the stoppoint is gone.           *)
(***************************************************************************)
VARIABLES
  names, \* the pairs <<number, stoppoint>> the client has been told of
  open   \* the numbers whose stoppoint is still on record

Init == names = {} /\ open = {}

\* A stoppoint is announced: the new pair b shares neither its number nor its
\* stoppoint with an earlier one.
Announce ==
  \E b \in names' \ names :
    /\ \A c \in names : c[1] # b[1] /\ c[2] # b[2]
    /\ names' = names \cup {b}
    /\ open' = open \cup {b[1]}

\* The stoppoint behind an open number is gone.
Retire ==
  /\ \E n \in open : open' = open \ {n}
  /\ UNCHANGED names

Next == Announce \/ Retire

Spec == Init /\ [][Next]_<<names, open>>
=============================================================================
