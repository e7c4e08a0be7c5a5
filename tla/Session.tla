------------------------------- MODULE Session -------------------------------
(***************************************************************************)
(* What the two threads and their locks promise to everything else: a      *)
(* command and the handler of an event have the session to themselves, and *)
(* a command begins only when the events that were broadcast before the    *)
(* end of the one before it have been handled.                             *)
(***************************************************************************)
EXTENDS Naturals

VARIABLES
  users,   \* who works on the session: "command", "handler"
  sent,    \* events broadcast so far
  handled, \* events handled so far
  due      \* "sent" at the end of the last command

Init == users = {} /\ sent = 0 /\ handled = 0 /\ due = 0

CommandBegins ==
  /\ users = {} /\ handled >= due
  /\ users' = {"command"}
  /\ UNCHANGED <<sent, handled, due>>

CommandEnds ==
  /\ users = {"command"}
  /\ users' = {} /\ due' = sent
  /\ UNCHANGED <<sent, handled>>

HandlerBegins ==
  /\ users = {} /\ handled < sent
  /\ users' = {"handler"}
  /\ UNCHANGED <<sent, handled, due>>

HandlerEnds ==
  /\ users = {"handler"}
  /\ users' = {} /\ handled' = handled + 1
  /\ UNCHANGED <<sent, due>>

\* By LLDB at any moment, or by a command.
Broadcast ==
  /\ sent' = sent + 1
  /\ UNCHANGED <<users, handled, due>>

Next == CommandBegins \/ CommandEnds \/ HandlerBegins \/ HandlerEnds \/ Broadcast

Spec == Init /\ [][Next]_<<users, sent, handled, due>>
=============================================================================
