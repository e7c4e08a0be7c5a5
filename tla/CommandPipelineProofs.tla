------------------------ MODULE CommandPipelineProofs ------------------------
(***************************************************************************)
(* What CommandPipeline guarantees for every set of commands, any number   *)
(* of lines and SIGINTs, and a log that fails at any moment: each line has *)
(* its answer, the answers come in the order of the lines, no command is   *)
(* used after it was deleted, and, without SIGINTs, none is left behind    *)
(* and the invoker's loop over its clients is defined.                     *)
(***************************************************************************)
EXTENDS CommandPipeline, FiniteSetTheorems, SequenceTheorems, TLAPS

\* The control points between reading a line and printing its record.
Early == {"clear", "token", "name", "lookup", "copy", "create"}
Executing == {"parse", "execute", "acknowledge", "print", "delete"}
Unanswered == Early \cup
  {"refuse", "register", "insert", "parse", "execute", "acknowledge", "print"}
Answered == {"delete", "callback", "unregister", "iterate", "last", "done"}

\* The part of TypeOK that Zenon shows.
Booleans ==
  /\ valid \in BOOLEAN /\ record \in BOOLEAN /\ failed \in BOOLEAN
  /\ registered \in BOOLEAN /\ flag \in BOOLEAN /\ logOk \in BOOLEAN

\* There is a command object for each line and each SIGINT, at most.
CountInv ==
  /\ IsFiniteSet(alive)
  /\ Cardinality(alive) <= lines + signals
  /\ pc \in Early => Cardinality(alive) < lines + signals

\* There is a line from its reading to its answer.
LineInv ==
  /\ pc \in Unanswered => line \in Lines /\ lines > 0
  /\ pc = "name" => line.rest # "nothing"

\* The token in use is the line's or none, and records of this line come last.
OrderInv ==
  /\ line.token \in {NoToken, lines}
  /\ pc \notin {"read", "clear"} =>
       miCmdData.token \in {NoToken, lines} /\ cmdData.token \in {NoToken, lines}
  /\ \A i \in DOMAIN out : out[i] <= lines
  /\ pc \in Unanswered => \A i \in DOMAIN out : out[i] < lines

\* The invoker's map and callback without SIGINTs, point by point.
InvokerInv ==
  signals = 0 =>
    /\ pc \in Early \cup {"read", "refuse", "done", "last"} =>
         alive = {} /\ cmds = {} /\ ~registered
    /\ pc = "register" => alive = {cmd} /\ cmds = {} /\ ~registered
    /\ pc = "insert" => alive = {cmd} /\ cmds = {} /\ registered
    /\ pc \in Executing \cup {"callback"} =>
         alive = {cmd} /\ cmds = {cmd} /\ registered
    /\ pc = "unregister" => alive = {} /\ cmds = {} /\ registered
    /\ pc = "iterate" => alive = {} /\ cmds = {} /\ ~registered /\ flag
    /\ pc # "undefined"

\* The way of the token from the line into the record, without SIGINTs and with
\* a log that works.
AnswerInv ==
  signals = 0 /\ logOk =>
    /\ pc \in Unanswered => answers = <<>>
    /\ pc = "token" => miCmdData.token = NoToken
    /\ pc = "name" => line.rest # "nothing" /\ miCmdData.token = line.token
    /\ pc = "lookup" => miCmdData.token = Expected(line)
    /\ pc = "copy" => miCmdData.token = Expected(line)
    /\ pc \in Unanswered \ {"clear", "token", "name", "lookup", "copy"} =>
         cmdData.token = Expected(line)
    /\ pc = "print" => record \/ cmdData.name \in Silent
    /\ pc \in Answered => \/ answers = <<Expected(line)>>
                          \/ answers = <<>> /\ cmdData.name \in Silent

IInv == /\ TypeOK /\ CountInv /\ UsesOnlyTheLiving
        /\ LineInv /\ OrderInv /\ AnswersInOrder /\ InvokerInv /\ AnswerInv

LEMMA InitIInv == Init => IInv
  <1> SUFFICES ASSUME Init PROVE IInv
    OBVIOUS
  <1>1. TypeOK
    <2>1. MaxLines \in Nat /\ MaxSignals \in Nat
      BY Zenon, PipelineAssumption
    <2>2. Booleans
      BY Zenon DEF Init, Booleans
    <2>3. answers \in Seq(0..MaxLines) /\ out \in Seq(0..MaxLines)
      BY EmptySeq DEF Init
    <2>4. NoData \in CmdData
      BY <2>1 DEF NoData, CmdData, NoToken
    <2>5. QED
      BY <2>1, <2>2, <2>3, <2>4 DEF Init, TypeOK, Points, Ids, Booleans
  <1>2. CountInv
    BY FS_EmptySet DEF Init, CountInv, Early
  <1>3. UsesOnlyTheLiving
    BY DEF Init, UsesOnlyTheLiving
  <1>4. OrderInv /\ AnswersInOrder
    BY DEF Init, OrderInv, AnswersInOrder, Unanswered, Early, NoData, NoToken
  <1>8. LineInv
    BY DEF Init, LineInv, Unanswered, Early
  <1>5. InvokerInv
    BY DEF Init, InvokerInv, Early, Executing
  <1>6. AnswerInv
    BY DEF Init, AnswerInv, Unanswered, Early, Answered
  <1>7. QED
    BY <1>1, <1>2, <1>3, <1>4, <1>5, <1>6, <1>8 DEF IInv

\* There is an id for one more object.
LEMMA NewIdType ==
  ASSUME TypeOK, CountInv, Cardinality(alive) <= MaxLines + MaxSignals
  PROVE  NewId(alive) \in Ids /\ NewId(alive) \notin alive
  <1>1. /\ IsFiniteSet(Ids)
        /\ Cardinality(Ids) = 1 + MaxLines + MaxSignals
    <2>1. MaxLines \in Nat /\ MaxSignals \in Nat
      BY Zenon, PipelineAssumption
    <2>2. QED
      BY <2>1, FS_Interval DEF Ids
  <1>2. MaxLines \in Nat /\ MaxSignals \in Nat
    BY Zenon, PipelineAssumption
  <1>3. Ids # alive
    BY <1>1, <1>2
  <1>4. \E i \in Ids : i \notin alive
    BY <1>3 DEF TypeOK
  <1>5. QED
    BY <1>4, Zenon DEF NewId

LEMMA NextBooleans ==
  ASSUME TypeOK, [Next]_vars
  PROVE  Booleans'
  <1> USE DEF TypeOK, Booleans, data, command, invoker, printed
  <1>1. CASE ReadLine BY <1>1, Zenon DEF ReadLine
  <1>2. CASE ClearData BY <1>2, Zenon DEF ClearData
  <1>3. CASE FindToken BY <1>3, Zenon DEF FindToken
  <1>4. CASE FindName BY <1>4, Zenon DEF FindName
  <1>5. CASE LookUp
    <2>1. valid' \in BOOLEAN
      BY <1>5 DEF LookUp
    <2>2. QED
      BY <1>5, <2>1, Zenon DEF LookUp
  <1>6. CASE CopyData BY <1>6, Zenon DEF CopyData
  <1>7. CASE Refuse BY <1>7, Zenon DEF Refuse, PrintRecord
  <1>8. CASE Create BY <1>8, Zenon DEF Create
  <1>9. CASE Register BY <1>9, Zenon DEF Register
  <1>10. CASE Insert BY <1>10, Zenon DEF Insert
  <1>11. CASE ParseArgs BY <1>11, Zenon DEF ParseArgs, Succeeds, Fails
  <1>12. CASE Execute BY <1>12, Zenon DEF Execute, Succeeds, Fails
  <1>13. CASE Acknowledge BY <1>13, Zenon DEF Acknowledge, Fails
  <1>14. CASE CmdStdout BY <1>14, Zenon DEF CmdStdout, PrintRecord
  <1>15. CASE DeleteBegins BY <1>15, Zenon DEF DeleteBegins
  <1>16. CASE Callback BY <1>16, Zenon DEF Callback
  <1>17. CASE Unregister BY <1>17, Zenon DEF Unregister, UnregisterIfEmpty
  <1>18. CASE Iterate BY <1>18, Zenon DEF Iterate
  <1>19. CASE DeleteEnds BY <1>19, Zenon DEF DeleteEnds, UnregisterIfEmpty
  <1>20. CASE NextLine BY <1>20, Zenon DEF NextLine
  <1>21. CASE DeliverSignal
    <2>1. flag' \in {flag, TRUE, FALSE} /\ registered' \in {TRUE, FALSE, registered}
      BY <1>21 DEF DeliverSignal
    <2>2. QED
      BY <1>21, <2>1, Zenon DEF DeliverSignal
  <1>22. CASE LogFails BY <1>22, Zenon DEF LogFails
  <1>23. CASE UNCHANGED vars BY <1>23, Zenon DEF vars
  <1>24. QED
    BY <1>1, <1>2, <1>3, <1>4, <1>5, <1>6, <1>7, <1>8, <1>9, <1>10, <1>11,
       <1>12, <1>13, <1>14, <1>15, <1>16, <1>17, <1>18, <1>19, <1>20, <1>21,
       <1>22, <1>23, Zenon DEF Next

\* The token and the name of a line are a command's.
LEMMA DataType ==
  /\ NoData \in CmdData /\ [token |-> NoToken, name |-> ExecInterrupt] \in CmdData
  /\ TypeOK => [miCmdData EXCEPT !.token = line.token] \in CmdData
  /\ TypeOK /\ line \in Lines /\ line.rest \notin {"nothing", "hyphen"} =>
       [miCmdData EXCEPT !.name = NameIn(line)] \in CmdData
  <1>1. MaxLines \in Nat
    BY Zenon, PipelineAssumption
  <1>2. QED
    BY <1>1 DEF NoData, CmdData, NoToken, TypeOK, Lines, Rests, NameIn, Registered

\* A step prints no record or one, with the token of the command or with none.
LEMMA NextPrinted ==
  ASSUME TypeOK, [Next]_vars
  PROVE  /\ answers' \in {answers, <<>>, Append(answers, cmdData.token)}
         /\ out' \in {out, Append(out, cmdData.token), Append(out, NoToken)}
  <1> USE DEF data, command, invoker, printed
  <1>1. CASE ReadLine BY <1>1 DEF ReadLine
  <1>2. CASE ClearData BY <1>2 DEF ClearData
  <1>3. CASE FindToken BY <1>3 DEF FindToken
  <1>4. CASE FindName BY <1>4 DEF FindName
  <1>5. CASE LookUp BY <1>5 DEF LookUp
  <1>6. CASE CopyData BY <1>6 DEF CopyData
  <1>7. CASE Refuse BY <1>7 DEF Refuse, PrintRecord
  <1>8. CASE Create BY <1>8 DEF Create
  <1>9. CASE Register BY <1>9 DEF Register
  <1>10. CASE Insert BY <1>10 DEF Insert
  <1>11. CASE ParseArgs BY <1>11 DEF ParseArgs
  <1>12. CASE Execute BY <1>12 DEF Execute
  <1>13. CASE Acknowledge BY <1>13 DEF Acknowledge
  <1>14. CASE CmdStdout BY <1>14 DEF CmdStdout, PrintRecord
  <1>15. CASE DeleteBegins BY <1>15 DEF DeleteBegins
  <1>16. CASE Callback BY <1>16 DEF Callback
  <1>17. CASE Unregister BY <1>17 DEF Unregister
  <1>18. CASE Iterate BY <1>18 DEF Iterate
  <1>19. CASE DeleteEnds BY <1>19 DEF DeleteEnds
  <1>20. CASE NextLine BY <1>20 DEF NextLine
  <1>21. CASE DeliverSignal BY <1>21 DEF DeliverSignal
  <1>22. CASE LogFails BY <1>22 DEF LogFails
  <1>23. CASE UNCHANGED vars BY <1>23 DEF vars
  <1>24. QED
    BY <1>1, <1>2, <1>3, <1>4, <1>5, <1>6, <1>7, <1>8, <1>9, <1>10, <1>11,
       <1>12, <1>13, <1>14, <1>15, <1>16, <1>17, <1>18, <1>19, <1>20, <1>21,
       <1>22, <1>23 DEF Next

LEMMA NextTypeOK ==
  ASSUME TypeOK, CountInv, LineInv, [Next]_vars
  PROVE  TypeOK'
  <1>1. Booleans'
    BY NextBooleans
  <1>2. MaxLines \in Nat /\ MaxSignals \in Nat
    BY Zenon, PipelineAssumption
  <1>3. answers' \in Seq(0..MaxLines) /\ out' \in Seq(0..MaxLines)
    <2> DEFINE T == 0..MaxLines
    <2>1. cmdData.token \in T /\ NoToken \in T
      BY <1>2 DEF TypeOK, CmdData, NoToken
    <2>2. answers \in Seq(T) /\ out \in Seq(T)
      BY DEF TypeOK
    <2> HIDE DEF T
    <2>3. answers' \in Seq(T) /\ out' \in Seq(T)
      <3>1. /\ Append(answers, cmdData.token) \in Seq(T) /\ <<>> \in Seq(T)
            /\ Append(out, cmdData.token) \in Seq(T) /\ Append(out, NoToken) \in Seq(T)
        BY <2>1, <2>2
      <3>2. QED
        BY <2>2, <3>1, NextPrinted, Zenon
    <2>4. QED
      BY <2>3 DEF T
  <1>4. pc' \in Points /\ lines' \in 0..MaxLines /\ signals' \in 0..MaxSignals
    <2> USE <1>2 DEF TypeOK, data, command, invoker, printed, Points
    <2>1. CASE ReadLine BY <2>1 DEF ReadLine
    <2>2. CASE ClearData BY <2>2 DEF ClearData
    <2>3. CASE FindToken BY <2>3 DEF FindToken
    <2>4. CASE FindName BY <2>4 DEF FindName
    <2>5. CASE LookUp BY <2>5 DEF LookUp
    <2>6. CASE CopyData BY <2>6 DEF CopyData
    <2>7. CASE Refuse BY <2>7 DEF Refuse
    <2>8. CASE Create BY <2>8 DEF Create
    <2>9. CASE Register BY <2>9 DEF Register
    <2>10. CASE Insert BY <2>10 DEF Insert
    <2>11. CASE ParseArgs BY <2>11 DEF ParseArgs, Succeeds, Fails
    <2>12. CASE Execute BY <2>12 DEF Execute, Succeeds, Fails
    <2>13. CASE Acknowledge BY <2>13 DEF Acknowledge, Fails
    <2>14. CASE CmdStdout BY <2>14 DEF CmdStdout
    <2>15. CASE DeleteBegins BY <2>15 DEF DeleteBegins
    <2>16. CASE Callback BY <2>16 DEF Callback
    <2>17. CASE Unregister BY <2>17 DEF Unregister
    <2>18. CASE Iterate BY <2>18 DEF Iterate
    <2>19. CASE DeleteEnds BY <2>19 DEF DeleteEnds
    <2>20. CASE NextLine BY <2>20 DEF NextLine
    <2>21. CASE DeliverSignal BY <2>21 DEF DeliverSignal
    <2>22. CASE LogFails BY <2>22 DEF LogFails
    <2>23. CASE UNCHANGED vars BY <2>23 DEF vars
    <2>24. QED
      BY <2>1, <2>2, <2>3, <2>4, <2>5, <2>6, <2>7, <2>8, <2>9, <2>10, <2>11,
         <2>12, <2>13, <2>14, <2>15, <2>16, <2>17, <2>18, <2>19, <2>20, <2>21,
         <2>22, <2>23 DEF Next
  <1>5. line' \in Lines \cup {NoData} /\ miCmdData' \in CmdData /\ cmdData' \in CmdData
    <2> USE DataType DEF TypeOK, data, command, invoker, printed
    <2>1. CASE ReadLine BY <2>1 DEF ReadLine
    <2>2. CASE ClearData BY <2>2 DEF ClearData
    <2>3. CASE FindToken BY <2>3 DEF FindToken
    <2>4. CASE FindName BY <2>4 DEF FindName, LineInv, Unanswered, Early
    <2>5. CASE LookUp BY <2>5 DEF LookUp
    <2>6. CASE CopyData BY <2>6 DEF CopyData
    <2>7. CASE Refuse BY <2>7 DEF Refuse
    <2>8. CASE Create BY <2>8 DEF Create
    <2>9. CASE Register BY <2>9 DEF Register
    <2>10. CASE Insert BY <2>10 DEF Insert
    <2>11. CASE ParseArgs BY <2>11 DEF ParseArgs
    <2>12. CASE Execute BY <2>12 DEF Execute
    <2>13. CASE Acknowledge BY <2>13 DEF Acknowledge
    <2>14. CASE CmdStdout BY <2>14 DEF CmdStdout
    <2>15. CASE DeleteBegins BY <2>15 DEF DeleteBegins
    <2>16. CASE Callback BY <2>16 DEF Callback
    <2>17. CASE Unregister BY <2>17 DEF Unregister
    <2>18. CASE Iterate BY <2>18 DEF Iterate
    <2>19. CASE DeleteEnds BY <2>19 DEF DeleteEnds
    <2>20. CASE NextLine BY <2>20 DEF NextLine
    <2>21. CASE DeliverSignal BY <2>21 DEF DeliverSignal
    <2>22. CASE LogFails BY <2>22 DEF LogFails
    <2>23. CASE UNCHANGED vars BY <2>23 DEF vars
    <2>24. QED
      BY <2>1, <2>2, <2>3, <2>4, <2>5, <2>6, <2>7, <2>8, <2>9, <2>10, <2>11,
         <2>12, <2>13, <2>14, <2>15, <2>16, <2>17, <2>18, <2>19, <2>20, <2>21,
         <2>22, <2>23 DEF Next
  <1>6. cmd' \in Ids /\ alive' \subseteq Ids /\ cmds' \subseteq Ids
    <2> USE DEF TypeOK, data, command, invoker, printed
    <2>1. CASE ReadLine BY <2>1 DEF ReadLine
    <2>2. CASE ClearData BY <2>2 DEF ClearData
    <2>3. CASE FindToken BY <2>3 DEF FindToken
    <2>4. CASE FindName BY <2>4 DEF FindName
    <2>5. CASE LookUp BY <2>5 DEF LookUp
    <2>6. CASE CopyData BY <2>6 DEF CopyData
    <2>7. CASE Refuse BY <2>7 DEF Refuse
    <2>8. CASE Create
      <3>1. Cardinality(alive) <= MaxLines + MaxSignals
        BY <2>8, <1>2, FS_CardinalityType DEF Create, CountInv, Early
      <3>2. QED
        BY <2>8, <3>1, NewIdType DEF Create
    <2>9. CASE Register BY <2>9 DEF Register
    <2>10. CASE Insert BY <2>10 DEF Insert
    <2>11. CASE ParseArgs BY <2>11 DEF ParseArgs
    <2>12. CASE Execute BY <2>12 DEF Execute
    <2>13. CASE Acknowledge BY <2>13 DEF Acknowledge
    <2>14. CASE CmdStdout BY <2>14 DEF CmdStdout
    <2>15. CASE DeleteBegins BY <2>15 DEF DeleteBegins
    <2>16. CASE Callback BY <2>16 DEF Callback
    <2>17. CASE Unregister BY <2>17 DEF Unregister
    <2>18. CASE Iterate BY <2>18 DEF Iterate
    <2>19. CASE DeleteEnds BY <2>19 DEF DeleteEnds
    <2>20. CASE NextLine BY <2>20 DEF NextLine
    <2>21. CASE DeliverSignal
      <3>1. Cardinality(alive) <= MaxLines + MaxSignals
        BY <2>21, <1>2, FS_CardinalityType DEF DeliverSignal, CountInv
      <3>2. QED
        BY <2>21, <3>1, NewIdType DEF DeliverSignal
    <2>22. CASE LogFails BY <2>22 DEF LogFails
    <2>23. CASE UNCHANGED vars BY <2>23 DEF vars
    <2>24. QED
      BY <2>1, <2>2, <2>3, <2>4, <2>5, <2>6, <2>7, <2>8, <2>9, <2>10, <2>11,
         <2>12, <2>13, <2>14, <2>15, <2>16, <2>17, <2>18, <2>19, <2>20, <2>21,
         <2>22, <2>23 DEF Next
  <1>7. QED
    BY <1>1, <1>3, <1>4, <1>5, <1>6 DEF TypeOK, Booleans

LEMMA NextUsesOnlyTheLiving ==
  ASSUME TypeOK, CountInv, UsesOnlyTheLiving, [Next]_vars
  PROVE  UsesOnlyTheLiving'
  <1> USE DEF TypeOK, UsesOnlyTheLiving, data, command, invoker, printed
  <1>1. CASE ReadLine BY <1>1 DEF ReadLine
  <1>2. CASE ClearData BY <1>2 DEF ClearData
  <1>3. CASE FindToken BY <1>3 DEF FindToken
  <1>4. CASE FindName BY <1>4 DEF FindName
  <1>5. CASE LookUp BY <1>5 DEF LookUp
  <1>6. CASE CopyData BY <1>6 DEF CopyData
  <1>7. CASE Refuse BY <1>7 DEF Refuse, PrintRecord
  <1>8. CASE Create BY <1>8 DEF Create
  <1>9. CASE Register BY <1>9 DEF Register
  <1>10. CASE Insert BY <1>10 DEF Insert
  <1>11. CASE ParseArgs BY <1>11 DEF ParseArgs, Succeeds, Fails
  <1>12. CASE Execute BY <1>12 DEF Execute, Succeeds, Fails
  <1>13. CASE Acknowledge BY <1>13 DEF Acknowledge, Fails
  <1>14. CASE CmdStdout BY <1>14 DEF CmdStdout, PrintRecord
  <1>15. CASE DeleteBegins BY <1>15 DEF DeleteBegins
  <1>16. CASE Callback BY <1>16 DEF Callback
  <1>17. CASE Unregister BY <1>17 DEF Unregister, UnregisterIfEmpty
  <1>18. CASE Iterate BY <1>18 DEF Iterate
  <1>19. CASE DeleteEnds BY <1>19 DEF DeleteEnds, UnregisterIfEmpty
  <1>20. CASE NextLine BY <1>20 DEF NextLine
  <1>21. CASE DeliverSignal BY <1>21 DEF DeliverSignal
  <1>22. CASE LogFails BY <1>22 DEF LogFails
  <1>23. CASE UNCHANGED vars BY <1>23 DEF vars
  <1>24. QED
    BY <1>1, <1>2, <1>3, <1>4, <1>5, <1>6, <1>7, <1>8, <1>9, <1>10, <1>11,
       <1>12, <1>13, <1>14, <1>15, <1>16, <1>17, <1>18, <1>19, <1>20, <1>21,
       <1>22, <1>23 DEF Next

LEMMA NextLineInv ==
  ASSUME TypeOK, LineInv, [Next]_vars
  PROVE  LineInv'
  <1> USE DEF TypeOK, LineInv, Unanswered, Early, data, command, invoker, printed
  <1>1. CASE ReadLine BY <1>1 DEF ReadLine
  <1>2. CASE ClearData BY <1>2 DEF ClearData
  <1>3. CASE FindToken BY <1>3 DEF FindToken
  <1>4. CASE FindName BY <1>4 DEF FindName
  <1>5. CASE LookUp BY <1>5 DEF LookUp
  <1>6. CASE CopyData BY <1>6 DEF CopyData
  <1>7. CASE Refuse BY <1>7 DEF Refuse, PrintRecord
  <1>8. CASE Create BY <1>8 DEF Create
  <1>9. CASE Register BY <1>9 DEF Register
  <1>10. CASE Insert BY <1>10 DEF Insert
  <1>11. CASE ParseArgs BY <1>11 DEF ParseArgs, Succeeds, Fails
  <1>12. CASE Execute BY <1>12 DEF Execute, Succeeds, Fails
  <1>13. CASE Acknowledge BY <1>13 DEF Acknowledge, Fails
  <1>14. CASE CmdStdout BY <1>14 DEF CmdStdout, PrintRecord
  <1>15. CASE DeleteBegins BY <1>15 DEF DeleteBegins
  <1>16. CASE Callback BY <1>16 DEF Callback
  <1>17. CASE Unregister BY <1>17 DEF Unregister, UnregisterIfEmpty
  <1>18. CASE Iterate BY <1>18 DEF Iterate
  <1>19. CASE DeleteEnds BY <1>19 DEF DeleteEnds, UnregisterIfEmpty
  <1>20. CASE NextLine BY <1>20 DEF NextLine
  <1>21. CASE DeliverSignal BY <1>21 DEF DeliverSignal
  <1>22. CASE LogFails BY <1>22 DEF LogFails
  <1>23. CASE UNCHANGED vars BY <1>23 DEF vars
  <1>24. QED
    BY <1>1, <1>2, <1>3, <1>4, <1>5, <1>6, <1>7, <1>8, <1>9, <1>10, <1>11,
       <1>12, <1>13, <1>14, <1>15, <1>16, <1>17, <1>18, <1>19, <1>20, <1>21,
       <1>22, <1>23 DEF Next

LEMMA NextInvokerInv ==
  ASSUME TypeOK, InvokerInv, [Next]_vars
  PROVE  InvokerInv'
  <1> USE DEF TypeOK, InvokerInv, Early, Executing, data, command, invoker, printed
  <1>1. CASE ReadLine BY <1>1 DEF ReadLine
  <1>2. CASE ClearData BY <1>2 DEF ClearData
  <1>3. CASE FindToken BY <1>3 DEF FindToken
  <1>4. CASE FindName BY <1>4 DEF FindName
  <1>5. CASE LookUp BY <1>5 DEF LookUp
  <1>6. CASE CopyData BY <1>6 DEF CopyData
  <1>7. CASE Refuse BY <1>7 DEF Refuse, PrintRecord
  <1>8. CASE Create BY <1>8 DEF Create
  <1>9. CASE Register BY <1>9 DEF Register
  <1>10. CASE Insert BY <1>10 DEF Insert
  <1>11. CASE ParseArgs BY <1>11 DEF ParseArgs, Succeeds, Fails
  <1>12. CASE Execute BY <1>12 DEF Execute, Succeeds, Fails
  <1>13. CASE Acknowledge BY <1>13 DEF Acknowledge, Fails
  <1>14. CASE CmdStdout BY <1>14 DEF CmdStdout, PrintRecord
  <1>15. CASE DeleteBegins BY <1>15 DEF DeleteBegins
  <1>16. CASE Callback BY <1>16 DEF Callback
  <1>17. CASE Unregister BY <1>17 DEF Unregister, UnregisterIfEmpty
  <1>18. CASE Iterate BY <1>18 DEF Iterate
  <1>19. CASE DeleteEnds BY <1>19 DEF DeleteEnds, UnregisterIfEmpty
  <1>20. CASE NextLine BY <1>20 DEF NextLine
  <1>21. CASE DeliverSignal BY <1>21 DEF DeliverSignal
  <1>22. CASE LogFails BY <1>22 DEF LogFails
  <1>23. CASE UNCHANGED vars BY <1>23 DEF vars
  <1>24. QED
    BY <1>1, <1>2, <1>3, <1>4, <1>5, <1>6, <1>7, <1>8, <1>9, <1>10, <1>11,
       <1>12, <1>13, <1>14, <1>15, <1>16, <1>17, <1>18, <1>19, <1>20, <1>21,
       <1>22, <1>23 DEF Next

\* What the interpreter's steps do to the token.
LEMMA Tokens ==
  ASSUME TypeOK
  PROVE  /\ NoData.token = NoToken
         /\ \A t : [miCmdData EXCEPT !.token = t].token = t
         /\ \A n : [miCmdData EXCEPT !.name = n].token = miCmdData.token
         /\ \A n : [token |-> NoToken, name |-> n].token = NoToken
  BY DEF TypeOK, CmdData, NoData

\* A record without a token, or with the one of a line not yet answered, keeps the
\* order.
LEMMA OneMoreRecord ==
  ASSUME TypeOK, AnswersInOrder, NEW t, out' = Append(out, t), lines' = lines,
         t = NoToken \/ (t = lines /\ \A i \in DOMAIN out : out[i] < lines)
  PROVE  /\ AnswersInOrder'
         /\ t = NoToken /\ lines > 0 /\ (\A i \in DOMAIN out : out[i] < lines) =>
              \A i \in DOMAIN out' : out'[i] < lines
  <1>1. MaxLines \in Nat
    BY Zenon, PipelineAssumption
  <1>2. out \in Seq(Nat) /\ t \in Nat /\ lines \in Nat
    <2>1. \A i \in DOMAIN out : out[i] \in Nat
      BY <1>1 DEF TypeOK
    <2>2. QED
      BY <1>1, <2>1 DEF TypeOK, NoToken
  <1>3. /\ DOMAIN out = 1..Len(out) /\ DOMAIN out' = 1..(Len(out) + 1)
        /\ \A i \in DOMAIN out : out'[i] = out[i] /\ out[i] \in Nat
        /\ out'[Len(out) + 1] = t /\ Len(out) \in Nat
    BY <1>2
  <1>4. QED
    BY <1>2, <1>3 DEF AnswersInOrder, NoToken

LEMMA NextAnswerInv ==
  ASSUME TypeOK, LineInv, AnswerInv, [Next]_vars
  PROVE  AnswerInv'
  <1> USE DEF TypeOK, LineInv, AnswerInv, Unanswered, Early, Answered, Expected,
              data, command, invoker, printed
  <1>1. CASE ReadLine BY <1>1 DEF ReadLine
  <1>2. CASE ClearData BY <1>2, Tokens DEF ClearData
  <1>3. CASE FindToken BY <1>3, Tokens DEF FindToken
  <1>4. CASE FindName BY <1>4, Tokens DEF FindName
  <1>5. CASE LookUp BY <1>5 DEF LookUp
  <1>6. CASE CopyData BY <1>6 DEF CopyData
  <1>7. CASE Refuse BY <1>7 DEF Refuse, PrintRecord
  <1>8. CASE Create BY <1>8 DEF Create
  <1>9. CASE Register BY <1>9 DEF Register
  <1>10. CASE Insert BY <1>10 DEF Insert
  <1>11. CASE ParseArgs BY <1>11 DEF ParseArgs, Succeeds, Fails
  <1>12. CASE Execute BY <1>12 DEF Execute, Succeeds, Fails
  <1>13. CASE Acknowledge BY <1>13 DEF Acknowledge, Fails
  <1>14. CASE CmdStdout BY <1>14 DEF CmdStdout, PrintRecord
  <1>15. CASE DeleteBegins BY <1>15 DEF DeleteBegins
  <1>16. CASE Callback BY <1>16 DEF Callback
  <1>17. CASE Unregister BY <1>17 DEF Unregister, UnregisterIfEmpty
  <1>18. CASE Iterate BY <1>18 DEF Iterate
  <1>19. CASE DeleteEnds BY <1>19 DEF DeleteEnds, UnregisterIfEmpty
  <1>20. CASE NextLine BY <1>20 DEF NextLine
  <1>21. CASE DeliverSignal BY <1>21 DEF DeliverSignal
  <1>22. CASE LogFails BY <1>22 DEF LogFails
  <1>23. CASE UNCHANGED vars BY <1>23 DEF vars
  <1>24. QED
    BY <1>1, <1>2, <1>3, <1>4, <1>5, <1>6, <1>7, <1>8, <1>9, <1>10, <1>11,
       <1>12, <1>13, <1>14, <1>15, <1>16, <1>17, <1>18, <1>19, <1>20, <1>21,
       <1>22, <1>23 DEF Next

LEMMA NextOrder ==
  ASSUME TypeOK, LineInv, OrderInv, AnswersInOrder, [Next]_vars
  PROVE  OrderInv' /\ AnswersInOrder'
  <1> USE DEF TypeOK, LineInv, OrderInv, AnswersInOrder, Unanswered, Early,
              data, command, invoker, printed
  <1>1. CASE ReadLine
    <2>1. MaxLines \in Nat
      BY Zenon, PipelineAssumption
    <2>2. \A i \in DOMAIN out : out[i] \in Nat /\ out[i] <= lines
      BY <2>1
    <2>3. QED
      BY <1>1, <2>1, <2>2 DEF ReadLine
  <1>2. CASE ClearData BY <1>2, Tokens DEF ClearData
  <1>3. CASE FindToken BY <1>3, Tokens DEF FindToken
  <1>4. CASE FindName BY <1>4, Tokens DEF FindName
  <1>5. CASE LookUp BY <1>5 DEF LookUp
  <1>6. CASE CopyData BY <1>6 DEF CopyData
  <1>7. CASE Refuse BY <1>7, OneMoreRecord DEF Refuse, PrintRecord
  <1>8. CASE Create BY <1>8 DEF Create
  <1>9. CASE Register BY <1>9 DEF Register
  <1>10. CASE Insert BY <1>10 DEF Insert
  <1>11. CASE ParseArgs BY <1>11 DEF ParseArgs, Succeeds, Fails
  <1>12. CASE Execute BY <1>12 DEF Execute, Succeeds, Fails
  <1>13. CASE Acknowledge BY <1>13 DEF Acknowledge, Fails
  <1>14. CASE CmdStdout BY <1>14, OneMoreRecord DEF CmdStdout, PrintRecord
  <1>15. CASE DeleteBegins BY <1>15 DEF DeleteBegins
  <1>16. CASE Callback BY <1>16 DEF Callback
  <1>17. CASE Unregister BY <1>17 DEF Unregister, UnregisterIfEmpty
  <1>18. CASE Iterate BY <1>18 DEF Iterate
  <1>19. CASE DeleteEnds BY <1>19 DEF DeleteEnds, UnregisterIfEmpty
  <1>20. CASE NextLine BY <1>20 DEF NextLine
  <1>21. CASE DeliverSignal
    <2>1. CASE out' = out BY <1>21, <2>1, Tokens DEF DeliverSignal
    <2>2. CASE out' = Append(out, NoToken)
      BY <1>21, <2>2, Tokens, OneMoreRecord DEF DeliverSignal
    <2>3. QED
      BY <1>21, <2>1, <2>2 DEF DeliverSignal
  <1>22. CASE LogFails BY <1>22 DEF LogFails
  <1>23. CASE UNCHANGED vars BY <1>23 DEF vars
  <1>24. QED
    BY <1>1, <1>2, <1>3, <1>4, <1>5, <1>6, <1>7, <1>8, <1>9, <1>10, <1>11,
       <1>12, <1>13, <1>14, <1>15, <1>16, <1>17, <1>18, <1>19, <1>20, <1>21,
       <1>22, <1>23 DEF Next

\* Only Create and DeliverSignal add an object: one, for a line or a signal that has
\* been counted.
LEMMA NextCountInv ==
  ASSUME TypeOK, CountInv, [Next]_vars
  PROVE  CountInv'
  <1>1. /\ lines \in Nat /\ signals \in Nat
        /\ IsFiniteSet(alive) /\ Cardinality(alive) \in Nat
    BY FS_CardinalityType DEF TypeOK, CountInv
  <1>2. \A i : /\ IsFiniteSet(alive \cup {i}) /\ IsFiniteSet(alive \ {i})
               /\ Cardinality(alive \cup {i}) \in Nat
               /\ Cardinality(alive \ {i}) \in Nat
               /\ Cardinality(alive \cup {i}) <= Cardinality(alive) + 1
               /\ Cardinality(alive \ {i}) <= Cardinality(alive)
    <2>1. TAKE i
    <2>2. alive \ {i} \subseteq alive
      OBVIOUS
    <2>3. /\ IsFiniteSet(alive \cup {i})
          /\ Cardinality(alive \cup {i}) \in {Cardinality(alive), Cardinality(alive) + 1}
      BY <1>1, FS_AddElement
    <2>4. IsFiniteSet(alive \ {i}) /\ Cardinality(alive \ {i}) <= Cardinality(alive)
      BY <1>1, <2>2, FS_Subset
    <2>5. QED
      BY <1>1, <2>3, <2>4, FS_CardinalityType
  <1> USE <1>1 DEF CountInv, Early, data, command, invoker, printed
  <1>3. CASE Create
    <2>1. PICK i : alive' \in {alive, alive \cup {i}}
      BY <1>3 DEF Create
    <2>2. /\ IsFiniteSet(alive') /\ Cardinality(alive') \in Nat
          /\ Cardinality(alive') <= Cardinality(alive) + 1
      <3>1. CASE alive' = alive
        BY <3>1
      <3>2. CASE alive' = alive \cup {i}
        BY <1>2, <3>2, Zenon
      <3>3. QED
        BY <2>1, <3>1, <3>2
    <2>3. QED
      BY <1>3, <2>2 DEF Create
  <1>4. CASE DeliverSignal
    <2>1. PICK i : alive' \in {alive, alive \cup {i}}
      BY <1>4 DEF DeliverSignal
    <2>2. /\ IsFiniteSet(alive') /\ Cardinality(alive') \in Nat
          /\ Cardinality(alive') <= Cardinality(alive) + 1
      <3>1. CASE alive' = alive
        BY <3>1
      <3>2. CASE alive' = alive \cup {i}
        BY <1>2, <3>2, Zenon
      <3>3. QED
        BY <2>1, <3>1, <3>2
    <2>3. QED
      BY <1>4, <2>2 DEF DeliverSignal
  <1>5. CASE Callback
    <2>1. PICK i : alive' \in {alive, alive \ {i}}
      BY <1>5 DEF Callback
    <2>2. /\ IsFiniteSet(alive') /\ Cardinality(alive') \in Nat
          /\ Cardinality(alive') <= Cardinality(alive)
      BY <1>2, <2>1
    <2>3. QED
      BY <1>5, <2>2 DEF Callback
  <1>6. CASE ReadLine
    BY <1>6 DEF ReadLine
  <1>7. CASE \/ ClearData \/ FindToken \/ FindName \/ LookUp \/ CopyData
    BY <1>7 DEF ClearData, FindToken, FindName, LookUp, CopyData
  <1>8. CASE \/ Refuse \/ Register \/ Insert \/ ParseArgs \/ Execute \/ Acknowledge
             \/ CmdStdout
    BY <1>8 DEF Refuse, Register, Insert, ParseArgs, Execute, Acknowledge, CmdStdout,
                Succeeds, Fails
  <1>9. CASE \/ DeleteBegins \/ Unregister \/ Iterate \/ DeleteEnds \/ NextLine
             \/ LogFails
    BY <1>9 DEF DeleteBegins, Unregister, Iterate, DeleteEnds, NextLine, LogFails
  <1>10. CASE UNCHANGED vars
    BY <1>10 DEF vars
  <1>11. QED
    BY <1>3, <1>4, <1>5, <1>6, <1>7, <1>8, <1>9, <1>10 DEF Next

LEMMA NextIInv == IInv /\ [Next]_vars => IInv'
  BY NextTypeOK, NextCountInv, NextUsesOnlyTheLiving, NextLineInv, NextOrder,
     NextInvokerInv, NextAnswerInv DEF IInv

\* The inductive invariant of the specification.
THEOREM SpecIInv == Spec => []IInv
  BY InitIInv, NextIInv, PTL DEF Spec

\* CommandPipeline's variables keep their types.
THEOREM PipelineTypeOK == Spec => []TypeOK
  BY SpecIInv, PTL DEF IInv

\* Whatever SIGINTs and a failing log do, each result record carries no token or
\* that of a line already read, and the tokens come in the order of the lines:
\* what a client relies on to match answers with commands.
THEOREM AnswersComeInOrder == Spec => []AnswersInOrder
  BY SpecIInv, PTL DEF IInv

\* A line that no SIGINT disturbs has one record with its token when its
\* interpretation ends, unless its command fails silently.
THEOREM LinesHaveOneAnswer == Spec => []OneAnswer
  <1>1. IInv => OneAnswer
    BY DEF IInv, AnswerInv, OneAnswer, Answered
  <1>2. QED
    BY <1>1, SpecIInv, PTL

\* With or without SIGINTs, every command in the invoker's map exists, and so does
\* the command that is registered, executed, printed or about to be deleted.
THEOREM CommandsInUseLive == Spec => []UsesOnlyTheLiving
  BY SpecIInv, PTL DEF IInv

\* Without SIGINTs the roundabout deletion leaves no command in the map or in
\* memory and no registration between two lines.
THEOREM DeletionIsComplete == Spec => []NothingLeftBehind
  <1>1. IInv => NothingLeftBehind
    BY DEF IInv, InvokerInv, NothingLeftBehind
  <1>2. QED
    BY <1>1, SpecIInv, PTL

\* The invoker unregisters from within the loop that notifies it, and the flag it
\* raises keeps the loop from using its erased iterator; a SIGINT may spoil that.
THEOREM DeletionIsDefined == Spec => []DeleteLoopIsDefined
  <1>1. IInv => DeleteLoopIsDefined
    BY DEF IInv, TypeOK, InvokerInv, DeleteLoopIsDefined
  <1>2. QED
    BY <1>1, SpecIInv, PTL
=============================================================================
