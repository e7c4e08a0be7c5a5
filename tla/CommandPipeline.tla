--------------------------- MODULE CommandPipeline ---------------------------
(***************************************************************************)
(* From a line of input to its result record.                              *)
(*                                                                         *)
(* InterpretCommand wraps a console command into -interpreter-exec, takes  *)
(* the line apart (CMICmdInterpreter), creates a command object            *)
(* (CMICmdFactory), and has it parsed, executed, acknowledged, printed and *)
(* deleted (CMICmdInvoker).  The invoker deletes a command in a roundabout *)
(* way: it asks CMICmdMgr to notify everyone registered for deletions,     *)
(* which is the invoker itself, as long as its map is not empty.           *)
(*                                                                         *)
(* The main thread runs these steps under the session mutex.  A SIGINT     *)
(* that lands on it between two of them interprets -exec-interrupt from    *)
(* start to end, with the same interpreter, invoker and callbacks.         *)
(***************************************************************************)
EXTENDS Naturals, Sequences

CONSTANTS
  Commands,   \* names in the factory, other than ExecInterrupt and InterpreterExec
  Unknown,    \* names that are not
  Silent,     \* commands whose Execute may fail without calling SetError
  MaxLines,   \* bound: lines of input
  MaxSignals, \* bound: SIGINTs
  LogMayFail  \* a write to the log may fail from some moment on

ExecInterrupt   == "exec-interrupt"
InterpreterExec == "interpreter-exec"

\* What the factory knows after RegisterAll.
Registered == Commands \cup {ExecInterrupt, InterpreterExec}

ASSUME PipelineAssumption ==
  /\ Silent \subseteq Commands
  /\ Unknown \cap Registered = {}
  /\ MaxLines \in Nat /\ MaxSignals \in Nat /\ LogMayFail \in BOOLEAN

\* A line is digits (a token, a number greater than 0) or none, and the rest:
\* nothing, a hyphen with no name, a hyphen with a name, or a console command.
NoToken == 0
Rests == {"nothing", "hyphen", "console"} \cup Commands \cup Unknown
Lines == {l \in [token : 0..MaxLines, rest : Rests] :
            l.rest = "nothing" => l.token # NoToken}

NoName == "none"
CmdData == [token : 0..MaxLines, name : Registered \cup Unknown \cup {NoName}]
NoData == [token |-> NoToken, name |-> NoName]

VARIABLES
  pc,         \* control point of the main thread
  line,       \* the line it interprets
  miCmdData,  \* m_miCmdData of the one interpreter
  valid,      \* vwbYesValid
  cmdData,    \* the command's copy of m_miCmdData
  cmd,        \* the command object, by its id
  record,     \* it has a result record to print
  failed,     \* it has failed
  alive,      \* ids of the command objects not yet deleted
  cmds,       \* m_mapCmdIdToCmd, by its ids
  registered, \* the invoker is in m_setCmdDeleteCallback
  flag,       \* m_bClientUnregistered
  logOk,      \* writing to the log succeeds
  \* History:
  answers,    \* tokens of the records the main thread has printed for line
  out,        \* tokens of all result records
  lines, signals

data    == <<line, miCmdData, valid, cmdData>>
command == <<cmd, record, failed>>
invoker == <<alive, cmds, registered, flag>>
printed == <<answers, out>>
vars == <<pc, data, command, invoker, logOk, printed, lines, signals>>

Points == {"read", "clear", "token", "name", "lookup", "copy", "refuse",
           "create", "register", "insert", "parse", "execute", "acknowledge",
           "print", "delete", "callback", "unregister", "iterate", "last",
           "done", "ended", "undefined"}

Ids == 1..(1 + MaxLines + MaxSignals)

TypeOK ==
  /\ pc \in Points
  /\ line \in Lines \cup {NoData}
  /\ miCmdData \in CmdData /\ cmdData \in CmdData
  /\ cmd \in Ids /\ alive \subseteq Ids /\ cmds \subseteq Ids
  /\ valid \in BOOLEAN /\ record \in BOOLEAN /\ failed \in BOOLEAN
  /\ registered \in BOOLEAN /\ flag \in BOOLEAN /\ logOk \in BOOLEAN
  /\ answers \in Seq(0..MaxLines) /\ out \in Seq(0..MaxLines)
  /\ lines \in 0..MaxLines /\ signals \in 0..MaxSignals

Init ==
  /\ pc = "read" /\ line = NoData
  /\ miCmdData = NoData /\ cmdData = NoData /\ valid = FALSE
  /\ cmd = 1 /\ record = FALSE /\ failed = FALSE
  /\ alive = {} /\ cmds = {} /\ registered = FALSE /\ flag = FALSE
  /\ logOk = TRUE
  /\ answers = <<>> /\ out = <<>>
  /\ lines = 0 /\ signals = 0

-----------------------------------------------------------------------------
(* Interpreting a line *)

\* The client numbers its lines or leaves the token out.
ReadLine ==
  /\ pc = "read" /\ lines < MaxLines
  /\ lines' = lines + 1
  /\ line' \in {l \in Lines : l.token \in {NoToken, lines + 1}}
  /\ answers' = <<>>
  /\ pc' = "clear"
  /\ UNCHANGED <<miCmdData, valid, cmdData, command, invoker, logOk, out, signals>>

\* ClearData that leaves the last line's data in the interpreter (mutant).
ClearDataKeeps ==
  /\ pc = "clear"
  /\ cmdData' = NoData /\ valid' = FALSE
  /\ pc' = "token"
  /\ UNCHANGED <<line, miCmdData, command, invoker, logOk, printed, lines, signals>>

ClearData ==
  /\ pc = "clear"
  /\ miCmdData' = NoData /\ cmdData' = NoData /\ valid' = FALSE
  /\ pc' = "token"
  /\ UNCHANGED <<line, command, invoker, logOk, printed, lines, signals>>

\* FindToken that forgets the token (mutant).
FindTokenForgets ==
  /\ pc = "token"
  /\ pc' = IF line.rest = "nothing" THEN "copy" ELSE "name"
  /\ UNCHANGED <<data, command, invoker, logOk, printed, lines, signals>>

\* After wrapping, only a line of digits has no hyphen.  It has no letter behind
\* its digits either, so that it is not in the old style.
FindToken ==
  /\ pc = "token"
  /\ IF line.rest = "nothing"
       THEN /\ pc' = "copy"
            /\ UNCHANGED miCmdData
       ELSE /\ pc' = "name"
            /\ miCmdData' = [miCmdData EXCEPT !.token = line.token]
  /\ UNCHANGED <<line, valid, cmdData, command, invoker, logOk, printed, lines, signals>>

\* A console command is an argument of -interpreter-exec.
NameIn(l) == IF l.rest = "console" THEN InterpreterExec ELSE l.rest

FindName ==
  /\ pc = "name"
  /\ IF line.rest = "hyphen"
       THEN /\ pc' = "copy"
            /\ UNCHANGED miCmdData
       ELSE /\ pc' = "lookup"
            /\ miCmdData' = [miCmdData EXCEPT !.name = NameIn(line)]
  /\ UNCHANGED <<line, valid, cmdData, command, invoker, logOk, printed, lines, signals>>

LookUp ==
  /\ pc = "lookup"
  /\ valid' = (miCmdData.name \in Registered)
  /\ pc' = "copy"
  /\ UNCHANGED <<line, miCmdData, cmdData, command, invoker, logOk, printed, lines, signals>>

CopyData ==
  /\ pc = "copy"
  /\ cmdData' = miCmdData
  /\ pc' = IF valid THEN "create" ELSE "refuse"
  /\ UNCHANGED <<line, miCmdData, valid, command, invoker, logOk, printed, lines, signals>>

PrintRecord(t) ==
  /\ answers' = Append(answers, t)
  /\ out' = Append(out, t)

\* The record is printed before it is logged.  A failure ends the main loop.
Refuse ==
  /\ pc = "refuse"
  /\ PrintRecord(cmdData.token)
  /\ pc' = IF logOk THEN "done" ELSE "ended"
  /\ UNCHANGED <<data, command, invoker, logOk, lines, signals>>

-----------------------------------------------------------------------------
(* Executing a command *)

\* An id is made of the object's address, which may have been another's before.
NewId(ids) == CHOOSE i \in Ids : i \notin ids

Create ==
  /\ pc = "create"
  /\ cmd' = NewId(alive)
  /\ alive' = alive \cup {cmd'}
  /\ record' = FALSE /\ failed' = FALSE
  /\ pc' = "register"
  /\ UNCHANGED <<data, cmds, registered, flag, logOk, printed, lines, signals>>

\* CmdAdd registers for deletions when the map is empty, and then inserts.
Register ==
  /\ pc = "register"
  /\ registered' = (registered \/ cmds = {})
  /\ pc' = "insert"
  /\ UNCHANGED <<data, command, alive, cmds, flag, logOk, printed, lines, signals>>

Insert ==
  /\ pc = "insert"
  /\ cmds' = cmds \cup {cmd}
  /\ pc' = "parse"
  /\ UNCHANGED <<data, command, alive, registered, flag, logOk, printed, lines, signals>>

Succeeds(next) ==
  /\ pc' = next
  /\ UNCHANGED <<record, failed>>

\* SetError makes the ^error record; without it there is no record to print.
Fails(withError) ==
  /\ pc' = "print"
  /\ failed' = TRUE
  /\ record' = withError

ParseArgs ==
  /\ pc = "parse"
  /\ Succeeds("execute") \/ Fails(TRUE)
  /\ UNCHANGED <<data, cmd, invoker, logOk, printed, lines, signals>>

Execute ==
  /\ pc = "execute"
  /\ \/ Succeeds("acknowledge")
     \/ Fails(TRUE)
     \/ cmdData.name \in Silent /\ Fails(FALSE)
  /\ UNCHANGED <<data, cmd, invoker, logOk, printed, lines, signals>>

\* -interpreter-exec writes the console's output here and fails with the log.
Acknowledge ==
  /\ pc = "acknowledge"
  /\ \/ /\ pc' = "print"
        /\ record' = TRUE
        /\ UNCHANGED failed
     \/ cmdData.name = InterpreterExec /\ ~logOk /\ Fails(FALSE)
  /\ UNCHANGED <<data, cmd, invoker, logOk, printed, lines, signals>>

\* CmdStdout after which a failed command is not deleted (mutant).
CmdStdoutReturnsEarly ==
  /\ pc = "print"
  /\ IF logOk /\ record THEN PrintRecord(cmdData.token) ELSE UNCHANGED printed
  /\ pc' = CASE ~logOk -> "ended" [] failed -> "done" [] OTHER -> "delete"
  /\ UNCHANGED <<data, command, invoker, logOk, lines, signals>>

\* CmdStdout: the line is logged first, and if that fails nothing is printed and
\* CmdExecuteFinished returns before it deletes the command.  What becomes of the
\* writing itself is ignored; there is nothing to write when there is no record.
CmdStdout ==
  /\ pc = "print"
  /\ IF logOk /\ record THEN PrintRecord(cmdData.token) ELSE UNCHANGED printed
  /\ pc' = IF logOk \/ failed THEN "delete" ELSE "ended"
  /\ UNCHANGED <<data, command, invoker, logOk, lines, signals>>

-----------------------------------------------------------------------------
(* Deleting a command *)

\* CmdDelete(id, false): CMICmdMgr resets the flag and starts over its clients.
DeleteBegins ==
  /\ pc = "delete"
  /\ flag' = FALSE
  /\ pc' = IF registered THEN "callback" ELSE "last"
  /\ UNCHANGED <<data, command, alive, cmds, registered, logOk, printed, lines, signals>>

\* A callback that deletes the object and forgets the map (mutant).
CallbackKeepsEntry ==
  /\ pc = "callback"
  /\ alive' = alive \ {cmd}
  /\ pc' = "unregister"
  /\ UNCHANGED <<data, command, cmds, registered, flag, logOk, printed, lines, signals>>

\* The callback is CmdDelete(id, true).
Callback ==
  /\ pc = "callback"
  /\ cmds' = cmds \ {cmd}
  /\ alive' = IF cmd \in cmds THEN alive \ {cmd} ELSE alive
  /\ pc' = "unregister"
  /\ UNCHANGED <<data, command, registered, flag, logOk, printed, lines, signals>>

\* Unregistering that does not tell the loop (mutant).
UnregisterUntold ==
  IF cmds = {}
    THEN registered' = FALSE /\ UNCHANGED flag
    ELSE UNCHANGED <<registered, flag>>

UnregisterIfEmpty ==
  IF cmds = {}
    THEN registered' = FALSE /\ flag' = TRUE
    ELSE UNCHANGED <<registered, flag>>

Unregister ==
  /\ pc = "unregister"
  /\ UnregisterIfEmpty
  /\ pc' = "iterate"
  /\ UNCHANGED <<data, command, alive, cmds, logOk, printed, lines, signals>>

\* Start over if someone has unregistered, else step an iterator that is valid
\* only if its element is still there.
Iterate ==
  /\ pc = "iterate"
  /\ flag' = FALSE
  /\ pc' = IF flag THEN IF registered THEN "callback" ELSE "last"
                   ELSE IF registered THEN "last" ELSE "undefined"
  /\ UNCHANGED <<data, command, alive, cmds, registered, logOk, printed, lines, signals>>

\* Back in CmdDelete(id, false).
DeleteEnds ==
  /\ pc = "last"
  /\ UnregisterIfEmpty
  /\ pc' = "done"
  /\ UNCHANGED <<data, command, alive, cmds, logOk, printed, lines, signals>>

NextLine ==
  /\ pc = "done"
  /\ pc' = "read"
  /\ UNCHANGED <<data, command, invoker, logOk, printed, lines, signals>>

-----------------------------------------------------------------------------
(* SIGINT *)

\* InterpretCommand("-exec-interrupt") from start to end: m_miCmdData is left with
\* this line, and the map and the callbacks as its own CmdAdd and CmdDelete leave
\* them.  Its command stays if there is nobody to notify, or if the log fails a
\* command that has succeeded.
DeliverSignal ==
  /\ signals < MaxSignals
  /\ pc \notin {"ended", "undefined"}
  /\ signals' = signals + 1
  /\ miCmdData' = [token |-> NoToken, name |-> ExecInterrupt]
  /\ out' = IF logOk THEN Append(out, NoToken) ELSE out
  /\ LET added == registered \/ cmds = {} IN
     \E deletes \in {TRUE, logOk} :
       /\ flag' = IF deletes THEN cmds = {} ELSE flag
       /\ IF deletes /\ added
            THEN registered' = (cmds # {}) /\ UNCHANGED <<alive, cmds>>
            ELSE /\ registered' = added
                 /\ alive' = alive \cup {NewId(alive)}
                 /\ cmds' = cmds \cup {NewId(alive)}
  /\ UNCHANGED <<pc, line, valid, cmdData, command, logOk, answers, lines>>

\* The disk of the log file is full, say.
LogFails ==
  /\ LogMayFail /\ logOk
  /\ logOk' = FALSE
  /\ UNCHANGED <<pc, data, command, invoker, printed, lines, signals>>

Next ==
  \/ ReadLine \/ ClearData \/ FindToken \/ FindName \/ LookUp \/ CopyData \/ Refuse
  \/ Create \/ Register \/ Insert
  \/ ParseArgs \/ Execute \/ Acknowledge \/ CmdStdout
  \/ DeleteBegins \/ Callback \/ Unregister \/ Iterate \/ DeleteEnds
  \/ NextLine
  \/ DeliverSignal \/ LogFails

Spec == Init /\ [][Next]_vars

-----------------------------------------------------------------------------
(* Properties *)

\* The token with which the line should be answered.  Bare digits are no command,
\* and their token is lost.
Expected(l) == IF l.rest = "nothing" THEN NoToken ELSE l.token

\* When InterpretCommand returns, the line has been answered by one record with
\* its token, or by none if its command is one that may fail silently.  Excepted
\* are sessions with a SIGINT, which replaces the line between its recognition
\* and the copy, and lines met by a failing log.
OneAnswer ==
  pc = "done" /\ signals = 0 /\ logOk =>
    \/ answers = <<Expected(line)>>
    \/ answers = <<>> /\ cmdData.name \in Silent

\* The same without the exception for silent failures (SMICmdData: "Each command
\* forms 1 response to its input").
EachCommandAnswered ==
  pc = "done" /\ signals = 0 /\ logOk => Len(answers) = 1

\* Whatever SIGINTs and the log do, the tokens of the records are those of lines
\* already read, in the order of the lines and none twice.
AnswersInOrder ==
  \A i, j \in DOMAIN out :
    /\ out[i] <= lines
    /\ i < j /\ out[i] # NoToken /\ out[j] # NoToken => out[i] < out[j]

\* Between two lines no command is left in the map or in memory, and nobody is
\* registered for deletions.  Excepted are sessions with a SIGINT: between the test
\* for an empty map and the insertion it unregisters the invoker, and then nothing
\* is ever deleted again.
NothingLeftBehind ==
  pc \in {"done", "read"} /\ signals = 0 =>
    cmds = {} /\ alive = {} /\ ~registered

\* A command that is executed, printed or about to be deleted exists, and the map
\* has no pointer to a deleted command, with SIGINTs too.
UsesOnlyTheLiving ==
  /\ cmds \subseteq alive
  /\ pc \in {"register", "insert", "parse", "execute", "acknowledge", "print",
             "delete"} => cmd \in alive

\* The loop over the clients does not step an iterator to an erased element, which
\* the invoker does erase from within; except when a SIGINT has reset the flag.
DeleteLoopIsDefined ==
  pc = "undefined" => signals > 0
=============================================================================
