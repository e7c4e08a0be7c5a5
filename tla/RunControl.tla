----------------------------- MODULE RunControl -----------------------------
(***************************************************************************)
(* Running and stopping the inferior.                                      *)
(*                                                                         *)
(* The exec-* and target-* commands drive LLDB's process; the event thread *)
(* reports its stops and exits to the client; m_eCurrentDriverState says   *)
(* whether a SIGINT should interrupt the inferior.  When the debugger is   *)
(* synchronous LLDB keeps the events of a resumed process to itself, and   *)
(* InterpretCommand broadcasts the stop event again after the command if   *)
(* the process's stop id has changed.                                      *)
(*                                                                         *)
(* A command runs under the session mutex and is cut into steps only where *)
(* the SIGINT handler, which takes no lock, can see the difference; a      *)
(* handler of the event thread is one step.  The event thread has the      *)
(* event in hand before it waits for the session mutex (module EventLoop), *)
(* so a command may run between the two.                                   *)
(***************************************************************************)
EXTENDS Integers, Sequences

CONSTANTS
  Modes,      \* values of SBDebugger::GetAsync() to start with
  Reasons,    \* reasons for a stop: a subset of AllReasons
  MaxRuns,    \* bound: processes launched or attached to
  MaxStops,   \* bound: stops of one process, which may still exit
  MaxOutput,  \* bound: pieces of output of all processes
  MaxSignals, \* bound: SIGINTs
  MaxSwitches \* bound: changes of target-async

\* "stopat" is a breakpoint or watchpoint hit, "report" any other reason with a
\* record, "clone" a SIGTRAP in __pthread_clone, "silent" a reason that prints
\* nothing: another SIGTRAP, exec, fork, a thread that exits.
AllReasons == {"stopat", "report", "clone", "silent"}

ASSUME RunControlAssumption ==
  /\ Modes \subseteq BOOLEAN
  /\ Reasons \subseteq AllReasons
  /\ MaxRuns \in Nat /\ MaxStops \in Nat /\ MaxOutput \in Nat
  /\ MaxSignals \in Nat /\ MaxSwitches \in Nat

VARIABLES
  async,      \* SBDebugger::GetAsync()
  state,      \* LLDB: what the inferior does
  reason,     \* LLDB: why its selected thread has stopped
  runLock,    \* LLDB: the SB API takes the process for running
  stopId,     \* LLDB: the process's stop id, 0 without a process
  queue,      \* the listener's pending process events
  pending,    \* LLDB: pieces of the inferior's output nobody has fetched
  ev,         \* control point of the event thread
  taken,      \* the event it has taken, or NoEvent
  driver,     \* m_eCurrentDriverState
  lastStopId, \* m_nLastStopId
  pc,         \* control point of the main thread
  need,       \* its bNeedToRebroadcastStopEvent
  marks,      \* its command sets RunningDebugging when it succeeds
  sig,        \* control point of the SIGINT handler
  sigNeed,    \* its bNeedToRebroadcastStopEvent
  \* What the client has read, and history for the bounds and the properties:
  view,       \* the last of *running, *stopped and "exited" that was printed
  reports,    \* *stopped records printed since the process was last resumed
  nested,     \* a handler has resumed the process of a synchronous session
  runs, signals, switches, outputs

process == <<state, reason, runLock, stopId>>
events  == <<queue, ev, taken>>
main    == <<pc, need, marks>>
handler == <<sig, sigNeed>>
client  == <<view, reports>>
bounds  == <<nested, runs, signals, switches, outputs>>
vars == <<async, process, pending, events, driver, lastStopId, main, handler,
          client, bounds>>

States  == {"none", "running", "stopped", "exited"}
NoEvent == [kind |-> "none", first |-> FALSE]

\* first: nobody has taken the event from a listener before.
Events == [kind : {"running", "stopped", "exited", "restarted", "stdout"},
           first : BOOLEAN]
Event(k)     == [kind |-> k, first |-> TRUE]
SeenEvent(k) == [kind |-> k, first |-> FALSE]

TypeOK ==
  /\ async \in BOOLEAN
  /\ state \in States /\ reason \in AllReasons \cup {"none"}
  /\ runLock \in BOOLEAN
  /\ stopId \in 0..MaxStops + 1
  /\ queue \in Seq(Events)
  /\ pending \in 0..outputs /\ outputs \in 0..MaxOutput
  /\ ev \in {"top", "handle", "continuing"}
  /\ taken \in Events \cup {NoEvent}
  /\ driver \in {"debugging", "notDebugging"}
  /\ lastStopId \in 0..MaxStops + 1
  /\ pc \in {"idle", "waiting", "mark", "end", "drain"}
  /\ need \in BOOLEAN /\ marks \in BOOLEAN
  /\ sig \in {"idle", "begin", "stop", "end"} /\ sigNeed \in BOOLEAN
  /\ view \in {"none", "running", "stopped", "exited"}
  /\ reports \in Nat /\ nested \in BOOLEAN
  /\ runs \in 0..MaxRuns /\ signals \in 0..MaxSignals
  /\ switches \in 0..MaxSwitches

Init ==
  /\ async \in Modes
  /\ state = "none" /\ reason = "none" /\ runLock = FALSE /\ stopId = 0
  /\ queue = <<>> /\ pending = 0
  /\ ev = "top" /\ taken = NoEvent
  /\ driver = "notDebugging" /\ lastStopId = 0
  /\ pc = "idle" /\ need = FALSE /\ marks = FALSE
  /\ sig = "idle" /\ sigNeed = FALSE
  /\ view = "none" /\ reports = 0 /\ nested = FALSE
  /\ runs = 0 /\ signals = 0 /\ switches = 0 /\ outputs = 0

(***************************************************************************)
(* LLDB, outside lldb-mi.                                                  *)
(***************************************************************************)

\* A synchronous resume listens to the process's state itself.
Hijacked == pc = "waiting" \/ ev = "continuing"

Broadcast(e) == queue' = Append(queue, e)
BroadcastState(e) == IF Hijacked THEN queue' = queue ELSE Broadcast(e)

InferiorStops ==
  /\ state = "running" /\ stopId < MaxStops
  /\ state' = "stopped" /\ reason' \in Reasons
  /\ stopId' = stopId + 1
  /\ runLock' = ~Hijacked
  /\ BroadcastState(Event("stopped"))
  /\ UNCHANGED <<async, pending, ev, taken, driver, lastStopId, main, handler,
                 client, bounds>>

InferiorExits ==
  /\ state = "running"
  /\ state' = "exited"
  /\ stopId' = stopId + 1
  /\ runLock' = ~Hijacked
  /\ BroadcastState(Event("exited"))
  /\ UNCHANGED <<async, reason, pending, ev, taken, driver, lastStopId, main,
                 handler, client, bounds>>

\* A stop that LLDB itself continues from.
InferiorRestarts ==
  /\ state = "running" /\ stopId < MaxStops
  /\ stopId' = stopId + 1
  /\ BroadcastState(Event("restarted"))
  /\ UNCHANGED <<async, state, reason, runLock, pending, ev, taken, driver,
                 lastStopId, main, handler, client, bounds>>

\* One output event is pending at most.
InferiorPrints ==
  /\ state = "running" /\ outputs < MaxOutput
  /\ outputs' = outputs + 1 /\ pending' = pending + 1
  /\ IF \E i \in DOMAIN queue : queue[i].kind = "stdout"
     THEN queue' = queue ELSE Broadcast(Event("stdout"))
  /\ UNCHANGED <<async, process, ev, taken, driver, lastStopId, main, handler,
                 client, nested, runs, signals, switches>>

\* SBProcess::Continue and the steps of SBThread, when the process is stopped.
Resume ==
  /\ state' = "running" /\ reason' = "none" /\ runLock' = TRUE
  /\ reports' = 0
  /\ IF async THEN Broadcast(Event("running")) ELSE queue' = queue
  /\ UNCHANGED <<stopId, view>>

\* SBProcess::Stop.  LLDB takes the stop event from the listener before it
\* broadcasts it.
Stop ==
  \/ /\ runLock /\ state = "running" /\ stopId < MaxStops
     /\ state' = "stopped" /\ reason' = "report" /\ runLock' = FALSE
     /\ stopId' = stopId + 1
     /\ BroadcastState(SeenEvent("stopped"))
     /\ driver' = "notDebugging"
  \/ /\ runLock /\ state # "running"
     /\ driver' \in {driver, "notDebugging"}
     /\ UNCHANGED <<process, queue>>
  \/ /\ ~runLock
     /\ UNCHANGED <<process, queue, driver>>

(***************************************************************************)
(* InterpretCommand.                                                       *)
(***************************************************************************)

\* Mutant: the test of the mode is inverted.
CheckInverted(needed) ==
  /\ needed' = async
  /\ lastStopId' = IF async THEN stopId ELSE lastStopId

\* CheckIfNeedToRebroadcastStopEvent, on either thread.
Check(needed) ==
  /\ needed' = ~async
  /\ lastStopId' = IF async THEN lastStopId ELSE stopId

\* Mutants: the stop ids are not compared; an exit is not broadcast again.
RebroadcastAlways(needed) ==
  IF needed /\ state # "none"
  THEN Broadcast(SeenEvent(IF state \in {"stopped", "exited"} THEN state
                           ELSE "restarted"))
  ELSE queue' = queue

RebroadcastStopped(needed) ==
  IF needed /\ lastStopId # stopId /\ state = "stopped"
  THEN Broadcast(SeenEvent("stopped"))
  ELSE queue' = queue

\* RebroadcastStopEvent.
Rebroadcast(needed) ==
  IF needed /\ lastStopId # stopId
  THEN Broadcast(SeenEvent(IF state \in {"stopped", "exited"} THEN state
                           ELSE "restarted"))
  ELSE queue' = queue

\* A command of the main thread begins: the session mutex is taken.
Begins == pc = "idle" /\ ev # "continuing" /\ Check(need)

\* LLDB refuses to launch or attach while the process is alive as far as its
\* public state goes, which the exit's event changes when it is taken.
Gone == state \in {"none", "exited"} /\ ~runLock

\* -exec-run, with or without --start.  The stop at which a process is launched
\* has number 1.
ExecRun ==
  /\ Begins /\ runs < MaxRuns /\ MaxStops > 0
  /\ Gone
  /\ runs' = runs + 1 /\ stopId' = 1 /\ pending' = 0 /\ reports' = 0
  /\ \/ /\ state' = "running" /\ reason' = "none" /\ runLock' = TRUE
        /\ IF async THEN Broadcast(Event("running")) ELSE queue' = queue
        /\ pc' = IF async THEN "mark" ELSE "waiting"
     \/ /\ state' = "stopped" /\ reason' = "report" /\ runLock' = async
        /\ IF async THEN Broadcast(Event("stopped")) ELSE queue' = queue
        /\ pc' = "mark"
  /\ marks' = TRUE
  /\ UNCHANGED <<async, ev, taken, driver, handler, view, nested, signals,
                 switches, outputs>>

\* -target-attach and -target-select: the process is stopped when found.
TargetAttach ==
  /\ Begins /\ runs < MaxRuns /\ MaxStops > 0
  /\ Gone
  /\ runs' = runs + 1 /\ stopId' = 1 /\ pending' = 0 /\ reports' = 0
  /\ state' = "stopped" /\ reason' = "report" /\ runLock' = async
  /\ IF async THEN Broadcast(Event("stopped")) ELSE queue' = queue
  /\ pc' = "end" /\ marks' = FALSE
  /\ UNCHANGED <<async, ev, taken, driver, handler, view, nested, signals,
                 switches, outputs>>

TargetDetach ==
  /\ Begins /\ state # "none"
  /\ state' = "none" /\ reason' = "none" /\ runLock' = FALSE /\ pending' = 0
  /\ pc' = "end" /\ marks' = FALSE
  /\ UNCHANGED <<async, stopId, events, driver, handler, client, bounds>>

\* -exec-continue marks the driver's state; the steps, -exec-finish and a
\* console command do not.
ExecResume(marked) ==
  /\ Begins
  /\ \/ /\ state = "stopped" /\ ~runLock
        /\ Resume
        /\ marks' = marked
        /\ pc' = IF ~async THEN "waiting" ELSE IF marked THEN "mark" ELSE "end"
     \/ /\ state # "stopped" \/ runLock
        /\ marks' = FALSE /\ pc' = "end"
        /\ UNCHANGED <<process, queue, client>>
  /\ UNCHANGED <<async, pending, ev, taken, driver, handler, bounds>>

ExecContinue == ExecResume(TRUE)
ExecStep     == ExecResume(FALSE)

ExecInterrupt ==
  /\ Begins
  /\ Stop
  /\ pc' = "end" /\ marks' = FALSE
  /\ UNCHANGED <<async, pending, ev, taken, handler, client, bounds>>

ExecAbort ==
  /\ Begins /\ state \in {"running", "stopped"}
  /\ state' = "exited" /\ reason' = "none" /\ runLock' = FALSE
  /\ stopId' = stopId + 1
  /\ Broadcast(Event("exited"))
  /\ pc' = "end" /\ marks' = FALSE
  /\ UNCHANGED <<async, pending, ev, taken, driver, handler, client, bounds>>

\* -gdb-set target-async.
SetTargetAsync ==
  /\ Begins /\ switches < MaxSwitches
  /\ async' = ~async /\ switches' = switches + 1
  /\ pc' = "end" /\ marks' = FALSE
  /\ UNCHANGED <<process, pending, events, driver, handler, client, nested,
                 runs, signals, outputs>>

\* Any other command.
OtherCommand ==
  /\ Begins
  /\ pc' = "end" /\ marks' = FALSE
  /\ UNCHANGED <<async, process, pending, events, driver, handler, client,
                 bounds>>

\* The synchronous resume returns when the process has stopped or exited.
ResumeReturns ==
  /\ pc = "waiting" /\ state # "running"
  /\ pc' = IF marks THEN "mark" ELSE "end"
  /\ UNCHANGED <<async, process, pending, events, driver, lastStopId, need,
                 marks, handler, client, bounds>>

\* SetDriverStateRunningDebugging.
MarkDebugging ==
  /\ pc = "mark"
  /\ driver' = "debugging" /\ pc' = "end"
  /\ UNCHANGED <<async, process, pending, events, lastStopId, need, marks,
                 handler, client, bounds>>

CommandEnds ==
  /\ pc = "end"
  /\ Rebroadcast(need)
  /\ pc' = "drain"
  /\ UNCHANGED <<async, process, pending, ev, taken, driver, lastStopId, need,
                 marks, handler, client, bounds>>

\* WaitForHandleEvent.
Drained ==
  /\ pc = "drain" /\ queue = <<>> /\ ev = "top"
  /\ pc' = "idle"
  /\ UNCHANGED <<async, process, pending, events, driver, lastStopId, need,
                 marks, handler, client, bounds>>

(***************************************************************************)
(* The event thread.                                                       *)
(***************************************************************************)

\* The stop is made public by taking its event.
GetNextEvent ==
  /\ ev = "top" /\ queue # <<>>
  /\ taken' = Head(queue) /\ queue' = Tail(queue) /\ ev' = "handle"
  /\ runLock' = (runLock /\ ~(taken'.first /\ taken'.kind \in {"stopped", "exited"}))
  /\ UNCHANGED <<async, state, reason, stopId, pending, driver, lastStopId,
                 main, handler, client, bounds>>

\* The session mutex is free.
Handles(kind) ==
  /\ ev = "handle" /\ taken.kind = kind
  /\ pc \in {"idle", "drain"}
  /\ taken' = NoEvent

\* GetProcessStdout fetches until nothing is left.  Mutant: it fetches once.
DrainOutputOnce == pending' = IF pending = 0 THEN 0 ELSE pending - 1
DrainOutput == pending' = 0

\* Mutant: *running is printed in the state that -exec-continue sets only.
HandleRunningIfDebugging ==
  /\ Handles("running")
  /\ view' = IF driver = "debugging" THEN "running" ELSE view
  /\ ev' = "top"
  /\ UNCHANGED <<async, process, pending, queue, driver, lastStopId, main,
                 handler, reports, bounds>>

HandleRunning ==
  /\ Handles("running")
  /\ view' = "running" /\ ev' = "top"
  /\ UNCHANGED <<async, process, pending, queue, driver, lastStopId, main,
                 handler, reports, bounds>>

HandleRestarted ==
  /\ Handles("restarted")
  /\ ev' = "top"
  /\ UNCHANGED <<async, process, pending, queue, driver, lastStopId, main,
                 handler, client, bounds>>

HandleStdout ==
  /\ Handles("stdout")
  /\ DrainOutput /\ ev' = "top"
  /\ UNCHANGED <<async, process, queue, driver, lastStopId, main, handler,
                 client, bounds>>

HandleExited ==
  /\ Handles("exited")
  /\ DrainOutput
  /\ view' = "exited" /\ ev' = "top"
  /\ UNCHANGED <<async, process, queue, driver, lastStopId, main, handler,
                 reports, bounds>>

\* *stopped is printed.
ReportStop == view' = "stopped" /\ reports' = reports + 1

\* HandleProcessEventStateStopped: first the output, then what the selected
\* thread says now, not what it said when the event was sent.
HandleStopped ==
  /\ Handles("stopped")
  /\ DrainOutput
  /\ \/ /\ state # "stopped" \/ runLock \/ reason = "silent"
        /\ ev' = "top"
        /\ UNCHANGED <<process, queue, driver, client>>
     \/ /\ state = "stopped" /\ ~runLock /\ reason = "stopat"
        /\ driver' = "notDebugging"
        /\ ReportStop
        /\ ev' = "top"
        /\ UNCHANGED <<process, queue>>
     \/ /\ state = "stopped" /\ ~runLock /\ reason = "report"
        /\ ReportStop
        /\ ev' = "top"
        /\ UNCHANGED <<process, queue, driver>>
     \/ /\ state = "stopped" /\ ~runLock /\ reason = "clone"
        /\ Resume
        /\ ev' = IF async THEN "top" ELSE "continuing"
        /\ UNCHANGED driver
  /\ nested' = (nested \/ ev' = "continuing")
  /\ UNCHANGED <<async, lastStopId, main, handler, runs, signals, switches,
                 outputs>>

\* The handler's synchronous SBProcess::Continue returns.
ContinueReturns ==
  /\ ev = "continuing" /\ state # "running"
  /\ ev' = "top"
  /\ UNCHANGED <<async, process, pending, queue, taken, driver, lastStopId,
                 main, handler, client, bounds>>

(***************************************************************************)
(* The SIGINT handler, on any thread.                                      *)
(***************************************************************************)

DeliverSignal ==
  /\ sig = "idle" /\ signals < MaxSignals
  /\ signals' = signals + 1
  /\ sig' = IF driver = "debugging" THEN "begin" ELSE "idle"
  /\ UNCHANGED <<async, process, pending, events, driver, lastStopId, main,
                 sigNeed, client, nested, runs, switches, outputs>>

InterruptBegins ==
  /\ sig = "begin"
  /\ Check(sigNeed)
  /\ sig' = "stop"
  /\ UNCHANGED <<async, process, pending, events, driver, main, client, bounds>>

InterruptStops ==
  /\ sig = "stop"
  /\ Stop
  /\ sig' = "end"
  /\ UNCHANGED <<async, pending, ev, taken, lastStopId, main, sigNeed, client,
                 bounds>>

InterruptEnds ==
  /\ sig = "end"
  /\ Rebroadcast(sigNeed)
  /\ sig' = "idle"
  /\ UNCHANGED <<async, process, pending, ev, taken, driver, lastStopId, main,
                 sigNeed, client, bounds>>

Inferior == InferiorStops \/ InferiorExits \/ InferiorRestarts \/ InferiorPrints

Command ==
  \/ ExecRun \/ TargetAttach \/ TargetDetach \/ ExecContinue \/ ExecStep
  \/ ExecInterrupt \/ ExecAbort \/ SetTargetAsync \/ OtherCommand
  \/ ResumeReturns \/ MarkDebugging \/ CommandEnds \/ Drained

EventThread ==
  \/ GetNextEvent \/ HandleRunning \/ HandleRestarted \/ HandleStdout
  \/ HandleExited \/ HandleStopped \/ ContinueReturns

Signal == DeliverSignal \/ InterruptBegins \/ InterruptStops \/ InterruptEnds

Next == Inferior \/ Command \/ EventThread \/ Signal

Spec == Init /\ [][Next]_vars

(***************************************************************************)
(* Properties.                                                             *)
(***************************************************************************)

\* Nothing is under way but, perhaps, the inferior.
Quiet == queue = <<>> /\ ev = "top" /\ pc = "idle" /\ sig = "idle"


\* The ways of losing or repeating a stop that are known: the debugger is made
\* synchronous or asynchronous in between, a SIGINT has come, ...
Undisturbed == signals = 0 /\ switches = 0

\* ... the process is not the first one of a synchronous session, or a handler
\* has resumed the process of a synchronous session.
Rebroadcasts == async \/ (runs <= 1 /\ ~nested)

\* A stop whose reason has a record.
Reportable == state = "stopped" /\ reason \in {"stopat", "report"}

\* Invariant: when nothing is under way the client has been told that the
\* process runs, if it does.  The record is printed by the handler of an event
\* that comes after the command, and the handler of a stop may resume it too.
RunningReported == Quiet /\ state = "running" => view = "running"

\* Invariant: when nothing is under way the client has been told that the
\* process is stopped, if it is.  In synchronous mode this rests on
\* RebroadcastStopEvent and the stop id remembered before the command.
StopReported == Quiet /\ Reportable => view = "stopped"
StopReportedIfUndisturbed == Undisturbed /\ Rebroadcasts => StopReported

\* Invariant: a stop is reported once, although it may have its own event, the
\* one of SBProcess::Stop and the one broadcast again.
ReportedOnce == Undisturbed => reports <= 1

\* Invariant: when nothing is under way the client has been told of the exit, if
\* there was one.
ExitReported == Undisturbed /\ Rebroadcasts /\ Quiet /\ state = "exited"
                  => view = "exited"

\* Invariant: the output that the process had made before it stopped is printed
\* before its *stopped record, whatever the order of the two events.
OutputBeforeStop == reports > 0 => pending = 0

\* What DeliverSignal's comment promises, "Stops the process if it was SIGINT":
\* a process that runs is one that the handler interrupts.
InterruptReachesInferior == Quiet /\ state = "running" => driver = "debugging"
=============================================================================
