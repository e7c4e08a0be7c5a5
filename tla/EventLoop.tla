------------------------------ MODULE EventLoop ------------------------------
(***************************************************************************)
(* The threads of lldb-mi and the two locks between them.                  *)
(*                                                                         *)
(* The main thread (CMIDriver::DoMainLoop) runs the command of the command *)
(* line's executable, then the -c command string, then the --source file,  *)
(* then the lines of stdin; after each command it waits until the listener *)
(* is drained (WaitForHandleEvent).  The event thread (ThreadManage,       *)
(* MonitorSBListenerEvents) takes one event at a time from LLDB's listener *)
(* and handles it.  A SIGINT handler may run a command of its own.         *)
(*                                                                         *)
(* Two locks: queueMutex is m_mutexEventQueue (a std::mutex), paired with  *)
(* m_conditionEventQueueEmpty; sessionMutex is GetSessionMutex() (a        *)
(* recursive mutex nobody locks twice).                                    *)
(***************************************************************************)
EXTENDS Integers, Sequences

CONSTANTS
  Inputs,          \* the command line inputs considered: a subset of AllInputs
  MaxLines,        \* bound: lines in the script file, and lines of stdin
  MaxEvents,       \* bound: events LLDB broadcasts to the listener
  MaxSignals,      \* bound: SIGINTs delivered to the process
  SpuriousWakeups, \* whether a condition variable may wake by itself
  StdinFails       \* whether reading stdin may fail without end of file

AllInputs == {"exe", "--executable", "string", "file"}

ASSUME EventLoopAssumption ==
  /\ Inputs \subseteq AllInputs
  /\ MaxLines \in Nat
  /\ MaxEvents \in Nat
  /\ MaxSignals \in Nat
  /\ SpuriousWakeups \in BOOLEAN
  /\ StdinFails \in BOOLEAN

VARIABLES
  pc,         \* control point of the main thread
  src,        \* where the main thread takes its commands from
  todo,       \* lines the script file and stdin still hold
  given,      \* the inputs named on the command line
  bOk,        \* the main loop's bOk
  exitApp,    \* m_bExitApp
  async,      \* SBDebugger::GetAsync()
  savedAsync, \* bAsyncSetting of ExecuteCommandString / ExecuteCommandFile
  ev,         \* control point of the event thread
  active,     \* m_bIsActive of the event thread
  killed,     \* m_bHasBeenKilled
  queueMutex, \* owner of m_mutexEventQueue
  sessionMutex, \* owner of the session mutex
  queue,      \* the listener's pending events
  current,    \* the event the event thread has taken, or None
  running,    \* m_eCurrentDriverState is RunningDebugging
  sig,        \* what the SIGINT handler is doing
  signals,    \* SIGINTs delivered so far
  \* History, read by properties and by the bounds only:
  sent,       \* events broadcast so far
  handled,    \* events whose handler has returned
  mark,       \* "sent" when the current WaitForHandleEvent was entered
  asyncAtStart, \* async before any command ran
  userSet,    \* a line of stdin has set target-async
  quitRun,    \* a "quit" or -gdb-exit command has been run to its end
  fatal       \* the start-up command has failed and asked for exit

inputs     == <<src, todo, given, bOk>>
modeVars   == <<async, savedAsync>>
evVars     == <<ev, active, killed>>
locks      == <<queueMutex, sessionMutex>>
listener   == <<queue, current, sent, handled>>
signalVars == <<running, sig, signals>>
history    == <<mark, asyncAtStart, userSet, quitRun, fatal>>
vars == <<pc, inputs, exitApp, modeVars, evVars, locks, listener, signalVars,
          history>>

None  == "none"
Main  == "main"
Event == "event"

Kinds   == {"stop", "quit", "other"}
Scripts == {"file", "stdin"}

InFlight == IF current = None THEN 0 ELSE 1

TypeOK ==
  /\ pc \in {"start", "exe", "reset", "begin", "input", "reading", "lock",
             "cmd", "wait", "blocked", "woken", "waited", "quit", "kill",
             "join", "done"}
  /\ src \in {"string"} \cup Scripts
  /\ todo \in [Scripts -> Nat]
  /\ given \subseteq AllInputs
  /\ ev \in {"none", "top", "get", "slock", "handle", "alive", "finish", "dead"}
  /\ queueMutex \in {None, Main, Event}
  /\ sessionMutex \in {None, Main, Event}
  /\ queue \in Seq(Kinds)
  /\ current \in Kinds \cup {None}
  /\ sig \in {"idle", "cmd"}
  /\ bOk \in BOOLEAN /\ exitApp \in BOOLEAN
  /\ async \in BOOLEAN /\ savedAsync \in BOOLEAN /\ asyncAtStart \in BOOLEAN
  /\ active \in BOOLEAN /\ killed \in BOOLEAN /\ running \in BOOLEAN
  /\ userSet \in BOOLEAN /\ quitRun \in BOOLEAN /\ fatal \in BOOLEAN
  /\ signals \in Nat /\ sent \in Nat /\ handled \in Nat /\ mark \in Nat

Init ==
  /\ pc = "start" /\ src = "string"
  /\ todo \in [Scripts -> 0..MaxLines]
  /\ given \in {g \in SUBSET Inputs : "--executable" \in g => "exe" \in g}
  /\ bOk = TRUE /\ exitApp = FALSE
  /\ async \in BOOLEAN           \* --synchronous clears it
  /\ savedAsync = async
  /\ ev = "none" /\ active = FALSE /\ killed = FALSE
  /\ queueMutex = None /\ sessionMutex = None
  /\ queue = <<>> /\ current = None
  /\ running = FALSE /\ sig = "idle" /\ signals = 0
  /\ sent = 0 /\ handled = 0 /\ mark = 0
  /\ asyncAtStart = async /\ userSet = FALSE /\ quitRun = FALSE /\ fatal = FALSE

(***************************************************************************)
(* Start-up.                                                               *)
(***************************************************************************)

\* StartWorkerThreads: the thread exists and is marked active before
\* CMIUtilThread::Start releases the mutex its Finish() needs.
StartWorkerThreads ==
  /\ pc = "start"
  /\ ev' = "top" /\ active' = TRUE
  /\ pc' = IF "exe" \in given THEN "exe" ELSE "reset"
  /\ UNCHANGED <<listener, inputs, exitApp, modeVars, killed, locks,
                 signalVars, history>>

\* LocalDebugSessionStartupExecuteCommands: -file-exec-and-symbols, without the
\* session mutex.  When it fails in --executable mode CmdCauseAppExit sets the
\* exit flag (and the invoker returns success).
StartupCommandEnds ==
  /\ pc = "exe"
  /\ \E ok \in BOOLEAN, failed \in BOOLEAN :
       /\ failed => ok
       /\ bOk' = ok
       /\ fatal' = (failed /\ "--executable" \in given)
       /\ exitApp' = (exitApp \/ fatal')
  /\ pc' = "reset"
  /\ UNCHANGED <<listener, src, todo, given, modeVars, evVars, locks,
                 signalVars, mark, asyncAtStart, userSet, quitRun>>

\* "App is not quitting currently": m_bExitApp = false.
ResetExitFlag ==
  /\ pc = "reset"
  /\ exitApp' = FALSE
  /\ pc' = "begin"
  /\ UNCHANGED <<listener, inputs, modeVars, evVars, locks, signalVars,
                 history>>

(***************************************************************************)
(* Where the next command comes from.                                      *)
(***************************************************************************)

\* ExecuteCommandString: async is off while the command runs; an empty or
\* comment line restores it at once and runs nothing.
CommandString ==
  /\ pc = "begin" /\ src = "string"
  /\ \/ /\ "string" \in given
        /\ pc' = "lock" /\ src' = src
        /\ savedAsync' = async /\ async' = FALSE
     \/ /\ "string" \in given            \* '#' or empty: nothing to run
        /\ savedAsync' = async
        /\ async' = savedAsync'
        /\ pc' = pc /\ src' = "file"
     \/ /\ "string" \notin given
        /\ pc' = pc /\ src' = "file"
        /\ UNCHANGED modeVars
  /\ UNCHANGED <<listener, todo, given, bOk, exitApp, evVars, locks,
                 signalVars, history>>

\* ExecuteCommandFile up to its loop; a file that cannot be opened sets the exit
\* flag and leaves async alone.
OpenCommandFile ==
  /\ pc = "begin" /\ src = "file"
  /\ pc' = "input"
  /\ \/ /\ "file" \in given
        /\ src' = src
        /\ savedAsync' = async /\ async' = FALSE
        /\ UNCHANGED exitApp
     \/ /\ "file" \in given
        /\ src' = "stdin" /\ exitApp' = TRUE
        /\ UNCHANGED modeVars
     \/ /\ "file" \notin given
        /\ src' = "stdin"
        /\ UNCHANGED <<modeVars, exitApp>>
  /\ UNCHANGED <<listener, todo, given, bOk, evVars, locks, signalVars,
                 history>>

\* Faulty FileLine: the loop forgets m_bExitApp.
FileLineIgnoresExit ==
  /\ pc = "input" /\ src = "file"
  /\ todo["file"] > 0
  /\ todo' = [todo EXCEPT !["file"] = @ - 1]
  /\ pc' \in {"lock", "input"}
  /\ UNCHANGED <<listener, src, given, bOk, exitApp, modeVars, evVars, locks,
                 signalVars, history>>

\* One turn of ExecuteCommandFile's loop; an empty or '#' line runs nothing.
FileLine ==
  /\ pc = "input" /\ src = "file"
  /\ ~exitApp /\ todo["file"] > 0
  /\ todo' = [todo EXCEPT !["file"] = @ - 1]
  /\ pc' \in {"lock", "input"}
  /\ UNCHANGED <<listener, src, given, bOk, exitApp, modeVars, evVars, locks,
                 signalVars, history>>

\* Faulty FileEnds: the mode is not switched back.
FileEndsKeepsMode ==
  /\ pc = "input" /\ src = "file"
  /\ exitApp \/ todo["file"] = 0
  /\ async' = async
  /\ src' = "stdin"
  /\ UNCHANGED <<listener, pc, todo, given, bOk, exitApp, savedAsync, evVars,
                 locks, signalVars, history>>

\* The end of ExecuteCommandFile: "Switch lldb back to initial mode".
FileEnds ==
  /\ pc = "input" /\ src = "file"
  /\ exitApp \/ todo["file"] = 0
  /\ async' = savedAsync
  /\ src' = "stdin"
  /\ UNCHANGED <<listener, pc, todo, given, bOk, exitApp, savedAsync, evVars,
                 locks, signalVars, history>>

\* while (bOk && !m_bExitApp)
MainLoopHead ==
  /\ pc = "input" /\ src = "stdin"
  /\ pc' = IF bOk /\ ~exitApp THEN "reading" ELSE "quit"
  /\ UNCHANGED <<listener, inputs, exitApp, modeVars, evVars, locks,
                 signalVars, history>>

\* ReadLine.  The last line may lack its newline: it is returned, with the exit
\* flag set; a read error returns nullptr and changes nothing.
ReadLine ==
  /\ pc = "reading"
  /\ \/ /\ todo["stdin"] > 0
        /\ todo' = [todo EXCEPT !["stdin"] = @ - 1]
        /\ pc' \in {"lock", "input"}
        /\ exitApp' \in IF todo["stdin"] = 1 THEN {exitApp, TRUE} ELSE {exitApp}
     \/ /\ todo["stdin"] = 0
        /\ pc' = "input"
        /\ exitApp' = TRUE
        /\ UNCHANGED todo
     \/ /\ StdinFails
        /\ pc' = "input"
        /\ UNCHANGED <<todo, exitApp>>
  /\ UNCHANGED <<listener, src, given, bOk, modeVars, evVars, locks,
                 signalVars, history>>

(***************************************************************************)
(* One command: InterpretCommand under the session mutex.                  *)
(***************************************************************************)

LockSession ==
  /\ pc = "lock" /\ sessionMutex = None
  /\ sessionMutex' = Main
  /\ pc' = "cmd"
  /\ UNCHANGED <<listener, inputs, exitApp, modeVars, evVars, queueMutex,
                 signalVars, history>>

\* -gdb-exit: SetExitApplicationFlag(true), then the inferior is destroyed.
CmdGdbExit ==
  /\ pc = "cmd"
  /\ exitApp' = TRUE
  /\ UNCHANGED <<listener, pc, inputs, modeVars, evVars, locks, signalVars,
                 mark, asyncAtStart, userSet, fatal>>
  /\ quitRun' = TRUE

\* The CLI command "quit": LLDB broadcasts eBroadcastBitQuitCommandReceived.
CmdQuit ==
  /\ pc = "cmd" /\ sent < MaxEvents
  /\ queue' = Append(queue, "quit")
  /\ sent' = sent + 1
  /\ quitRun' = TRUE
  /\ UNCHANGED <<current, pc, inputs, exitApp, modeVars, evVars, locks,
                 signalVars, handled, mark, asyncAtStart, userSet, fatal>>

\* -gdb-set target-async.
CmdSetAsync ==
  /\ pc = "cmd"
  /\ async' \in BOOLEAN
  /\ userSet' = (userSet \/ src = "stdin")
  /\ UNCHANGED <<listener, pc, inputs, exitApp, savedAsync, evVars, locks,
                 signalVars, mark, asyncAtStart, quitRun, fatal>>

\* -exec-run and -exec-continue: SetDriverStateRunningDebugging.
CmdResume ==
  /\ pc = "cmd" /\ ~running
  /\ running' = TRUE
  /\ UNCHANGED <<listener, pc, inputs, exitApp, modeVars, evVars, locks, sig,
                 signals, history>>

\* The command ends: the mutex is released, the prompt written, and a failure
\* sets the exit flag (string, file) or ends the main loop (stdin).  A file's
\* failing line is not followed by WaitForHandleEvent.
CmdEnds ==
  /\ pc = "cmd"
  /\ sessionMutex' = None
  /\ \E ok \in BOOLEAN :
       /\ bOk' = IF src = "stdin" THEN ok ELSE bOk
       /\ exitApp' = (exitApp \/ (~ok /\ src # "stdin"))
       /\ pc' = IF src = "file" /\ ~ok THEN "input" ELSE "wait"
  /\ mark' = sent
  /\ UNCHANGED <<listener, src, todo, given, modeVars, evVars, queueMutex,
                 signalVars, asyncAtStart, userSet, quitRun, fatal>>

(***************************************************************************)
(* WaitForHandleEvent.                                                     *)
(***************************************************************************)

\* Lock the queue mutex and peek; a pending event makes the caller wait on the
\* condition variable, which releases the mutex.
PeekAtNextEvent ==
  /\ pc = "wait" /\ queueMutex = None
  /\ \/ /\ active /\ queue # <<>>
        /\ pc' = "blocked"
        /\ UNCHANGED queueMutex
     \/ /\ ~active \/ queue = <<>>
        /\ pc' = "waited"
        /\ queueMutex' = Main
  /\ UNCHANGED <<listener, inputs, exitApp, modeVars, evVars, sessionMutex,
                 signalVars, history>>

\* wait() has no predicate: a wakeup nobody asked for ends it too.
SpuriousWakeup ==
  /\ SpuriousWakeups
  /\ pc = "blocked"
  /\ pc' = "woken"
  /\ UNCHANGED <<listener, inputs, exitApp, modeVars, evVars, locks,
                 signalVars, history>>

Relock ==
  /\ pc = "woken" /\ queueMutex = None
  /\ queueMutex' = Main
  /\ pc' = "waited"
  /\ UNCHANGED <<listener, inputs, exitApp, modeVars, evVars, sessionMutex,
                 signalVars, history>>

\* Return to the caller; ExecuteCommandString restores the mode and is over.
WaitReturns ==
  /\ pc = "waited"
  /\ queueMutex' = None
  /\ \/ /\ src = "string"
        /\ async' = savedAsync
        /\ src' = "file" /\ pc' = "begin"
     \/ /\ src # "string"
        /\ pc' = "input"
        /\ UNCHANGED <<async, src>>
  /\ UNCHANGED <<listener, todo, given, bOk, exitApp, savedAsync, evVars,
                 sessionMutex, signalVars, history>>

(***************************************************************************)
(* Shutdown: DoAppQuit, then ThreadAllTerminate kills and joins.           *)
(***************************************************************************)

DoAppQuit ==
  /\ pc = "quit"
  /\ pc' = "kill"
  /\ UNCHANGED <<listener, inputs, exitApp, modeVars, evVars, locks,
                 signalVars, history>>

ThreadKill ==
  /\ pc = "kill"
  /\ killed' = active
  /\ pc' = IF active THEN "join" ELSE "done"
  /\ UNCHANGED <<listener, inputs, exitApp, modeVars, ev, active, locks,
                 signalVars, history>>

ThreadJoin ==
  /\ pc = "join" /\ ev = "dead"
  /\ pc' = "done"
  /\ UNCHANGED <<listener, inputs, exitApp, modeVars, evVars, locks,
                 signalVars, history>>

(***************************************************************************)
(* The event thread: ThreadManage around MonitorSBListenerEvents.          *)
(***************************************************************************)

\* The top of the loop; m_references is 1 from ThreadStart on (no Release).
ThreadRun ==
  /\ ev = "top"
  /\ ev' = "get"
  /\ UNCHANGED <<listener, pc, inputs, exitApp, modeVars, active, killed,
                 locks, signalVars, history>>

\* Faulty ListenerEmpty: no notify_one.
ListenerEmptySilent ==
  /\ ev = "get" /\ queueMutex = None
  /\ queue = <<>>
  /\ ev' = "alive"
  /\ pc' = pc
  /\ UNCHANGED <<listener, inputs, exitApp, modeVars, active, killed, locks,
                 signalVars, history>>

\* Nothing pending: notify_one, release the queue mutex, sleep 1 ms.
ListenerEmpty ==
  /\ ev = "get" /\ queueMutex = None
  /\ queue = <<>>
  /\ ev' = "alive"
  /\ pc' = IF pc = "blocked" THEN "woken" ELSE pc
  /\ UNCHANGED <<listener, inputs, exitApp, modeVars, active, killed, locks,
                 signalVars, history>>

\* Faulty GetNextEvent: the queue mutex is released before the handler runs.
GetNextEventUnlocks ==
  /\ ev = "get" /\ queueMutex = None
  /\ queue # <<>>
  /\ queueMutex' = None
  /\ current' = Head(queue) /\ queue' = Tail(queue)
  /\ ev' = "slock"
  /\ UNCHANGED <<pc, inputs, exitApp, modeVars, active, killed, sessionMutex,
                 signalVars, sent, handled, history>>

\* Faulty GetNextEvent: the events behind the first are dropped.
GetNextEventTakesAll ==
  /\ ev = "get" /\ queueMutex = None
  /\ queue # <<>>
  /\ queueMutex' = Event
  /\ current' = Head(queue) /\ queue' = <<>>
  /\ ev' = "slock"
  /\ UNCHANGED <<pc, inputs, exitApp, modeVars, active, killed, sessionMutex,
                 signalVars, sent, handled, history>>

\* GetNextEvent: the queue mutex stays locked until the event is handled.
GetNextEvent ==
  /\ ev = "get" /\ queueMutex = None
  /\ queue # <<>>
  /\ queueMutex' = Event
  /\ current' = Head(queue) /\ queue' = Tail(queue)
  /\ ev' = "slock"
  /\ UNCHANGED <<pc, inputs, exitApp, modeVars, active, killed, sessionMutex,
                 signalVars, sent, handled, history>>

\* Faulty LockForHandling: the session mutex is not waited for.
LockForHandlingBarges ==
  /\ ev = "slock"
  /\ sessionMutex' = Event
  /\ ev' = "handle"
  /\ UNCHANGED <<listener, pc, inputs, exitApp, modeVars, active, killed,
                 queueMutex, signalVars, history>>

LockForHandling ==
  /\ ev = "slock" /\ sessionMutex = None
  /\ sessionMutex' = Event
  /\ ev' = "handle"
  /\ UNCHANGED <<listener, pc, inputs, exitApp, modeVars, active, killed,
                 queueMutex, signalVars, history>>

\* HandleEvent returns.  A "quit" sets the exit flag; a stop at a breakpoint or
\* watchpoint is where the driver state leaves RunningDebugging.
HandleEvent ==
  /\ ev = "handle"
  /\ exitApp' = (exitApp \/ current = "quit")
  /\ running' = (running /\ current # "stop")
  /\ current' = None
  /\ handled' = handled + 1
  /\ sessionMutex' = None /\ queueMutex' = None
  /\ ev' = "alive"
  /\ UNCHANGED <<pc, inputs, modeVars, active, killed, queue, sig, signals,
                 sent, history>>

\* bAlive &= !m_bHasBeenKilled
ThreadAlive ==
  /\ ev = "alive"
  /\ ev' = IF killed THEN "finish" ELSE "top"
  /\ UNCHANGED <<listener, pc, inputs, exitApp, modeVars, active, killed,
                 locks, signalVars, history>>

ThreadFinish ==
  /\ ev = "finish"
  /\ ev' = "dead" /\ active' = FALSE
  /\ UNCHANGED <<listener, pc, inputs, exitApp, modeVars, killed, locks,
                 signalVars, history>>

(***************************************************************************)
(* LLDB's own threads, and the SIGINT handler.                             *)
(***************************************************************************)

\* LLDB broadcasts an event at any moment once lldb-mi runs; only a command
\* broadcasts "quit".
Broadcast ==
  /\ pc # "start" /\ sent < MaxEvents
  /\ \E k \in {"stop", "other"} : queue' = Append(queue, k)
  /\ sent' = sent + 1
  /\ UNCHANGED <<current, pc, inputs, exitApp, modeVars, evVars, locks,
                 signalVars, handled, history>>

\* sigint_handler, DeliverSignal: on whatever thread it lands, the handler runs
\* InterpretCommand("-exec-interrupt") and takes no lock.
DeliverSignal ==
  /\ sig = "idle" /\ signals < MaxSignals
  /\ signals' = signals + 1
  /\ sig' = IF running THEN "cmd" ELSE "idle"
  /\ UNCHANGED <<listener, pc, inputs, exitApp, modeVars, evVars, locks,
                 running, history>>

InterruptEnds ==
  /\ sig = "cmd"
  /\ sig' = "idle"
  /\ running' \in {running, FALSE}   \* Process.Stop() fails, or succeeds
  /\ UNCHANGED <<listener, pc, inputs, exitApp, modeVars, evVars, locks,
                 signals, history>>

Terminated == pc = "done" /\ UNCHANGED vars

MainNext ==
  \/ StartWorkerThreads \/ StartupCommandEnds \/ ResetExitFlag
  \/ CommandString \/ OpenCommandFile \/ FileLine \/ FileEnds
  \/ MainLoopHead \/ ReadLine
  \/ LockSession \/ CmdGdbExit \/ CmdQuit \/ CmdSetAsync \/ CmdResume \/ CmdEnds
  \/ PeekAtNextEvent \/ SpuriousWakeup \/ Relock \/ WaitReturns
  \/ DoAppQuit \/ ThreadKill \/ ThreadJoin

EventNext ==
  \/ ThreadRun \/ ListenerEmpty \/ GetNextEvent \/ LockForHandling
  \/ HandleEvent \/ ThreadAlive \/ ThreadFinish

Next == MainNext \/ EventNext \/ Broadcast \/ DeliverSignal \/ InterruptEnds
        \/ Terminated

\* Both threads keep being scheduled; a command ends, an event's handler returns
\* and stdin reaches its end.  The 1 ms sleep outside the queue mutex is what
\* lets the main thread have it.
Fairness ==
  /\ WF_vars(StartWorkerThreads) /\ WF_vars(StartupCommandEnds)
  /\ WF_vars(ResetExitFlag) /\ WF_vars(CommandString)
  /\ WF_vars(OpenCommandFile)
  /\ WF_vars(FileLine) /\ WF_vars(FileEnds) /\ WF_vars(MainLoopHead)
  /\ WF_vars(ReadLine) /\ WF_vars(LockSession) /\ WF_vars(CmdEnds)
  /\ WF_vars(PeekAtNextEvent) /\ WF_vars(Relock) /\ WF_vars(WaitReturns)
  /\ WF_vars(DoAppQuit) /\ WF_vars(ThreadKill) /\ WF_vars(ThreadJoin)
  /\ WF_vars(EventNext)

Spec == Init /\ [][Next]_vars
FairSpec == Spec /\ Fairness

(***************************************************************************)
(* Properties.                                                             *)
(***************************************************************************)

\* A command taken from the command string, the script file or stdin and the
\* handler of an event never run together (MIDriver.cpp:580, 803).
EventsDoNotDisturbCommands == ~(pc = "cmd" /\ ev = "handle")

\* The commands of the main thread and the handlers of events keep what Session
\* promises: no handler runs while a command does, and no command is begun before
\* the events from before the last prompt are handled, whichever way the main
\* thread comes to its next command.  (If condition variables do not wake by
\* themselves.  The start-up command and the SIGINT handler's take no lock.)
Users == {u \in {"command", "handler"} :
            IF u = "command" THEN pc = "cmd" ELSE ev = "handle"}
Promised == INSTANCE Session WITH users <- Users, due <- mark
SessionKept == Promised!Spec

\* When WaitForHandleEvent returns, every event broadcast before it was called
\* has been handled (MICmnLLDBDebugger.cpp:260 "Wait until all events have been
\* handled").
DrainedOnReturn == pc = "waited" => handled >= mark

\* Whoever waits on the condition variable can still be notified: the event
\* thread is in its loop and has not been told to stop.
NoOrphanedWait ==
  pc = "blocked" => active /\ ~killed /\ ev \notin {"none", "finish", "dead"}

\* The assertion of DoMainLoop: a line of stdin is interpreted only while the
\* event thread is active ("otherwise we stuck here").
HandlerThreadIsActive == pc = "lock" => active

\* Whatever the -c string and the script file set, the session starts reading
\* stdin in the mode lldb-mi was started with ("Switch lldb back to initial
\* mode"), unless a line of stdin has changed it.
AsyncModeRestored ==
  pc \in {"input", "reading"} /\ src = "stdin" /\ ~userSet
  => async = asyncAtStart

\* No command is begun after one that quits, though the CLI "quit" only posts an
\* event that another thread turns into the exit flag.
QuitIsFinal == [][pc # "cmd" /\ pc' = "cmd" => ~quitRun]_vars

\* lldb-mi ends when stdin does: every wait is answered, the event thread is
\* joined.  While reading fails without end of file, it goes on reading.
Termination == <>(pc = "done") \/ []<>(pc = "reading")

\* Every event is handled, unless the event thread is told to stop first.
EveryEventHandled ==
  \A n \in 1..MaxEvents : (sent >= n) ~> (handled >= n \/ killed)

\* MICmdCmdFile.cpp:200 "True = Fatal if command fails": once the start-up
\* command has failed in --executable mode no other command is run.  It does not
\* hold: DoMainLoop then clears the exit flag.
FatalStartupFailureExits == fatal => pc # "cmd"
=============================================================================
