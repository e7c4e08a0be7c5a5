# lldb-mi in TLA+

A verification project for [lldb-mi](../src/README.md), LLDB's GDB/MI front end:
TLA+ modules of its components, translated from `src/src/`, configurations that
check them with TLC, and theorems proved with TLAPS.

1. [The system](#1-the-system)
2. [The modules and the code](#2-the-modules-and-the-code)
3. [The runs](#3-the-runs)
4. [Bounds and fairness](#4-bounds-and-fairness)
5. [The proofs](#5-the-proofs)
6. [Where the code disagrees with what is said of it](#6-where-the-code-disagrees-with-what-is-said-of-it)
7. [What is not modelled](#7-what-is-not-modelled)
8. [The plan](#8-the-plan)
9. [Running it](#9-running-it)

## 1. The system

lldb-mi reads MI commands from stdin, one a line, drives a debugged process (the
*inferior*) through LLDB's SB API, and prints MI records to stdout: one result
record (`^done`, `^running`, `^error`) for each command, and asynchronous records
(`*stopped`, `=breakpoint-modified`, `~"output"`) whenever LLDB broadcasts an
event. The program on the other end, an IDE, believes these records: what makes
lldb-mi correct is that they agree with LLDB.

```
 stdin --> main thread: DoMainLoop --> interpreter/factory/invoker --> MICmdCmd* --+
              |  ^                                                                 |
              |  | WaitForHandleEvent (condition variable)                         v
              v  |                                                            LLDB (SB API)
           session mutex <--> session data: records, variable objects              |
              ^                                                                    |
              |                                                           events   v
 stdout <-- event thread: MonitorSBListenerEvents <--- SBListener queue <----------+
              ^
           SIGINT: DeliverSignal, on either thread, with no lock
```

### Components

| component | code | state | operations | what makes it correct |
| --- | --- | --- | --- | --- |
| event loop and threads | `MIDriver.cpp` `DoMainLoop`, `ExecuteCommandString/File`, `DoAppQuit`, `DeliverSignal`; `MICmnLLDBDebugger.cpp` `MonitorSBListenerEvents`, `WaitForHandleEvent`; `MIUtilThreadBaseStd.cpp` | exit flag, async mode, the thread's active/killed flags, the queue mutex with its condition variable, the session mutex, the listener's queue | read and run a command, wait for the listener to drain, take and handle an event, quit, kill and join | commands and handlers exclude each other; a wait means that what was sent has been handled; nobody waits for ever; quitting is final |
| breakpoints and watchpoints | `MICmdCmdBreak.cpp`, the stoppoint part of `MICmnLLDBDebugSessionInfo.cpp` and of `MICmnLLDBDebuggerHandleEvents.cpp` | records by number, numbers by LLDB id, the next number | the seven `break-*` commands; the Added, Changed and Removed events; stops at stoppoints | a number is bound to one stoppoint for ever; the records follow LLDB; the client has last seen what LLDB has |
| run control | `MICmdCmdExec.cpp`, `MICmdCmdTarget.cpp`, `RebroadcastStopEvent`, the process handlers of `MICmnLLDBDebuggerHandleEvents.cpp` | driver state, remembered stop id, and LLDB's process, its state, stop id and events | `exec-*`, `target-*`, the running, stopped and exited handlers, SIGINT | each resume, stop and exit is reported, once, in order |
| output of the inferior | `GetProcessStdout`, `GetProcessStderr` | LLDB's buffers, the text held between reads | drain both streams | nothing lost, doubled or late; the drain returns |
| variable objects | `MICmdCmdVar.cpp`, `MICmnLLDBDebugSessionInfoVarObj.cpp` | the map of objects, the name counter, LLDB's value objects | the `var-*` commands | `-var-update` misses no change; a name keeps its meaning |
| command pipeline | `MICmdInterpreter`, `MICmdFactory`, `MICmdMgr`, `MICmdInvoker`, `MICmdBase` | the data of the last line, the registered commands, the map of commands alive, delete callbacks | recognise a line, create, parse, execute, acknowledge, print, delete | one result record with the token for each line; nothing left behind, nothing used after its deletion |
| arguments | `MICmdArgSet`, `MICmdArgContext`, `MICmdArgVal*`, the splitting in `MIUtilString.cpp`, `ParseArgs` of every command | the text not yet taken, lists of missing and invalid arguments | validate each argument | every argument finds its own words wherever they stand; a mandatory one that is missing is refused; no word is lost |
| thread and process reports | `ChkForStateChanges`, `UpdateSelectedThread`, the exit handler, `MICmdCmdThread.cpp`, `MICmdCmdStack.cpp` | the list of active threads, the selected thread | compare with LLDB's threads at each event, select, list | created and exited are reported once each; the client knows which thread is selected and which has stopped |
| start-up and shutdown | `MIUtilSingletonHelper.h`, every `Initialize`/`Shutdown`, `MIDriverMgr.cpp`, `MICmnThreadMgrStd.cpp`, `MIDriverMain.cpp` | a client count and a flag for each singleton | initialise in order, undo in reverse, destroy | a module outlives those that use it; nothing is left behind |
| event masks | `RegisterForEvent`, `UnregisterForEvent` in `MICmnLLDBDebugger.cpp` | event masks by client and class | register, unregister | a class is listened to while a client wants it |
| data, stack, thread, symbol commands | `MICmdCmdData.cpp`, `MICmdCmdStack.cpp`, ... | none but LLDB's selection | ask and print | the levels, frames and threads are those asked for; the rest of the answer is LLDB's |
| settings and information | `MICmdCmdGdbSet.cpp`, `...GdbShow.cpp`, `...Miscellanous.cpp`, ... | the session's variants | store, read back | `target-async` takes effect for the commands after it |
| shared data of the session | `MICmnLLDBDebugSessionInfo.cpp`, `MIUtilMapIdToVariant.cpp` | an id-to-variant map, the records above | look up, store | under the session mutex |
| MI values and records | `MICmnMI*.cpp` | none | put text together | well-formed MI |
| streams, log, files | `MICmnStream*.cpp`, `MICmnLog*.cpp` | a mutex for stdout | write, read | records are not mixed |
| utilities | `MIUtilString.cpp`, ... | none | functions on text | as their comments say |

### How they interact, and what is hard

- **Two threads and a signal handler.** The main thread runs commands, the event
  thread handles events. Both lock the session mutex; the event thread holds the
  queue mutex around it, which the main thread takes for the condition variable.
  After a command the main thread waits until the listener is drained. A SIGINT
  runs a command on whatever thread it lands, with no lock.
- **LLDB is a third party.** It has threads of its own: between a command and the
  handler of its event, the process may stop, exit or write, and a breakpoint may be
  deleted, threads come and go. Handlers read LLDB's present state and not the state at the
  event.
- **Two modes.** In synchronous mode LLDB blocks the command that resumes the process
  and swallows its events; lldb-mi broadcasts the stop again when the stop id has
  changed.
- **Copies.** The records of stoppoints, the variable objects, the list of threads and the
  selected thread are copies of what LLDB knows; they go stale unless each path that
  changes LLDB puts the copy back.
- **Singletons with clients.** Nearly every class is a singleton that others initialise and
  shut down by turns, and that is destroyed after `main()` in the order the constructors
  happened to run in.
- **Text taken apart in place.** Each argument of a command searches the text for its
  words and cuts them out, so that what one sees depends on those before it.

The hazards that follow from these, each at its line and with the properties that
would catch it going wrong, are in `PROJECT.json` under `hazards`.

## 2. The modules and the code

A command runs under the session mutex, so wherever the code does not give the mutex
up a command or handler is **one action**; `EventLoop` is the module that justifies
this (theorem `SessionIsKept`), and models the locks themselves step by step. Commands that
the SIGINT handler can cut in two are cut there in `RunControl`. History variables
(grouped as such in each module) are read by bounds and properties only.

**EventLoop** -- the threads. `pc` is the main thread's control point and `src` where
its commands come from: the executable of the command line (`"exe"`), the `-c` string,
the `--source` file, stdin. `LockSession`, one of `CmdGdbExit`, `CmdQuit`, `CmdSetAsync`,
`CmdResume` or none, and `CmdEnds` are a command; `PeekAtNextEvent`, `Relock`,
`SpuriousWakeup` and `WaitReturns` are `WaitForHandleEvent`, whose `wait` has no
predicate. `ListenerEmpty`, `GetNextEvent`, `LockForHandling` and `HandleEvent` are one
turn of `MonitorSBListenerEvents`, `ThreadAlive` and `ThreadFinish` the end of the
thread. What commands and events *do* is left to the other modules: here an event is
`"stop"`, `"quit"` or `"other"`. **Session** is the abstract specification of what the
threads promise to those modules: a command and a handler have the session to themselves
(`users`), and a command begins only when the events broadcast by the end of the one before
(`due`) are handled. `EventLoop` implements it with `pc = "cmd"` and `ev = "handle"` for the
users and `mark` for `due`.

**Stoppoints** -- breakpoints and watchpoints. `records`, `ids` and `nextMiId` are the
members of `CMICmnLLDBDebugSessionInfo`; `settings`, `live` and `queue` are LLDB's. A
*point* is the identity of a stoppoint (target, type, LLDB id), which the code does not
have: its key, `KeyOf`, lacks the target, as the code's does. Commands append LLDB's
events to the queue; `HandleEvent` takes the oldest. `LldbDeletes`, `LldbHits`,
`ConsoleCreates` and `ConsoleAlters` are one-shot breakpoints, stops and console
commands. **StoppointNumbers** is the abstract specification of the numbers: a pair
of a number and a stoppoint is announced once, shares neither half with another pair,
and is retired once. `Stoppoints` implements it with the pairs printed to the client and
the numbers still on record.

**RunControl** -- running and stopping. `process` is LLDB's process: its state, the
reason of its stop, the lock that makes the SB API take it for running until the event
is removed from the queue, the stop id. `driver` is `m_eCurrentDriverState`,
`lastStopId` is `m_nLastStopId`, shared between a command and the SIGINT handler's.
`Begins`, `ResumeReturns`, `MarkDebugging`, `CommandEnds` and `Drained` are
`InterpretCommand` around a command. Handlers come in two steps: the event thread
takes the event (`GetNextEvent`) and handles it when no command runs.

**OutputDrain** -- `GetProcessStdout` and `GetProcessStderr`, one after the other, as
their loops: `Read` a chunk, `FindNewline`, `PrintLine`, and `NoNewline`, which goes back
to the read or prints the rest and returns. A byte is a character or a newline. `Left`
is the one place where the two functions differ: stderr's does not erase the line.

**VarObjects** -- variable objects. `objects` and `id` are the static members of
`CMICmnLLDBDebugSessionInfoVarObj`. `vo` is LLDB's value object of each variable,
shared by all objects of one variable: LLDB answers *did it change?* by comparing
with the last value examined, once for each stop or memory write, and keeps the answer
(`fresh`). Three kinds of object tell the cases of the code apart: a variable, a pointer
with a member (which `PrintValue` descends into), and the constant result of an
expression (which `-var-update` evaluates again). History: `view` is what the client was
last shown; `assigned` the objects that a `-var-assign` has changed and no `-var-update` has
reported, kept apart from the flag that the code has for it; `forgotten` those of them whose
entry has been overwritten since. Formats, the cached text and commands while the process
runs are left out.

**CommandPipeline** -- from a line to its result record. `miCmdData` is
`m_miCmdData` of the one interpreter, `cmdData` the copy that a command gets, `cmds` is
`m_mapCmdIdToCmd`, `alive` the command objects, `registered` and `flag` the invoker's
place among the clients of `CMICmdMgr` and `m_bClientUnregistered`. The steps between
`ClearData` and `CopyData` are the interpreter, `Create` to `Acknowledge` the factory and
the invoker, `CmdStdout` the printing and logging, `DeleteBegins` to `DeleteEnds` the way
back from `CmdDelete` through the callback into `CmdDelete` again. `DeliverSignal` is a
whole `-exec-interrupt` in between any two steps, `LogFails` the moment from which writing
to the log fails. A line is a token and what follows it.

**UtilString** and **Arguments** -- the arguments. A text is a sequence of symbols: a
space, a quote, a backslash, or a run of other characters. UtilString has the functions of
`CMIUtilString` that split, trim, shield and strip such a text, Arguments the kinds of
`CMICmdArgVal*` as operators from the text to what is left of it, and `Signatures`, what
`ParseArgs` of every command declares. The state machine is `CMICmdArgSet::Validate`:
`ValidateNext` is one turn of its loop and `ValidationFormErrorMessages` its end. `Init`
chooses a command and a line by the properties' need: a *correct* line made from the
signature, one that is *incomplete*, *any* words, or a *console* command of any symbols.

**Threads** -- what the client is told of threads. `active` is `m_vecActiveThreadId`,
`current` is `m_currentSelectedThread`; `threads`, `reasons`, `selected` and `frame` are
LLDB's, of which lldb-mi sees `Valid` and `SelectedThread`. `Check` is
`ChkForStateChanges`, done by the handlers of stops, exits, and of events of threads and
targets; `UpdateSelectedThread` chooses the thread of a stop. Like EventLoop, the event
thread takes an event (`Take`) before it handles it, and it needs the session mutex for
that, which the command that resumes a synchronous process keeps until it stops (`Idle`).
`confused` has the records that came out of turn (`OutOfTurn`), with the one that
`HandleProcessEventStateExited` prints for thread 1 whatever `ChkForStateChanges` has just
printed (`LastRecord`). The commands that list frames,
arguments, variables and threads change nothing: they are operators, and the properties
compare them with each other and with what the client was told.

**Lifecycle** -- start-up and shutdown. `refs` and `inited` are the members of
`CMICmnBase` and of each singleton, `stack` the calls of `Initialize` and `Shutdown` in
progress, `built` the singletons by the order of their construction. `Uses` is the list
that each `Initialize` names. `Init` is the entry of `main()`: the static members of
`CMIDriver` have read resource strings, so that the log is constructed and the resources have
initialised themselves. `InitDebugger` is the one place where starting may fail.
`Destroy` runs the destructors after `main()`, most of which call `Shutdown` once more.

**MCEventLoop, MCStoppoints, MCRunControl, MCOutputDrain, MCVarObjects, MCArguments,
MCThreads** give values to constants that a `.cfg` cannot write. **EventLoopProofs,
StoppointsProofs, RunControlProofs, OutputDrainProofs, VarObjectsProofs,
CommandPipelineProofs, ThreadsProofs, LifecycleProofs** extend the module of their name with
its theorems.

Operators whose comment says *mutant* or *faulty* next to a definition of the same
shape are deliberate errors in that definition; substituting one for the other must
break the property that `PROJECT.json` pairs it with. They show that the properties
depend on the code.

## 3. The runs

| run | checks | shows |
| --- | --- | --- |
| `eventloop_safety` | `SessionKept` (refinement of Session), `DrainedOnReturn`, `AsyncModeRestored`, `QuitIsFinal` | Commands and handlers never run together, and a command begins only when the events from before the last prompt are handled. A wait for events returns only when those sent before it are handled. Scripts restore the mode. No command follows a quit. For every combination of `exe`, `--executable`, `-c` and `--source`. |
| `eventloop_live` | `Termination`, `EveryEventHandled` | lldb-mi ends when stdin does, and every event is handled unless the thread is told to stop first, with spurious wake-ups, read errors and a SIGINT. |
| `stoppoints` | `NumbersNeverShared`, `RecordsTrackLldb`, `EnabledReported`, `WatchHitNamed`, `NumbersKept` (refinement of StoppointNumbers), `DeadRecordsVanish` (liveness) | Numbers and records stay consistent with LLDB and with what the client was told, for every order of commands, console commands, one-shot deletions and delayed events. |
| `runcontrol` | `RunningReported`, `StopReportedIfUndisturbed`, `ReportedOnce`, `ExitReported`, `OutputBeforeStop` | The client learns of resumes, stops and exits once and in order, in both modes, with SIGINT, console commands, and a change of mode at any moment. The exceptions are part of the properties. |
| `output_stdout` | `OutputPreserved`, `OutputBeforePrompt`, `DrainEnds` | Output is printed once, in order, before the prompt, and the drain returns; newlines on stdout only. |
| `output_stderr` | `DrainEnds` | violated: section 6 |
| `varobjects` | `UpdateMissesNothing`, `AssignmentReported`, `ObjectsKeepTheirVariable` | `-var-update` prints every change between two stops and every assignment that has not been overwritten, and a name stands for one variable, whatever other `var-*` commands come between. |
| `pipeline` | `OneAnswer`, `AnswersInOrder`, `NothingLeftBehind`, `UsesOnlyTheLiving`, `DeleteLoopIsDefined` | A line is answered once with its own token, tokens come in the order of the lines, and a command object is deleted once and never used afterwards, with failures at every stage, a log that fails and SIGINTs between any two steps. |
| `arguments` | `ArgumentsFound`, `OmissionRefused`, `WordsKept`, `ConsoleCommandKept` | For every command: a correct line has each argument take its own words, one without a mandatory argument is refused, no word is lost or taken twice, a console command reaches LLDB as typed. |
| `threads` | `ThreadsKnownAtStop`, `RecordsAlternate`, `ClientKnowsSelected`, `FramesInRange`, `CulpritNamed` (action property) | After a stop the client knows the threads and the selected one; the created and exited of `ChkForStateChanges` alternate; a stop names a thread that has caused it; ranges of frames are exact. |
| `threads_running` | `OnlyTheDeadExit` | violated: section 6 |
| `lifecycle` | `UsersGoFirst`, `TornDown`, `DestroyedUnused` | A module outlives those that use it and a run that has started leaves nothing behind, wherever the debugger's start fails. |

The properties carry their exceptions in the open. The important ones:

- `StopReportedIfUndisturbed`, `ReportedOnce` and `ExitReported` except sessions with
  a SIGINT or a change of `target-async`, and the first and last of them except a second
  process or a handler's own resume in synchronous mode: there a stop is lost (the first
  is a finding; the others are noted with their hazards).
- `UpdateMissesNothing` excepts objects for which a `-var-assign` (of any object) has come
  since the stop: a write to memory makes LLDB compare anew and forget the earlier answer.
- `AssignmentReported` excepts objects that are `forgotten`: the value they have was
  assigned to them again, or the children of their parent were listed again, before the
  update. Without the exception it is `AssignmentKept`, which is violated: section 6.
- `SessionKept`, `DrainedOnReturn` and `QuitIsFinal` hold if the condition variable never wakes by
  itself, since `wait` is called with no predicate.
- `OneAnswer` and `NothingLeftBehind` except sessions with a SIGINT, and `OneAnswer` lines
  met by a failing log and commands that fail without an error text (`Silent`).
- `ArgumentsFound` excepts a short option that is the only word left, which is not
  recognised, and an option whose word stands in quotes before it, which is cut out of the
  quotes; `WordsKept` excepts the second too.
- `ThreadsKnownAtStop` and `RecordsAlternate` except processes that follow one whose
  threads LLDB went on listing after its exit: nothing empties `m_vecActiveThreadId`.
  `RecordsAlternate` excepts the last `=thread-exited` of a process too, the one of thread 1
  that `HandleProcessEventStateExited` always prints: when LLDB's threads are gone it is the
  second in a row.
- `ClientKnowsSelected` and `CulpritNamed` except stops that are not reported because the
  selected thread's reason prints nothing; the former also selections that LLDB has dropped
  or that were made in the console. `FramesInRange` excepts the largest number, whose
  successor is 0.
- `DestroyedUnused` is about runs whose start has succeeded. After one that failed, the
  destructor of `CMICmnStreamStdin` shuts down the resources after their destruction.

Some properties are stated and hold, but are in no run: the type invariants (`TypeOK` of
each module but StoppointNumbers; all are proved but that of Arguments),
`EventsDoNotDisturbCommands` (which `SessionKept` implies), `NoOrphanedWait` and
`HandlerThreadIsActive` of EventLoop, which are proved, `FailedInsertUnseen` of Stoppoints, proved too,
`LinesAreWhole` of OutputDrain and, with one target, `ConsolePointsHaveNoRecord` of Stoppoints. Each can be added to the passing
configuration of its module.

## 4. Bounds and fairness

| module | bounds of the passing runs | why they are enough |
| --- | --- | --- |
| EventLoop | 1 line in the script and 1 of stdin, 2 events (1 SIGINT in the liveness run) | An event can arrive before, during and after a command, behind another one, and during the wait. A second line repeats the loop from the same states. The theorems have no bounds. |
| Stoppoints | 1 target, 3 stoppoints, 2 events pending, limit of 2 | Three stoppoints let the numbers run past the limit, a breakpoint and a watchpoint share an LLDB id, and one be created after another was deleted. Two pending events let a Removed follow its Added, or another stoppoint's. |
| RunControl | 2 processes, 3 stops of each, 2 pieces of output, 1 SIGINT, 1 change of mode | A stop may be overtaken by a resume and another stop; stop ids of two processes may meet. |
| OutputDrain | chunks of 2 bytes, 4 bytes a stream | Lines straddle reads, fill a read exactly, and follow each other inside one; there are two reads and the empty one. |
| CommandPipeline | 3 lines, 2 SIGINTs, one command that may fail silently and one that may not | A third line meets what two have left. Two SIGINTs nest one after another in one command, or come in two. |
| Arguments | all commands; 2 options beside the mandatory ones, of which 1 common; 3 words in any other line; console commands of 4 symbols | Two options can cut from each other and a third repeats it. Three words fill an option, its value and a parameter. Four symbols hold a quoted word, or a backslash on both sides of a quote. |
| Threads | 2 threads, of 2 frames and of none, 2 processes, 2 stops, 1 event of the target, 1 selection, numbers up to 3 | One thread may go as the other comes; a stop may find the list of the process before; the number after the depth and the largest one are both there. |
| Lifecycle | none: all modules, in the order of the code | |
| VarObjects | 2 objects at a time, 1 automatic name and 1 of the client, 2 values | Two objects share a variable, or one is the member of the other; a name is given, deleted and given again. |

Fairness, only where a run checks liveness:

- `EventLoop!FairSpec`: weak fairness of each step of the main thread except those
  choosing what a command does, and of the event thread as a whole. Both are threads that
  the operating system schedules; commands and handlers end; stdin comes to its end or
  goes on failing (the second disjunct of `Termination`). Locks are weakly fair because
  the event thread sleeps 1 ms outside the queue mutex each turn
  (`MICmnLLDBDebugger.cpp:790`). LLDB and SIGINT are under no fairness.
- `Stoppoints!FairSpec`: events are handled, which `EveryEventHandled` shows.
- `OutputDrain!FairSpec`: a handler that has been entered goes on. The program is under no
  fairness: `MaxWritten` says that it does not write for ever, without which the drain
  need not return.

`CHECK_DEADLOCK FALSE` stands in the configurations of modules that may stop: Stoppoints,
when no stoppoint is left to create and all are gone; CommandPipeline, when the last line is
answered or the log's failure has ended the main loop; Arguments, when a line has been
judged; Threads, when the last process has exited. Lifecycle ends in a step of its own
(`Ended`), so that there deadlock is checked.

## 5. The proofs

The theorems are for arbitrary constants that satisfy the module's `ASSUME`, which says
what a constant is (a bound is a natural number, the reasons are some of LLDB's) and three
things more: no command is both unknown and registered (CommandPipeline), a process has a
thread, and a thread fewer frames than an unsigned number can count (Threads), and the
client gives no variable object a name of the form that lldb-mi makes up (VarObjects). What a
theorem assumes besides is in its table. So the bounds of section 4 are no bounds of what
is proved: a run shows a property with 3 stoppoints or 2 SIGINTs, the theorem with any
number.

Each module has an inductive invariant `IInv`, and a lemma for each of its parts with a step
for each action that can disturb the part. TLC checked it in the configuration of the
component's passing run before it was proved.

**EventLoopProofs.** `IInv` is `TypeOK` and four parts, none inductive alone:

- `LockInv`: each mutex is held exactly at certain control points. Exclusion follows
  at once, and it is preserved because each thread enters those points by locking.
- `ThreadInv`: the event thread is active from start to end of its loop, is told to end
  only by the main thread past its last wait, and leaves the loop only if told.
- `CountInv`: what was sent is handled, in hand or in the queue. Needed because a wait
  is about events by their number.
- `DrainInv`: a main thread that has been woken was woken by an empty listener found
  under the queue mutex, with no event in hand (from `LockInv`), so `CountInv` gives
  `handled = sent >= mark`. This is the part that needs `~SpuriousWakeups`.

The refinement needs `DueInv` besides: wherever the main thread comes from to its next
command, from a wait, an empty line, the end of the script or the start, what was due is
handled, or the exit flag keeps it from beginning (a failing line of the script is followed
by no wait). `SessionSteps` says which step of Session a step of the two control points is,
and `SessionStep` which action makes which.

| theorem | says | assuming |
| --- | --- | --- |
| `TypeCorrect` | `Spec => []TypeOK` | |
| `Exclusion` | `Spec => []EventsDoNotDisturbCommands` | |
| `NeverOrphaned` | `Spec => []NoOrphanedWait` | |
| `AssertionHolds` | `Spec => []HandlerThreadIsActive` | |
| `WaitDrains` | `Spec => []DrainedOnReturn` | `~SpuriousWakeups` |
| `ModeRestored` | `Spec => []AsyncModeRestored`, by `AsyncInv`: between the save and the restoration the saved mode is the one lldb-mi started with | |
| `SessionIsKept` | `Spec => SessionKept`: EventLoop implements Session | `~SpuriousWakeups` |
| `QuitFinal` | `Spec => QuitIsFinal`, by `QuitInv`: while a quit is on its way its event is still to be handled, or the exit flag is set | `~SpuriousWakeups` |

**StoppointsProofs.** The properties relate the client, `records` and LLDB, all of which
are at different moments of one history, so `IInv` is about what is still to come:

- `QueueInv`: a Removed event is the last one about its stoppoint, and comes if the
  stoppoint is gone and anything about it is pending. `OneTarget`: a key is one stoppoint.
- `KeysApart`, `ToldApart`: two keys never share a number, and no key has the number that
  the client knows for another, not even of a stoppoint that is gone. `NumbersNeverShared`
  and the watchpoint's number in `WatchHitNamed` rest on it.
- `ToldKept`: as long as anything can be said of a stoppoint the client was told of, its
  number and its record are there: `RemoveStoppointInfo` runs for Removed events only.
- `RecordsKeyed`, `RecordsTold`, `ShownTold`: a record is its key's; a record the client was
  not told of waits for an event; the client was shown only what it was told of.
- `EnabledInv`: the enabled state shown is LLDB's, or an event says otherwise.

What a step does is stated twice over, for LLDB's queue (`LldbShapes`) and for the maps and
the client (`Shapes`), and the parts are preserved by each *shape*, of which there are fewer
than actions.

| theorem | says |
| --- | --- |
| `StoppointsTypeOK` | `Spec => []TypeOK` |
| `NumbersAreNeverShared` | `Spec => []NumbersNeverShared` |
| `RecordsFollowLldb` | `Spec => []RecordsTrackLldb` |
| `EnabledIsReported` | `Spec => []EnabledReported` |
| `WatchHitIsNamed` | `Spec => []WatchHitNamed` |
| `NumbersRefine` | `Spec => NumbersKept`: Stoppoints implements StoppointNumbers; a step either announces a number that is new with a stoppoint that is new, retires one on record, or stutters |
| `FailedInsertsAreUnseen` | `Spec => []FailedInsertUnseen`, assuming `"bp" \notin HandleOutlives`, by `FailedInv`: a breakpoint whose `-break-insert` failed has no record or is past the limit, and a live one keeps its number; who is put on record or told of (`Says`) is new, a watchpoint, or has a handle that is valid |

All for `Spec`, a session with one target; with two the key no longer names a stoppoint
(section 6).

**RunControlProofs.** A record is printed when the event thread handles an event that was
taken from a queue, so what the client will have been told is what `view`, the event in
hand and the queue say, in that order: `Says(k, kinds)` is that of events of these kinds the
last is a `k`.

- `ControlInv`, `FirstInv`: which control points go together; among the events that nobody
  has taken before at most one makes a stop or an exit public, and while it is pending the
  run lock is held.
- `RunningInv`: whoever runs without being waited for `Says` running.
- `OnceInv`: each stop has one event, in the queue, in hand or reported.
- `SyncInv`: without changes of `target-async` a command knows the mode; a synchronous process
  runs only while a command waits for it.
- `AsyncToldInv`, `SyncToldInv`: each stop and exit of an asynchronous process has an event;
  that of the first synchronous one is broadcast again by the command, which sees it by
  the stop id. `ReportedOnce`, `StopReportedIfUndisturbed` and `ExitReported` follow.

| theorem | says |
| --- | --- |
| `RunControlTypeOK` | `Spec => []TypeOK` |
| `RunningIsReported` | `Spec => []RunningReported` |
| `StopsAreReportedOnce` | `Spec => []ReportedOnce` |
| `StopsAreReported` | `Spec => []StopReportedIfUndisturbed` |
| `ExitsAreReported` | `Spec => []ExitReported` |
| `OutputComesBeforeStop` | `Spec => []OutputBeforeStop` |

**OutputDrainProofs** has two invariants. `OutputPreserved` says `written = printed \o held
\o buffer`; `IInv` adds `Lines` (a stream with no newline in what was written has none in
`text`, so stderr's faulty loop is never entered), `NothingHeld` (text is empty when a
handler is entered, so reassigning `stream` loses nothing) and `Bounded` (the history
variable `printed` is never cut off).

A line of stderr is printed over and over, so with both streams that equation fails;
`OutputBeforePrompt` does not, and `PInv` shows it by lengths: `NoneMissing` (what is
printed, held and buffered is no less than what was written), `AllRead` (after a read that
returned nothing all there was at the entry is in hand), `DonePrinted` (the streams that
the handler is done with are printed), `DueWritten`.

| theorem | says | assuming |
| --- | --- | --- |
| `OutputIsPreserved` | `Spec => []OutputPreserved` | `Breaks \subseteq {"stdout"}` |
| `TypeCorrect` | `Spec => []TypeOK` | |
| `OutputPrecedesPrompt` | `Spec => []OutputBeforePrompt` | |

**VarObjectsProofs.** `NameInv` and `NumberInv`: members have names of their own, and the
next number is free. `AssignedInv`: an object remembers an assignment until it is updated or `forgotten`.
`SureInv`: of an object that was in step when the process was resumed LLDB notices a new
value, or has noticed it and the answer was kept (`Known`). It is stated by the operator
that models LLDB's comparison, `Examined`, because a second question at the same stop must
give the first answer.

| theorem | says |
| --- | --- |
| `VarObjectsTypeOK` | `Spec => []TypeOK` |
| `UpdatesMissNothing` | `Spec => []UpdateMissesNothing` |
| `AssignmentsAreReported` | `Spec => []AssignmentReported` |
| `NamesKeepTheirVariable` | `Spec => ObjectsKeepTheirVariable`, an action property |

**CommandPipelineProofs.** `CountInv`: the commands alive are no more than the lines and
SIGINTs, so that there is an id left for the next. `LineInv`: between its reading and its
answer there is a line. `OrderInv`: the token in use is this line's or none, also when a
SIGINT's command has just replaced it. `InvokerInv`: without SIGINTs, what `alive`, `cmds`
and `registered` are at each control point, in particular on the way from `CmdDelete`
through the callback into `CmdDelete` again. `AnswerInv`: the way of the token from the line
into the record.

| theorem | says |
| --- | --- |
| `PipelineTypeOK` | `Spec => []TypeOK` |
| `AnswersComeInOrder` | `Spec => []AnswersInOrder` |
| `LinesHaveOneAnswer` | `Spec => []OneAnswer` |
| `CommandsInUseLive` | `Spec => []UsesOnlyTheLiving`, with any number of SIGINTs |
| `DeletionIsComplete` | `Spec => []NothingLeftBehind` |
| `DeletionIsDefined` | `Spec => []DeleteLoopIsDefined` |

**ThreadsProofs.** `MadeInv`: threads are numbered as they are made. `KnownInv`: what the
client was told and `m_vecActiveThreadId` agree until an exit leaves threads behind, and
nothing but the last record of a process has been out of turn.
`ListedInv`, `OrderInv`, `ExitedInv`: which events are still on their way, and that the exit
of one process is handled before the stop of the next. `FollowedInv`, `SelectedInv`: a
thread that the client takes for selected is, or is `m_currentSelectedThread`, which the
next comparison corrects; after the handler of the last stop it is. The lemmas
`UpdateIsThread` and `UpdateGivesReason` say what `UpdateSelectedThread` selects: a thread of
the process, and one that has a reason if there is any.

| theorem | says |
| --- | --- |
| `ThreadsTypeOK` | `Spec => []TypeOK` |
| `CreationsAndExitsAlternate` | `Spec => []RecordsAlternate` |
| `ThreadsAreKnown` | `Spec => []ThreadsKnownAtStop` |
| `SelectionIsKnown` | `Spec => []ClientKnowsSelected` |
| `CulpritIsNamed` | `Spec => CulpritNamed`, an action property |
| `FramesAreInRange` | `Spec => []FramesInRange` |

**LifecycleProofs.** The invariant counts. A module *holds* a module it uses (`Holds`) when
it has initialised it and not released it: at rest it holds all or nothing, by its flag or
its counter (`Alive`), and on the stack what its frame says (`Keeps`), namely what is not in
`left` any more during Initialize, and what still is during Shutdown. `Clients` is the set of
those that hold a module.

- `CountInv`: a counter is the number of `Clients`. Two things make it differ. The resources
  have a client that never gives them back (`Extra`), from the first string that a static
  member reads. After `main()` a destructor takes a client away that it never was (`Stolen`), so that
  from then on the counter is only bounded from below.
- `StackOK`: a frame has been called by the one below, which uses its module; the `Rank` of
  the modules descends, so that each is on the stack once.
- `FrameInv`, `RestInv`: a module in its first Initialize has the one client that called it,
  one in its Shutdown has none, and one at rest is initialised if it has a client, except
  the debugger and the driver of a start that has `Failed`.
- `EarlyInv`: `main()` initialises the log before everything else.
- `TopInv`, `MainInv`, `DebuggerInv`, `MediumInv`: where `main()` is, with the flags of the
  driver and its manager, LLDB's debugger and the log file.
- `BuiltInv`: what only the interpreter's manager uses is constructed before it, and so
  destroyed after it. `LeftInv`: what `TornDown` has left is all that destructors meet.

`UsersGoFirst` follows by counting: a module that is up is a client of what it uses, and were
a used module still in its own Initialize its caller would be a second one. After `main()`,
when one client may be missing, the driver is the other: a driver that has not been
registered is never shut down. `TornDown` follows rank by rank
from the top of the graph. The module has no constants, so that TLC's run already covers all
there is; the proof shows what the properties rest on, and so what a change of a module's
`Initialize` or `Shutdown` must respect.

| theorem | says |
| --- | --- |
| `Invariance` | `Spec => []IInv`, the count of clients and the rest of the invariant |
| `TypeCorrect` | `Spec => []TypeOK` |
| `UsersGoFirstHolds` | `Spec => []UsersGoFirst` |
| `TornDownHolds` | `Spec => []TornDown` |
| `DestroyedUnusedHolds` | `Spec => []DestroyedUnused` |

**Model-checked only:**

- liveness under fairness (`Termination`, `EveryEventHandled`, `DeadRecordsVanish`,
  `DrainEnds`): the provers have neither fairness nor `ENABLED`;
- Arguments: its properties are about what folds and recursive functions of UtilString
  return, which takes induction over data.

## 6. Where the code disagrees with what is said of it

Two are runs that TLC ends with a counterexample; `PROJECT.json` has the quotations.

| run | in short |
| --- | --- |
| `output_stderr` | The first newline on stderr is found again for ever: `GetProcessStderr` does not erase the line that it prints. |
| `threads_running` | `HandleEventSBTarget` and `HandleEventSBThread` compare threads while an asynchronous process runs, when none is valid: `=thread-exited` is printed for all of them, and the next stop creates them again. |

Others are properties of the modules, written from what the repository says and refuted by
TLC when they are put into a configuration:

| property | in short | to see it |
| --- | --- | --- |
| `EventLoop!FatalStartupFailureExits` | A failing start-up command in `--executable` mode is fatal (`MICmdCmdFile.cpp:200`: "True = Fatal if command fails"), but `DoMainLoop` clears the exit flag it has set (`MIDriver.cpp:555`), and lldb-mi goes on. | `MCEventLoop_safety.cfg` |
| `Stoppoints!SettingsReported` | `RecordStoppointInfo` is a `map::insert` (`MICmnLLDBDebugSessionInfo.cpp:133`); called again with a new ignore count or condition (`MICmdCmdBreak.cpp:923`: "record the new ignore count") it changes nothing, and `=breakpoint-modified` prints the old one. | two `IgnoreCounts` |
| `Stoppoints!BreakHitNamed` | The stop at a breakpoint prints LLDB's id as `bkptno` (`MICmnLLDBDebuggerHandleEvents.cpp:1554`); the client knows the breakpoint by another number once a watchpoint has taken one. | `MCStoppoints_all.cfg` |
| `RunControl!StopReported` | In synchronous mode, a process that stops with the stop id at which the one before it ended is not reported stopped (`MICmnLLDBDebugger.cpp:325`). | `Modes = {FALSE}`, no signals or switches |
| `RunControl!InterruptReachesInferior` | A SIGINT (`MIDriver.cpp:1376`: "Stops the process if it was SIGINT") stops the inferior only after `-exec-run` and `-exec-continue`: after a step, a `finish` or a console command it does nothing. | `Modes = {TRUE}` |
| `VarObjects!AssignmentKept` | "SBValue changed state due to a -var-assign may have already been cleared so combine it with changed state held by the var object" (`MICmdCmdVar.cpp:462`): a second `-var-assign` of the value that the object has sets that state to false (`MICmdCmdVar.cpp:759`), and `-var-list-children` puts a new object in the place of a child (1061). `-var-update` then prints nothing of the first assignment. | `MCVarObjects_all.cfg` |
| `CommandPipeline!EachCommandAnswered` | "Each command forms 1 response to its input" (`MICmdData.h:31`): a command whose `Execute` fails without an error text is not answered (`MICmdCmdStack.cpp:49`). | `MCCommandPipeline_all.cfg` |
| `Arguments!AnyWordsAccepted` | A list of anything is to "Accept any words for a string 'type' even if they look like --longOptions for example" (`MICmdArgValListBase.h:64`): the options common to all commands are added first (`MICmdBase.cpp:78`) and take theirs out of it. | `Commands = {"exec_arguments"}` |
| `Stoppoints!ConsolePointsHaveNoRecord` | The key of the number map lacks the target: the stoppoints of a second target are taken for those of the first. | `ManyTargetsSpec`, `MaxTargets = 2` |

Also seen in the models, with no line of the repository to say which is meant: the SIGINT
handler's command runs while an event is handled, and replaces the line the interpreter has
just taken apart; a condition variable that wakes by itself lets a wait return early; a
breakpoint past the limit of `m_nBreakpointCntMax` is answered `^error` and stays in LLDB;
an object whose frame has gone is reported unchanged; thread 1 is reported exited twice
when its process exits; bare digits are answered without
their token; words of a command that no argument takes are ignored; a lone short option is
left over.

## 7. What is not modelled

Parts that put text together (MI values and records, the printing of values and dates) or
write it (log, files) keep no state that another step could find stale, and so do the data,
memory and symbol commands beyond what Arguments and Threads have of them: they are
outside the modules for good. So are the event masks: `RegisterForEvent` is called by
`InitSBListener` alone, at start-up, once for each class, so that its bookkeeping never
merges two masks; `UnregisterForEvent` is called by nobody. Within the modelled components:

- Stoppoints: break-insert's parsing of a location, hardware and disabled flags, thread
  restrictions; breakpoints of LLDB's dummy target.
- RunControl: what `-exec-arguments` stores, stepping one of several threads.
- VarObjects: formats, `-var-info-path-expression`, `-var-show-attributes`, commands while
  the process runs.
- CommandPipeline: what commands execute; the text of records.
- Arguments: characters (a word is known by what it looks like), the conversion of
  numbers, what a command makes of its arguments.
- Threads: the text of frames; a thread's name and state beyond stopped and running.
- Lifecycle: the singletons' own members; failures other than the debugger's, which the
  code can return but has no cause for.
- LLDB: its events and answers are modelled from how `src/` uses them, and marked
  external in the map.

## 8. The plan

Written so far, the most important first: EventLoop with Session, Stoppoints with StoppointNumbers,
RunControl, OutputDrain, VarObjects, CommandPipeline, UtilString with Arguments, Threads,
Lifecycle; the proofs of all but Arguments. Still to come:

1. Theorems on the properties that are in no run (`LinesAreWhole`),
   and on RunControl as an implementation of *running, stopped, running, ... exited* in a
   synchronous session.
2. Lifecycle for any graph of modules, each of which uses earlier ones: its proof uses little
   of the graph but the lemmas of its second section (`Graph` to `ReleasesAll`).

## 9. Running it

    tlc -config MCStoppoints_all.cfg MCStoppoints    # each run: module and configuration in PROJECT.json
    tlapm StoppointsProofs.tla                       # each module of proofs

Each module of proofs takes one to five minutes.

`PROJECT.json` lists the runs with the properties of each, the mutants, the lines of code
that each definition models (`map`), the hazards and the theorems.
