------------------------------ MODULE Threads ------------------------------
(***************************************************************************)
(* Threads, as the client is told of them.                                 *)
(*                                                                         *)
(* At most events ChkForStateChanges compares LLDB's threads with          *)
(* m_vecActiveThreadId and the selected thread with                        *)
(* m_currentSelectedThread, and reports the differences.  The handler of a *)
(* stop then selects a thread with a reason and names it in *stopped.      *)
(* Commands select threads and frames as well and print what they find.    *)
(*                                                                         *)
(* LLDB has a thread valid only when the process is publicly stopped or    *)
(* has exited.  An event is taken before the session mutex is (module      *)
(* EventLoop), so a command may run between taking and handling it.        *)
(***************************************************************************)
EXTENDS Naturals, Sequences, FiniteSetsExt

CONSTANTS
  Modes,      \* values of SBDebugger::GetAsync()
  Reasons,    \* reasons threads stop for, a subset of AllReasons
  Depth,      \* the number of frames of each thread, by its index id
  MaxUint,    \* the largest MIuint
  MaxProcs,   \* bound: processes launched
  MaxStops,   \* bound: stops of all of them
  MaxOthers,  \* bound: events of the target
  MaxSelects  \* bound: threads and frames selected

Ids      == DOMAIN Depth   \* index ids: 1, 2, ... for each process
NoThread == 0              \* LLDB_INVALID_THREAD_ID
NoNumber == MaxUint + 1    \* an argument that is not given

\* "plan" is a finished step, "break" a breakpoint, "signal" a watchpoint, a
\* signal or an exception, "trap" a SIGTRAP outside __pthread_clone, "silent"
\* anything else the handler prints nothing for (exec, fork, a thread that exits).
Named      == {"plan", "break", "signal"}
AllReasons == Named \cup {"trap", "silent", "none"}

ASSUME ThreadsAssumption ==
  /\ Modes \subseteq BOOLEAN
  /\ Reasons \subseteq AllReasons /\ "none" \in Reasons
  /\ Depth \in Seq(Nat) /\ Depth # <<>>
  /\ MaxUint \in Nat /\ \A t \in Ids : Depth[t] < MaxUint
  /\ MaxProcs \in Nat /\ MaxStops \in Nat /\ MaxOthers \in Nat /\ MaxSelects \in Nat

VARIABLES
  async,    \* SBDebugger::GetAsync()
  state,    \* LLDB: "stopping" and "exiting" until the event thread takes the event
  threads,  \* LLDB: the threads of the process, as of its last stop
  made,     \* LLDB: threads the process has had
  reasons,  \* LLDB: why each has stopped
  selected, \* LLDB: the thread selected last
  frame,    \* LLDB: the frame selected in each thread
  queue,    \* pending events
  taken,    \* the event the event thread has in hand
  active,   \* m_vecActiveThreadId, which never has a thread twice
  current,  \* m_currentSelectedThread
  \* What the client has been told, and history:
  known,    \* the threads it knows
  client,   \* the thread it takes for selected
  reported, \* there has been a *stopped since the process was resumed
  confused, \* the records out of turn, as OutOfTurn has them
  leftover, \* m_vecActiveThreadId was not empty when an exit was reported
  unsaid,   \* the selection has changed by a failed command or in the console
  procs, stops, others, selects

lldb   == <<async, state, threads, made, reasons, selected, frame>>
events == <<queue, taken>>
told   == <<known, client, reported, confused, leftover, unsaid>>
bounds == <<procs, stops, others, selects>>
vars   == <<lldb, events, active, current, told, bounds>>

Kinds   == {"stopped", "exited", "running", "target", "thread"}
NoEvent == "none"

TypeOK ==
  /\ async \in BOOLEAN
  /\ state \in {"none", "running", "stopping", "stopped", "exiting", "exited"}
  /\ threads \subseteq Ids /\ made \in 0..Len(Depth)
  /\ reasons \in [Ids -> Reasons]
  /\ selected \in Ids \cup {NoThread} /\ frame \in [Ids -> 0..MaxUint]
  /\ queue \in Seq(Kinds) /\ taken \in Kinds \cup {NoEvent}
  /\ active \subseteq Ids /\ current \in Ids \cup {NoThread}
  /\ known \subseteq Ids /\ client \in Ids \cup {NoThread}
  /\ reported \in BOOLEAN /\ confused \subseteq {"created", "exited", "last"}
  /\ leftover \in BOOLEAN /\ unsaid \in BOOLEAN

NoReasons == [t \in Ids |-> "none"]
FirstFrames == [t \in Ids |-> 0]

Init ==
  /\ async \in Modes /\ state = "none"
  /\ threads = {} /\ made = 0 /\ reasons = NoReasons
  /\ selected = NoThread /\ frame = FirstFrames
  /\ queue = <<>> /\ taken = NoEvent
  /\ active = {} /\ current = NoThread
  /\ known = {} /\ client = NoThread /\ reported = FALSE
  /\ confused = {} /\ leftover = FALSE /\ unsaid = FALSE
  /\ procs = 0 /\ stops = 0 /\ others = 0 /\ selects = 0

-----------------------------------------------------------------------------
(* LLDB, outside lldb-mi *)

\* SBThread::IsValid.
Valid == IF state \in {"stopped", "exited"} THEN threads ELSE {}

\* SBProcess::GetSelectedThread: the first thread if the selected one is gone.
SelectedThread ==
  IF selected \in threads THEN selected
  ELSE IF threads = {} THEN NoThread ELSE Min(threads)

\* The stop of an asynchronous process is public when its event is taken, that of
\* a synchronous one when the command that has resumed it returns.
InferiorStops ==
  /\ state = "running" /\ stops < MaxStops
  /\ stops' = stops + 1
  /\ state' = IF async THEN "stopping" ELSE "stopped"
  /\ \E n \in made..Len(Depth) :
       /\ made' = n
       /\ threads' \in (SUBSET (threads \cup (made + 1)..n)) \ {{}}
  /\ reasons' \in {r \in [Ids -> Reasons] : \A t \in Ids \ threads' : r[t] = "none"}
  /\ queue' = Append(queue, "stopped")
  /\ UNCHANGED <<async, selected, frame, taken, active, current, told, procs,
                 others, selects>>

\* Whether LLDB goes on listing the threads is left open.
InferiorExits ==
  /\ state = "running"
  /\ state' = IF async THEN "exiting" ELSE "exited"
  /\ threads' \in {threads, {}}
  /\ queue' = Append(queue, "exited")
  /\ UNCHANGED <<async, made, reasons, selected, frame, taken, active, current,
                 told, bounds>>

\* Modules or symbols loaded, at any time, also while the process runs.
TargetChanges ==
  /\ state # "none" /\ others < MaxOthers
  /\ others' = others + 1
  /\ queue' = Append(queue, "target")
  /\ UNCHANGED <<lldb, taken, active, current, told, procs, stops, selects>>

-----------------------------------------------------------------------------
(* Commands *)

\* A synchronous process that runs keeps the main thread waiting in the command that
\* has resumed it, and the session mutex with it: no event is handled meanwhile.
Idle == async \/ state \notin {"running"}

Launch ==
  /\ state \in {"none", "exited"} /\ procs < MaxProcs
  /\ procs' = procs + 1
  /\ state' = "running" /\ threads' = {1} /\ made' = 1
  /\ reasons' = NoReasons /\ selected' = NoThread /\ frame' = FirstFrames
  /\ queue' = IF async THEN Append(queue, "running") ELSE queue
  /\ reported' = FALSE
  /\ UNCHANGED <<async, taken, active, current, known, client, confused, leftover,
                 unsaid, stops, others, selects>>

Resume ==
  /\ state = "stopped"
  /\ state' = "running" /\ reasons' = NoReasons /\ frame' = FirstFrames
  /\ queue' = IF async THEN Append(queue, "running") ELSE queue
  /\ reported' = FALSE
  /\ UNCHANGED <<async, threads, made, selected, taken, active, current, known, client,
                 confused, leftover, unsaid, bounds>>

\* LLDB selects no thread at all when there is none of this id.
ThreadSelect(t) ==
  /\ Idle /\ state # "none" /\ selects < MaxSelects
  /\ selects' = selects + 1
  /\ IF t \in threads
       THEN selected' = t /\ client' = t /\ UNCHANGED unsaid
       ELSE selected' = NoThread /\ unsaid' = TRUE /\ UNCHANGED client
  /\ UNCHANGED <<async, state, threads, made, reasons, frame, events, active, current,
                 known, reported, confused, leftover, procs, stops, others>>

\* The command "thread select" of LLDB's interpreter, which broadcasts an event.
ConsoleThreadSelect(t) ==
  /\ state = "stopped" /\ t \in threads /\ selects < MaxSelects
  /\ selects' = selects + 1
  /\ selected' = t /\ unsaid' = TRUE
  /\ queue' = Append(queue, "thread")
  /\ UNCHANGED <<async, state, threads, made, reasons, frame, taken, active, current,
                 known, client, reported, confused, leftover, procs, stops, others>>

\* A thread of an exited process has none.
Frames(t) == IF state = "stopped" /\ t \in threads THEN Depth[t] ELSE 0

StackSelectFrame(f) ==
  /\ Idle /\ state = "stopped" /\ selects < MaxSelects
  /\ f < Frames(SelectedThread)
  /\ selects' = selects + 1
  /\ frame' = [frame EXCEPT ![SelectedThread] = f]
  /\ UNCHANGED <<async, state, threads, made, reasons, selected, events, active, current,
                 told, procs, stops, others>>

(* Commands that change nothing: their answers in the present state. *)

Numbers   == 0..MaxUint
Thread(t) == IF t = NoNumber THEN SelectedThread ELSE t
Refused   == {NoNumber}   \* an error, unlike every set of levels or ids

\* EnsureProcessIsPaused.  What no process at all leads to is in CommandPipeline.
Paused(t) == state = "stopped" /\ t \in Valid

StackInfoDepth(t) == Frames(Thread(t))

\* The frame after the last one to be listed (mutant: the last one itself).
FrameEndEarly(high, frames) == IF high < frames THEN high ELSE frames

FrameEnd(high, frames) ==
  IF high < MaxUint /\ high + 1 < frames THEN high + 1 ELSE frames

StackListFrames(t, low, high) ==
  LET from == IF low = NoNumber THEN 0 ELSE low
      end  == FrameEnd(IF high = NoNumber THEN MaxUint ELSE high, Frames(Thread(t)))
  IN {l \in Numbers : from <= l /\ l < end}

\* Both numbers or none; the successor of the last is cut to a MIuint.
StackListArguments(t, low, high) ==
  LET frames == Frames(Thread(t))
      given  == low # NoNumber
      from   == IF given THEN low ELSE 0
      end    == IF given THEN (high + 1) % (MaxUint + 1) ELSE MaxUint
  IN IF given # (high # NoNumber) THEN Refused
     ELSE IF ~Paused(Thread(t)) THEN {}
     ELSE IF from >= frames THEN Refused
     ELSE {l \in Numbers : from <= l /\ l < end /\ l < frames}

StackInfoFrame == frame[SelectedThread]

\* The frame whose variables are printed, which need not exist.
StackListVariables(t, f) ==
  IF ~Paused(Thread(t)) THEN NoNumber
  ELSE IF f = NoNumber THEN frame[Thread(t)] ELSE f

\* A thread without a reason has no locals.
StackListLocals(t, f) ==
  IF Thread(t) \in Valid /\ reasons[Thread(t)] = "none"
    THEN NoNumber ELSE StackListVariables(t, f)

\* MIResponseFormThreadInfo.
ThreadState(t) == IF reasons[t] = "none" THEN "running" ELSE "stopped"

ThreadInfo(t) ==
  IF t = NoNumber THEN Valid ELSE IF t \in Valid THEN {t} ELSE Refused

ListThreadGroups == Valid

-----------------------------------------------------------------------------
(* The event thread *)

\* GetNextEvent.
Take ==
  /\ taken = NoEvent /\ queue # <<>>
  /\ taken' = Head(queue) /\ queue' = Tail(queue)
  /\ state' = CASE state = "stopping" /\ taken' = "stopped" -> "stopped"
                [] state = "exiting" /\ taken' = "exited"   -> "exited"
                [] OTHER -> state
  /\ UNCHANGED <<async, threads, made, reasons, selected, frame, active, current,
                 told, bounds>>

\* The threads that have exited stay in the list (mutant).
StillActiveAll(listed) == listed

StillActive(listed) == listed \cap Valid

Created == Valid \ active
Exited  == (active \cup Created) \ Valid

KnownNow == (known \cup Created) \ Exited

\* A thread the client knows is created, or one it does not know exits.
OutOfTurn ==
  {r \in {"created", "exited"} :
     IF r = "created" THEN Created \cap known # {} ELSE ~(Exited \subseteq known)}

CheckList ==
  /\ active' = StillActive(active \cup Created)
  /\ confused' = confused \cup OutOfTurn

\* The selection is compared only while it is valid (mutant: never).
CurrentNowKept == current

CurrentNow == IF SelectedThread \in Valid THEN SelectedThread ELSE current
ClientNow  == IF CurrentNow # current THEN CurrentNow ELSE client

\* ChkForStateChanges: threads created, the one selected, threads exited.
Check ==
  /\ CheckList
  /\ known' = KnownNow /\ current' = CurrentNow /\ client' = ClientNow

HandleTarget ==
  /\ Idle /\ taken = "target" /\ taken' = NoEvent
  /\ Check
  /\ UNCHANGED <<lldb, queue, reported, leftover, unsaid, bounds>>

HandleThread ==
  /\ Idle /\ taken = "thread" /\ taken' = NoEvent
  /\ Check
  /\ UNCHANGED <<lldb, queue, reported, leftover, unsaid, bounds>>

\* HandleProcessEventStateRunning changes nothing here.
HandleRunning ==
  /\ Idle /\ taken = "running" /\ taken' = NoEvent
  /\ UNCHANGED <<lldb, queue, active, current, told, bounds>>

\* The first thread whose step is done, or else the first with another reason
\* (mutant: only a thread whose step is done).
FirstWithReasonPlan ==
  LET done == {t \in threads : reasons[t] = "plan"}
  IN IF done # {} THEN Min(done) ELSE SelectedThread

FirstWithReason ==
  LET With(rs) == {t \in threads : reasons[t] \in rs}
      reached  == {"break", "signal", "trap"}
  IN IF With({"plan"}) # {} THEN Min(With({"plan"}))
     ELSE IF With(reached) # {} THEN Min(With(reached))
     ELSE SelectedThread

\* UpdateSelectedThread: a thread with a reason of its own stays selected.
UpdateSelectedThread ==
  IF reasons[SelectedThread] = "none" THEN FirstWithReason ELSE SelectedThread

\* Whether the *stopped of the selected thread names it: without frames it names none
\* after a step, and after a breakpoint the breakpoint's thread, which is none either.
TraceNames(t)      == Depth[t] > 0
BreakpointNames(t) == Depth[t] > 0

NamesThread(t) ==
  CASE reasons[t] = "plan"   -> TraceNames(t)
    [] reasons[t] = "break"  -> BreakpointNames(t)
    [] reasons[t] = "signal" -> TRUE
    [] OTHER -> FALSE

HandleStopped ==
  /\ taken = "stopped" /\ taken' = NoEvent /\ state = "stopped"
  /\ CheckList /\ known' = KnownNow /\ current' = CurrentNow
  /\ selected' = UpdateSelectedThread
  /\ reported' = (reported \/ reasons[selected'] \in Named)
  /\ client' = IF NamesThread(selected') THEN selected' ELSE ClientNow
  /\ UNCHANGED <<async, state, threads, made, reasons, frame, queue, leftover,
                 unsaid, bounds>>

\* The process has been resumed, or has exited, since: nothing has a reason.
HandleStaleStop ==
  /\ Idle /\ taken = "stopped" /\ taken' = NoEvent /\ state # "stopped"
  /\ Check
  /\ UNCHANGED <<lldb, queue, reported, leftover, unsaid, bounds>>

\* HandleProcessEventStateExited prints that thread 1 has exited, whatever the
\* comparison has just printed, and that the group has.
LastRecord == IF 1 \in KnownNow THEN {} ELSE {"last"}

HandleExited ==
  /\ Idle /\ taken = "exited" /\ taken' = NoEvent
  /\ active' = StillActive(active \cup Created) /\ current' = CurrentNow
  /\ confused' = confused \cup OutOfTurn \cup LastRecord
  /\ known' = KnownNow \ {1} /\ client' = NoThread
  /\ leftover' = (leftover \/ active' # {})
  /\ UNCHANGED <<lldb, queue, reported, unsaid, bounds>>

Next ==
  \/ InferiorStops \/ InferiorExits \/ TargetChanges
  \/ Launch \/ Resume
  \/ \E t \in Ids : ThreadSelect(t) \/ ConsoleThreadSelect(t)
  \/ \E f \in 0..MaxUint : StackSelectFrame(f)
  \/ Take \/ HandleTarget \/ HandleThread \/ HandleRunning
  \/ HandleStopped \/ HandleStaleStop \/ HandleExited

Spec == Init /\ [][Next]_vars

-----------------------------------------------------------------------------
(* Properties *)

Settled == state = "stopped" /\ queue = <<>> /\ taken = NoEvent

\* Once the events of a stop are handled the client knows the threads of the
\* process: no thread that came or went, in whatever number and while whatever
\* event was late, has been missed (ChkForStateChanges).  Excepted: a process that
\* follows one whose threads LLDB went on listing after its exit, because
\* m_vecActiveThreadId still holds them.
ThreadsKnownAtStop ==
  Settled /\ ~leftover =>
    known = threads /\ ThreadInfo(NoNumber) = known /\ ListThreadGroups = known

\* The =thread-created and =thread-exited of ChkForStateChanges alternate for every
\* thread, over any number of processes, with the same exception.  Not so the last
\* record of a process: HandleProcessEventStateExited prints =thread-exited,id="1"
\* also for a thread 1 whose exit has been reported already, or whose creation never
\* was.
RecordsAlternate == ~leftover => confused \subseteq {"last"}

\* A stop for which some thread has a reason to report is reported, with a thread
\* that has one, is called stopped and whose locals can be listed, whichever thread was
\* selected when the process stopped.  Excepted: the thread selected has a reason that
\* prints nothing, which hides the others.
CulpritNamed ==
  [][HandleStopped /\ (\E t \in threads : reasons[t] \in Named)
                   /\ reasons[selected'] \notin {"trap", "silent"}
     => /\ reported'
        /\ NamesThread(selected') =>
             /\ client' = selected' /\ reasons[client'] \in Named
             /\ ThreadState(client)' = "stopped"
             /\ (StackListLocals(client, 0) = StackListVariables(client, 0))']_vars

\* While the process is stopped and nothing is pending, the thread the client takes
\* for selected, by =thread-selected, *stopped or its own -thread-select, is the one
\* commands without --thread work on.  Excepted: a selection LLDB dropped for a
\* thread id it does not have, or made in the console; a stop at a SIGTRAP or without
\* frames, which names no thread; another stop that names none when the thread last
\* selected has gone and m_currentSelectedThread, not updated when it was selected,
\* equals the thread LLDB falls back to; the exit of a process handled when the next
\* one runs already.
ClientKnowsSelected ==
  /\ Settled /\ ~unsaid /\ ~leftover
  /\ IF reasons[SelectedThread] \in Named THEN NamesThread(SelectedThread)
     ELSE reasons[SelectedThread] # "trap" /\ client \in threads
  => client = SelectedThread /\ StackListVariables(client, NoNumber) = StackInfoFrame

\* -stack-list-frames and -stack-list-arguments print the levels asked for that the
\* stack has, neither more nor fewer, whatever the numbers, and as many as
\* -stack-info-depth says.  Excepted: arguments up to the largest number, whose
\* successor wraps to 0.
FramesInRange ==
  \A t \in Ids \cup {NoNumber} :
    /\ StackListFrames(t, NoNumber, NoNumber) = {l \in Numbers : l < StackInfoDepth(t)}
    /\ \A low, high \in Numbers :
         LET asked == {l \in Numbers : low <= l /\ l <= high /\ l < StackInfoDepth(t)}
         IN /\ StackListFrames(t, low, high) = asked
            /\ high # MaxUint =>
                 StackListArguments(t, low, high) \in {asked} \cup (IF asked = {} THEN {Refused} ELSE {})

\* "When the process is running (or in stepping mode) any invocation of
\* SBThread::IsValid() will return false" (HandleProcessEventBroadcastBitStateChanged),
\* and ChkForStateChanges is to "Check for invalid (removed) threads": only threads
\* that are gone are taken off the list and reported to have exited.  An event of the
\* target while an asynchronous process runs has all of them taken off.
OnlyTheDeadExit == [][\A t \in active \ active' : t \notin threads \/ state = "exited"]_vars
=============================================================================
