-------------------------- MODULE RunControlProofs --------------------------
(***************************************************************************)
(* What RunControl guarantees for any number of processes, stops, pieces   *)
(* of output, SIGINTs and changes of target-async: the records *running,   *)
(* *stopped and the exit reach the client and a stop has one record, with  *)
(* the exceptions that the properties name.                                *)
(***************************************************************************)
EXTENDS RunControl, SequenceTheorems, TLAPS

Busy == {"waiting", "mark", "end"}   \* a command holds the session mutex
Alive == {"running", "stopped"}

\* The last of what the queue, the event in hand and the client's view say of the
\* kinds is k.
Says(k, kinds) ==
  \/ \E i \in DOMAIN queue :
       /\ queue[i].kind = k
       /\ \A j \in DOMAIN queue : i < j => queue[j].kind \notin kinds
  \/ /\ \A j \in DOMAIN queue : queue[j].kind \notin kinds
     /\ taken.kind = k \/ (taken.kind \notin kinds /\ view = k)

SaysRunning == Says("running", {"running", "exited"})
SaysStopped == Says("stopped", {"running", "stopped", "exited"})
SaysExited  == Says("exited", {"running", "exited"})

Queued(k) == \E i \in DOMAIN queue : queue[i].kind = k

OneStop ==
  \A i, j \in DOMAIN queue :
    queue[i].kind = "stopped" /\ queue[j].kind = "stopped" => i = j

StopsUnseen == \A i \in DOMAIN queue : queue[i].kind = "stopped" => queue[i].first

\* What holds of the steps of the process and of the control points in all sessions.
ControlInv ==
  /\ taken = NoEvent <=> ev # "handle"
  /\ state \in Alive => stopId <= MaxStops
  /\ signals = 0 => sig = "idle"
  /\ ev = "continuing" => pc \in {"idle", "drain"}
  /\ ev = "continuing" => nested
  /\ state = "running" => reports = 0

\* The events that nobody has taken before: they make a stop or an exit public.
Unseen == {i \in DOMAIN queue : queue[i].first /\ queue[i].kind \in {"stopped", "exited"}}

NoneUnseen == Unseen = {}
OneUnseen == \A i, j \in Unseen : i = j
UnseenAre(k) == \A i \in Unseen : queue[i].kind = k

\* One event at most, which says what the process does and makes it public; more
\* only while a command that has killed or left the process has events drained.
FirstInv ==
  \/ NoneUnseen
  \/ OneUnseen /\ UnseenAre(state) /\ runLock
  \/ pc \in {"end", "drain"} /\ state \in {"none", "exited"}

\* The client is told of a running process.
RunningInv ==
  state = "running" /\ ~Hijacked => SaysRunning

\* Each stop has one event.
OnceInv ==
  Undisturbed =>
    /\ OneStop
    /\ reports <= 1
    /\ state = "running" => ~Queued("stopped")
    /\ state = "stopped" /\ runLock => reports = 0
    /\ state = "stopped" /\ ~runLock =>
         /\ reports = 1 => ~Queued("stopped") /\ taken.kind # "stopped"
         /\ Queued("stopped") => taken.kind # "stopped"
    /\ pc = "idle" /\ state # "stopped" => ~Queued("stopped") /\ taken.kind # "stopped"
    /\ pc = "idle" /\ ~runLock => ~Queued("stopped")

\* Without changes of target-async a command knows the mode.  A synchronous process
\* runs only while someone waits for it, and its stops are broadcast by nobody else.
SyncInv ==
  Undisturbed =>
    /\ pc # "idle" => need = ~async
    /\ async => ~Hijacked
    /\ ~async =>
         /\ state = "running" => Hijacked
         /\ state = "stopped" => ~runLock
         /\ ~Queued("running") /\ taken.kind # "running"
         /\ pc # "drain" => ~Queued("stopped") /\ taken.kind # "stopped"
         /\ pc \in Busy /\ state = "stopped" /\ lastStopId # stopId => reports = 0

\* Each stop and exit of an asynchronous process has an event.
AsyncToldInv ==
  Undisturbed /\ async =>
    /\ Reportable => SaysStopped
    /\ state = "stopped" /\ runLock =>
         Queued("stopped") /\ StopsUnseen
    /\ state = "exited" => SaysExited

\* Those of the first synchronous process are broadcast again, by the stop id.
SyncToldInv ==
  Undisturbed /\ ~async /\ runs <= 1 /\ ~nested =>
    LET again == pc \in Busy /\ lastStopId # stopId
    IN /\ runs = 0 => stopId = 0 /\ state = "none"
       /\ pc \in Busy => lastStopId <= stopId
       /\ runs = 0 \/ state \in Alive => ~Queued("exited") /\ taken.kind # "exited"
       /\ Reportable => again \/ SaysStopped
       /\ state = "exited" => again \/ SaysExited

IInv == /\ TypeOK /\ ControlInv /\ FirstInv /\ RunningInv /\ OnceInv /\ SyncInv
        /\ AsyncToldInv /\ SyncToldInv /\ OutputBeforeStop

\* What a step that leaves the queue alone, one that sends an event, and one that
\* takes an event change of what the events in flight say.
LEMMA KeepsQueue ==
  ASSUME queue' = queue
  PROVE  /\ \A k : Queued(k)' <=> Queued(k)
         /\ OneStop' <=> OneStop
         /\ StopsUnseen' <=> StopsUnseen
         /\ taken' = taken /\ view' = view =>
              /\ SaysRunning' <=> SaysRunning
              /\ SaysStopped' <=> SaysStopped
              /\ SaysExited' <=> SaysExited
  BY DEF Queued, OneStop, StopsUnseen, SaysRunning, SaysStopped, SaysExited, Says

LEMMA SendsEvent ==
  ASSUME TypeOK, NEW e \in Events, queue' = Append(queue, e)
  PROVE  /\ \A k : Queued(k)' <=> Queued(k) \/ e.kind = k
         /\ OneStop /\ (e.kind = "stopped" => ~Queued("stopped")) => OneStop'
         /\ StopsUnseen /\ (e.kind = "stopped" => e.first) => StopsUnseen'
         /\ e.kind = "running" => SaysRunning'
         /\ e.kind = "stopped" => SaysStopped'
         /\ e.kind = "exited" => SaysExited'
         /\ taken' = taken /\ view' = view =>
              /\ SaysRunning /\ e.kind # "exited" => SaysRunning'
              /\ SaysStopped /\ e.kind \notin {"running", "exited"} => SaysStopped'
              /\ SaysExited /\ e.kind # "running" => SaysExited'
  <1>1. /\ Len(queue) \in Nat /\ DOMAIN queue = 1..Len(queue)
        /\ DOMAIN queue' = 1..(Len(queue) + 1)
        /\ \A i \in DOMAIN queue : queue'[i] = queue[i]
        /\ queue'[Len(queue) + 1] = e
    BY DEF TypeOK
  <1>2. /\ DOMAIN queue' = DOMAIN queue \cup {Len(queue) + 1}
        /\ \A i \in DOMAIN queue : i < Len(queue) + 1
    BY <1>1
  <1> USE <1>1, <1>2
  <1>3. \A k : Queued(k)' <=> Queued(k) \/ e.kind = k
    BY DEF Queued
  <1>4. OneStop /\ (e.kind = "stopped" => ~Queued("stopped")) => OneStop'
    BY DEF OneStop, Queued
  <1>5. StopsUnseen /\ (e.kind = "stopped" => e.first) => StopsUnseen'
    BY DEF StopsUnseen
  <1>6. ASSUME NEW k, NEW K, e.kind = k
        PROVE  Says(k, K)'
    BY <1>6 DEF Says
  <1>7. ASSUME NEW k, NEW K, Says(k, K), taken' = taken, view' = view,
               e.kind \in K => e.kind = k
        PROVE  Says(k, K)'
    BY <1>6, <1>7 DEF Says
  <1>8. QED
    BY <1>3, <1>4, <1>5, <1>6, <1>7 DEF SaysRunning, SaysStopped, SaysExited

LEMMA TakesEvent ==
  ASSUME TypeOK, queue # <<>>, taken' = Head(queue), queue' = Tail(queue),
         taken = NoEvent, view' = view
  PROVE  /\ \A k : Queued(k)' => Queued(k)
         /\ \A k : Queued(k) => Queued(k)' \/ taken'.kind = k
         /\ \A k : taken'.kind = k => Queued(k)
         /\ OneStop => OneStop'
         /\ OneStop /\ taken'.kind = "stopped" => ~Queued("stopped")'
         /\ StopsUnseen => StopsUnseen' /\ (taken'.kind = "stopped" => taken'.first)
         /\ SaysRunning => SaysRunning'
         /\ SaysStopped => SaysStopped'
         /\ SaysExited => SaysExited'
  <1>1. /\ Len(queue) \in Nat \ {0} /\ DOMAIN queue = 1..Len(queue)
        /\ DOMAIN queue' = 1..(Len(queue) - 1)
        /\ \A i \in DOMAIN queue' : queue'[i] = queue[i + 1]
        /\ taken' = queue[1]
    BY DEF TypeOK
  <1>2. \A i \in DOMAIN queue : i # 1 => i - 1 \in DOMAIN queue' /\ queue'[i - 1] = queue[i]
    BY <1>1
  <1>3. \A i \in DOMAIN queue' : i + 1 \in DOMAIN queue /\ i + 1 # 1
    BY <1>1
  <1>4. 1 \in DOMAIN queue
    BY <1>1
  <1>5. \A k : Queued(k)' => Queued(k)
    BY <1>1, <1>3 DEF Queued
  <1>6. \A k : Queued(k) => Queued(k)' \/ taken'.kind = k
    BY <1>1, <1>2 DEF Queued
  <1>7. \A k : taken'.kind = k => Queued(k)
    BY <1>1, <1>4 DEF Queued
  <1>8. OneStop => OneStop'
    BY <1>1, <1>3 DEF OneStop
  <1>9. OneStop /\ taken'.kind = "stopped" => ~Queued("stopped")'
    BY <1>1, <1>3, <1>4 DEF OneStop, Queued
  <1>10. StopsUnseen => StopsUnseen' /\ (taken'.kind = "stopped" => taken'.first)
    BY <1>1, <1>3, <1>4 DEF StopsUnseen
  <1>11. ASSUME NEW k, NEW K, k \in K, "none" \notin K, Says(k, K)
         PROVE  Says(k, K)'
    <2>1. CASE \E i \in DOMAIN queue :
                 /\ i # 1 /\ queue[i].kind = k
                 /\ \A j \in DOMAIN queue : i < j => queue[j].kind \notin K
      <3>1. PICK i \in DOMAIN queue :
               /\ i # 1 /\ queue[i].kind = k
               /\ \A j \in DOMAIN queue : i < j => queue[j].kind \notin K
        BY <2>1
      <3>2. /\ i - 1 \in DOMAIN queue' /\ queue'[i - 1].kind = k
            /\ \A j \in DOMAIN queue' : i - 1 < j => queue'[j].kind \notin K
        BY <1>1, <1>2, <1>3, <3>1
      <3>3. QED
        BY <3>2 DEF Says
    <2>2. CASE /\ queue[1].kind = k
               /\ \A j \in DOMAIN queue : 1 < j => queue[j].kind \notin K
      BY <1>1, <1>3, <2>2 DEF Says
    <2>3. CASE /\ \A j \in DOMAIN queue : queue[j].kind \notin K
               /\ view = k
      BY <1>1, <1>3, <1>4, <2>3 DEF Says
    <2>4. QED
      BY <1>11, <2>1, <2>2, <2>3 DEF Says, NoEvent
  <1>12. QED
    BY <1>5, <1>6, <1>7, <1>8, <1>9, <1>10, <1>11
       DEF SaysRunning, SaysStopped, SaysExited

LEMMA HandlesEvent ==
  ASSUME queue' = queue, taken' = NoEvent
  PROVE  /\ view' = (IF taken.kind \in {"running", "exited"} THEN taken.kind ELSE view) =>
              (SaysRunning => SaysRunning') /\ (SaysExited => SaysExited')
         /\ view' = (IF taken.kind \in {"running", "stopped", "exited"}
                     THEN taken.kind ELSE view) =>
              (SaysStopped => SaysStopped')
         /\ view' = view /\ Queued("stopped") /\ taken.kind = "stopped" =>
              (SaysStopped => SaysStopped')
  BY DEF SaysRunning, SaysStopped, SaysExited, Says, Queued, NoEvent

\* The events that are sent.
LEMMA EventTypes ==
  /\ \A k \in {"running", "stopped", "exited", "restarted", "stdout"} :
       /\ Event(k) \in Events /\ Event(k).kind = k /\ Event(k).first
       /\ SeenEvent(k) \in Events /\ SeenEvent(k).kind = k /\ ~SeenEvent(k).first
  /\ NoEvent.kind = "none" /\ NoEvent \notin Events
  BY DEF NoEvent, Event, SeenEvent, Events

Booleans == /\ async \in BOOLEAN /\ runLock \in BOOLEAN /\ need \in BOOLEAN
            /\ marks \in BOOLEAN /\ sigNeed \in BOOLEAN /\ nested \in BOOLEAN

LEMMA NextBooleans ==
  ASSUME TypeOK, [Next]_vars
  PROVE  Booleans'
  <1> USE DEF TypeOK, Booleans, process, events, main, handler, client, bounds
  <1>1. CASE InferiorStops
    BY <1>1, Zenon DEF InferiorStops, BroadcastState, Broadcast, Event
  <1>2. CASE InferiorExits
    BY <1>2, Zenon DEF InferiorExits, BroadcastState, Broadcast, Event
  <1>3. CASE InferiorRestarts
    BY <1>3, Zenon DEF InferiorRestarts, BroadcastState, Broadcast, Event
  <1>4. CASE InferiorPrints
    BY <1>4, Zenon DEF InferiorPrints, Broadcast, Event
  <1>5. CASE ExecRun
    BY <1>5, Zenon DEF ExecRun, Begins, Check, Gone, Broadcast, Event
  <1>6. CASE TargetAttach
    BY <1>6, Zenon DEF TargetAttach, Begins, Check, Gone, Broadcast, Event
  <1>7. CASE TargetDetach
    BY <1>7, Zenon DEF TargetDetach, Begins, Check
  <1>8. CASE ExecContinue
    BY <1>8, Zenon DEF ExecContinue, ExecResume, Begins, Check, Resume, Broadcast,
       Event
  <1>9. CASE ExecStep
    BY <1>9, Zenon DEF ExecStep, ExecResume, Begins, Check, Resume, Broadcast,
       Event
  <1>10. CASE ExecInterrupt
    BY <1>10, Zenon DEF ExecInterrupt, Begins, Check, Stop, BroadcastState,
       Broadcast, SeenEvent
  <1>11. CASE ExecAbort
    BY <1>11, Zenon DEF ExecAbort, Begins, Check, Broadcast, Event
  <1>12. CASE SetTargetAsync
    BY <1>12, Zenon DEF SetTargetAsync, Begins, Check
  <1>13. CASE OtherCommand
    BY <1>13, Zenon DEF OtherCommand, Begins, Check
  <1>14. CASE ResumeReturns
    BY <1>14, Zenon DEF ResumeReturns
  <1>15. CASE MarkDebugging
    BY <1>15, Zenon DEF MarkDebugging
  <1>16. CASE CommandEnds
    BY <1>16, Zenon DEF CommandEnds, Rebroadcast, Broadcast, SeenEvent
  <1>17. CASE Drained
    BY <1>17, Zenon DEF Drained
  <1>18. CASE GetNextEvent
    BY <1>18, Zenon DEF GetNextEvent
  <1>19. CASE HandleRunning
    BY <1>19, Zenon DEF HandleRunning, Handles
  <1>20. CASE HandleRestarted
    BY <1>20, Zenon DEF HandleRestarted, Handles
  <1>21. CASE HandleStdout
    BY <1>21, Zenon DEF HandleStdout, Handles, DrainOutput
  <1>22. CASE HandleExited
    BY <1>22, Zenon DEF HandleExited, Handles, DrainOutput
  <1>23. CASE HandleStopped
    BY <1>23, Zenon DEF HandleStopped, Handles, DrainOutput, ReportStop, Resume,
       Broadcast, Event
  <1>24. CASE ContinueReturns
    BY <1>24, Zenon DEF ContinueReturns
  <1>25. CASE DeliverSignal
    BY <1>25, Zenon DEF DeliverSignal
  <1>26. CASE InterruptBegins
    BY <1>26, Zenon DEF InterruptBegins, Check
  <1>27. CASE InterruptStops
    BY <1>27, Zenon DEF InterruptStops, Stop, BroadcastState, Broadcast, SeenEvent
  <1>28. CASE InterruptEnds
    BY <1>28, Zenon DEF InterruptEnds, Rebroadcast, Broadcast, SeenEvent
  <1>29. CASE UNCHANGED vars
    BY <1>29, Zenon DEF vars
  <1>30. QED
    BY <1>1, <1>2, <1>3, <1>4, <1>5, <1>6, <1>7, <1>8, <1>9, <1>10, <1>11, <1>12,
       <1>13, <1>14, <1>15, <1>16, <1>17, <1>18, <1>19, <1>20, <1>21, <1>22, <1>23,
       <1>24, <1>25, <1>26, <1>27, <1>28, <1>29 DEF Next, Inferior, Command,
       EventThread, Signal

LEMMA InitTypeOK == Init => TypeOK
  <1>1. /\ MaxStops \in Nat /\ MaxOutput \in Nat /\ MaxRuns \in Nat
        /\ MaxSignals \in Nat /\ MaxSwitches \in Nat
    BY Zenon, RunControlAssumption
  <1>2. Modes \subseteq BOOLEAN
    BY Zenon, RunControlAssumption
  <1>3. Init => Booleans
    BY <1>2, Zenon DEF Init, Booleans
  <1>4. <<>> \in Seq(Events)
    BY EmptySeq
  <1>5. QED
    BY <1>1, <1>3, <1>4 DEF Init, TypeOK, Booleans, States, NoEvent

LEMMA NextTypeOK ==
  ASSUME TypeOK, ControlInv, [Next]_vars
  PROVE  TypeOK'
  <1>1. Booleans'
    BY NextBooleans
  <1>2. /\ MaxStops \in Nat /\ MaxOutput \in Nat /\ MaxRuns \in Nat
        /\ MaxSignals \in Nat /\ MaxSwitches \in Nat
    BY Zenon, RunControlAssumption
  <1>3. Reasons \subseteq AllReasons
    BY Zenon, RunControlAssumption
  <1>4. queue' \in Seq(Events) /\ taken' \in Events \cup {NoEvent}
    <2> USE EventTypes DEF TypeOK, process, events, main, handler, client, bounds
    <2>1. CASE InferiorStops
      BY <2>1 DEF InferiorStops, BroadcastState, Broadcast
    <2>2. CASE InferiorExits
      BY <2>2 DEF InferiorExits, BroadcastState, Broadcast
    <2>3. CASE InferiorRestarts
      BY <2>3 DEF InferiorRestarts, BroadcastState, Broadcast
    <2>4. CASE InferiorPrints
      BY <2>4 DEF InferiorPrints, Broadcast
    <2>5. CASE ExecRun
      BY <2>5 DEF ExecRun, Begins, Check, Gone, Broadcast
    <2>6. CASE TargetAttach
      BY <2>6 DEF TargetAttach, Begins, Check, Gone, Broadcast
    <2>7. CASE TargetDetach
      BY <2>7 DEF TargetDetach, Begins, Check
    <2>8. CASE ExecContinue
      BY <2>8 DEF ExecContinue, ExecResume, Begins, Check, Resume, Broadcast
    <2>9. CASE ExecStep
      BY <2>9 DEF ExecStep, ExecResume, Begins, Check, Resume, Broadcast
    <2>10. CASE ExecInterrupt
      BY <2>10 DEF ExecInterrupt, Begins, Check, Stop, BroadcastState, Broadcast
    <2>11. CASE ExecAbort
      BY <2>11 DEF ExecAbort, Begins, Check, Broadcast
    <2>12. CASE SetTargetAsync
      BY <2>12 DEF SetTargetAsync, Begins, Check
    <2>13. CASE OtherCommand
      BY <2>13 DEF OtherCommand, Begins, Check
    <2>14. CASE ResumeReturns
      BY <2>14 DEF ResumeReturns
    <2>15. CASE MarkDebugging
      BY <2>15 DEF MarkDebugging
    <2>16. CASE CommandEnds
      BY <2>16 DEF CommandEnds, Rebroadcast, Broadcast
    <2>17. CASE Drained
      BY <2>17 DEF Drained
    <2>18. CASE GetNextEvent
      BY <2>18 DEF GetNextEvent
    <2>19. CASE HandleRunning
      BY <2>19 DEF HandleRunning, Handles
    <2>20. CASE HandleRestarted
      BY <2>20 DEF HandleRestarted, Handles
    <2>21. CASE HandleStdout
      BY <2>21 DEF HandleStdout, Handles, DrainOutput
    <2>22. CASE HandleExited
      BY <2>22 DEF HandleExited, Handles, DrainOutput
    <2>23. CASE HandleStopped
      BY <2>23 DEF HandleStopped, Handles, DrainOutput, ReportStop, Resume,
         Broadcast
    <2>24. CASE ContinueReturns
      BY <2>24 DEF ContinueReturns
    <2>25. CASE DeliverSignal
      BY <2>25 DEF DeliverSignal
    <2>26. CASE InterruptBegins
      BY <2>26 DEF InterruptBegins, Check
    <2>27. CASE InterruptStops
      BY <2>27 DEF InterruptStops, Stop, BroadcastState, Broadcast
    <2>28. CASE InterruptEnds
      BY <2>28 DEF InterruptEnds, Rebroadcast, Broadcast
    <2>29. CASE UNCHANGED vars
      BY <2>29 DEF vars
    <2>30. QED
      BY <2>1, <2>2, <2>3, <2>4, <2>5, <2>6, <2>7, <2>8, <2>9, <2>10, <2>11,
         <2>12, <2>13, <2>14, <2>15, <2>16, <2>17, <2>18, <2>19, <2>20, <2>21, <2>22,
         <2>23, <2>24, <2>25, <2>26, <2>27, <2>28, <2>29 DEF Next, Inferior, Command,
         EventThread, Signal
  <1>5. /\ state' \in States /\ reason' \in AllReasons \cup {"none"}
        /\ stopId' \in 0..MaxStops + 1 /\ lastStopId' \in 0..MaxStops + 1
    <2> USE <1>2, <1>3 DEF TypeOK, ControlInv, Alive, States, AllReasons,
                           process, events, main, handler, client, bounds
    <2>1. CASE InferiorStops
      BY <2>1 DEF InferiorStops, BroadcastState, Broadcast, Event
    <2>2. CASE InferiorExits
      BY <2>2 DEF InferiorExits, BroadcastState, Broadcast, Event
    <2>3. CASE InferiorRestarts
      BY <2>3 DEF InferiorRestarts, BroadcastState, Broadcast, Event
    <2>4. CASE InferiorPrints
      BY <2>4 DEF InferiorPrints, Broadcast, Event
    <2>5. CASE ExecRun
      BY <2>5 DEF ExecRun, Begins, Check, Gone, Broadcast, Event
    <2>6. CASE TargetAttach
      BY <2>6 DEF TargetAttach, Begins, Check, Gone, Broadcast, Event
    <2>7. CASE TargetDetach
      BY <2>7 DEF TargetDetach, Begins, Check
    <2>8. CASE ExecContinue
      BY <2>8 DEF ExecContinue, ExecResume, Begins, Check, Resume, Broadcast,
         Event
    <2>9. CASE ExecStep
      BY <2>9 DEF ExecStep, ExecResume, Begins, Check, Resume, Broadcast, Event
    <2>10. CASE ExecInterrupt
      BY <2>10 DEF ExecInterrupt, Begins, Check, Stop, BroadcastState, Broadcast,
         SeenEvent
    <2>11. CASE ExecAbort
      BY <2>11 DEF ExecAbort, Begins, Check, Broadcast, Event
    <2>12. CASE SetTargetAsync
      BY <2>12 DEF SetTargetAsync, Begins, Check
    <2>13. CASE OtherCommand
      BY <2>13 DEF OtherCommand, Begins, Check
    <2>14. CASE ResumeReturns
      BY <2>14 DEF ResumeReturns
    <2>15. CASE MarkDebugging
      BY <2>15 DEF MarkDebugging
    <2>16. CASE CommandEnds
      BY <2>16 DEF CommandEnds, Rebroadcast, Broadcast, SeenEvent
    <2>17. CASE Drained
      BY <2>17 DEF Drained
    <2>18. CASE GetNextEvent
      BY <2>18 DEF GetNextEvent
    <2>19. CASE HandleRunning
      BY <2>19 DEF HandleRunning, Handles
    <2>20. CASE HandleRestarted
      BY <2>20 DEF HandleRestarted, Handles
    <2>21. CASE HandleStdout
      BY <2>21 DEF HandleStdout, Handles, DrainOutput
    <2>22. CASE HandleExited
      BY <2>22 DEF HandleExited, Handles, DrainOutput
    <2>23. CASE HandleStopped
      BY <2>23 DEF HandleStopped, Handles, DrainOutput, ReportStop, Resume,
         Broadcast, Event
    <2>24. CASE ContinueReturns
      BY <2>24 DEF ContinueReturns
    <2>25. CASE DeliverSignal
      BY <2>25 DEF DeliverSignal
    <2>26. CASE InterruptBegins
      BY <2>26 DEF InterruptBegins, Check
    <2>27. CASE InterruptStops
      BY <2>27 DEF InterruptStops, Stop, BroadcastState, Broadcast, SeenEvent
    <2>28. CASE InterruptEnds
      BY <2>28 DEF InterruptEnds, Rebroadcast, Broadcast, SeenEvent
    <2>29. CASE UNCHANGED vars
      BY <2>29 DEF vars
    <2>30. QED
      BY <2>1, <2>2, <2>3, <2>4, <2>5, <2>6, <2>7, <2>8, <2>9, <2>10, <2>11,
         <2>12, <2>13, <2>14, <2>15, <2>16, <2>17, <2>18, <2>19, <2>20, <2>21, <2>22,
         <2>23, <2>24, <2>25, <2>26, <2>27, <2>28, <2>29 DEF Next, Inferior, Command,
         EventThread, Signal
  <1>6. /\ pending' \in 0..outputs' /\ outputs' \in 0..MaxOutput
        /\ driver' \in {"debugging", "notDebugging"}
        /\ view' \in {"none", "running", "stopped", "exited"} /\ reports' \in Nat
        /\ runs' \in 0..MaxRuns /\ signals' \in 0..MaxSignals
        /\ switches' \in 0..MaxSwitches
    <2> USE <1>2 DEF TypeOK, process, events, main, handler, client, bounds
    <2>1. CASE InferiorStops
      BY <2>1 DEF InferiorStops, BroadcastState, Broadcast, Event
    <2>2. CASE InferiorExits
      BY <2>2 DEF InferiorExits, BroadcastState, Broadcast, Event
    <2>3. CASE InferiorRestarts
      BY <2>3 DEF InferiorRestarts, BroadcastState, Broadcast, Event
    <2>4. CASE InferiorPrints
      BY <2>4 DEF InferiorPrints, Broadcast, Event
    <2>5. CASE ExecRun
      BY <2>5 DEF ExecRun, Begins, Check, Gone, Broadcast, Event
    <2>6. CASE TargetAttach
      BY <2>6 DEF TargetAttach, Begins, Check, Gone, Broadcast, Event
    <2>7. CASE TargetDetach
      BY <2>7 DEF TargetDetach, Begins, Check
    <2>8. CASE ExecContinue
      BY <2>8 DEF ExecContinue, ExecResume, Begins, Check, Resume, Broadcast,
         Event
    <2>9. CASE ExecStep
      BY <2>9 DEF ExecStep, ExecResume, Begins, Check, Resume, Broadcast, Event
    <2>10. CASE ExecInterrupt
      BY <2>10 DEF ExecInterrupt, Begins, Check, Stop, BroadcastState, Broadcast,
         SeenEvent
    <2>11. CASE ExecAbort
      BY <2>11 DEF ExecAbort, Begins, Check, Broadcast, Event
    <2>12. CASE SetTargetAsync
      BY <2>12 DEF SetTargetAsync, Begins, Check
    <2>13. CASE OtherCommand
      BY <2>13 DEF OtherCommand, Begins, Check
    <2>14. CASE ResumeReturns
      BY <2>14 DEF ResumeReturns
    <2>15. CASE MarkDebugging
      BY <2>15 DEF MarkDebugging
    <2>16. CASE CommandEnds
      BY <2>16 DEF CommandEnds, Rebroadcast, Broadcast, SeenEvent
    <2>17. CASE Drained
      BY <2>17 DEF Drained
    <2>18. CASE GetNextEvent
      BY <2>18 DEF GetNextEvent
    <2>19. CASE HandleRunning
      BY <2>19 DEF HandleRunning, Handles
    <2>20. CASE HandleRestarted
      BY <2>20 DEF HandleRestarted, Handles
    <2>21. CASE HandleStdout
      BY <2>21 DEF HandleStdout, Handles, DrainOutput
    <2>22. CASE HandleExited
      BY <2>22 DEF HandleExited, Handles, DrainOutput
    <2>23. CASE HandleStopped
      BY <2>23 DEF HandleStopped, Handles, DrainOutput, ReportStop, Resume,
         Broadcast, Event
    <2>24. CASE ContinueReturns
      BY <2>24 DEF ContinueReturns
    <2>25. CASE DeliverSignal
      BY <2>25 DEF DeliverSignal
    <2>26. CASE InterruptBegins
      BY <2>26 DEF InterruptBegins, Check
    <2>27. CASE InterruptStops
      BY <2>27 DEF InterruptStops, Stop, BroadcastState, Broadcast, SeenEvent
    <2>28. CASE InterruptEnds
      BY <2>28 DEF InterruptEnds, Rebroadcast, Broadcast, SeenEvent
    <2>29. CASE UNCHANGED vars
      BY <2>29 DEF vars
    <2>30. QED
      BY <2>1, <2>2, <2>3, <2>4, <2>5, <2>6, <2>7, <2>8, <2>9, <2>10, <2>11,
         <2>12, <2>13, <2>14, <2>15, <2>16, <2>17, <2>18, <2>19, <2>20, <2>21, <2>22,
         <2>23, <2>24, <2>25, <2>26, <2>27, <2>28, <2>29 DEF Next, Inferior, Command,
         EventThread, Signal
  <1>7. /\ ev' \in {"top", "handle", "continuing"}
        /\ pc' \in {"idle", "waiting", "mark", "end", "drain"}
        /\ sig' \in {"idle", "begin", "stop", "end"}
    <2> USE DEF TypeOK, process, events, main, handler, client, bounds
    <2>1. CASE InferiorStops
      BY <2>1 DEF InferiorStops, BroadcastState, Broadcast, Event
    <2>2. CASE InferiorExits
      BY <2>2 DEF InferiorExits, BroadcastState, Broadcast, Event
    <2>3. CASE InferiorRestarts
      BY <2>3 DEF InferiorRestarts, BroadcastState, Broadcast, Event
    <2>4. CASE InferiorPrints
      BY <2>4 DEF InferiorPrints, Broadcast, Event
    <2>5. CASE ExecRun
      BY <2>5 DEF ExecRun, Begins, Check, Gone, Broadcast, Event
    <2>6. CASE TargetAttach
      BY <2>6 DEF TargetAttach, Begins, Check, Gone, Broadcast, Event
    <2>7. CASE TargetDetach
      BY <2>7 DEF TargetDetach, Begins, Check
    <2>8. CASE ExecContinue
      BY <2>8 DEF ExecContinue, ExecResume, Begins, Check, Resume, Broadcast,
         Event
    <2>9. CASE ExecStep
      BY <2>9 DEF ExecStep, ExecResume, Begins, Check, Resume, Broadcast, Event
    <2>10. CASE ExecInterrupt
      BY <2>10 DEF ExecInterrupt, Begins, Check, Stop, BroadcastState, Broadcast,
         SeenEvent
    <2>11. CASE ExecAbort
      BY <2>11 DEF ExecAbort, Begins, Check, Broadcast, Event
    <2>12. CASE SetTargetAsync
      BY <2>12 DEF SetTargetAsync, Begins, Check
    <2>13. CASE OtherCommand
      BY <2>13 DEF OtherCommand, Begins, Check
    <2>14. CASE ResumeReturns
      BY <2>14 DEF ResumeReturns
    <2>15. CASE MarkDebugging
      BY <2>15 DEF MarkDebugging
    <2>16. CASE CommandEnds
      BY <2>16 DEF CommandEnds, Rebroadcast, Broadcast, SeenEvent
    <2>17. CASE Drained
      BY <2>17 DEF Drained
    <2>18. CASE GetNextEvent
      BY <2>18 DEF GetNextEvent
    <2>19. CASE HandleRunning
      BY <2>19 DEF HandleRunning, Handles
    <2>20. CASE HandleRestarted
      BY <2>20 DEF HandleRestarted, Handles
    <2>21. CASE HandleStdout
      BY <2>21 DEF HandleStdout, Handles, DrainOutput
    <2>22. CASE HandleExited
      BY <2>22 DEF HandleExited, Handles, DrainOutput
    <2>23. CASE HandleStopped
      BY <2>23 DEF HandleStopped, Handles, DrainOutput, ReportStop, Resume,
         Broadcast, Event
    <2>24. CASE ContinueReturns
      BY <2>24 DEF ContinueReturns
    <2>25. CASE DeliverSignal
      BY <2>25 DEF DeliverSignal
    <2>26. CASE InterruptBegins
      BY <2>26 DEF InterruptBegins, Check
    <2>27. CASE InterruptStops
      BY <2>27 DEF InterruptStops, Stop, BroadcastState, Broadcast, SeenEvent
    <2>28. CASE InterruptEnds
      BY <2>28 DEF InterruptEnds, Rebroadcast, Broadcast, SeenEvent
    <2>29. CASE UNCHANGED vars
      BY <2>29 DEF vars
    <2>30. QED
      BY <2>1, <2>2, <2>3, <2>4, <2>5, <2>6, <2>7, <2>8, <2>9, <2>10, <2>11,
         <2>12, <2>13, <2>14, <2>15, <2>16, <2>17, <2>18, <2>19, <2>20, <2>21, <2>22,
         <2>23, <2>24, <2>25, <2>26, <2>27, <2>28, <2>29 DEF Next, Inferior, Command,
         EventThread, Signal
  <1>8. QED
    BY <1>1, <1>4, <1>5, <1>6, <1>7 DEF TypeOK, Booleans

LEMMA NextControlInv ==
  ASSUME TypeOK, ControlInv, [Next]_vars
  PROVE  ControlInv'
  <1>a. MaxStops \in Nat /\ MaxSignals \in Nat
    BY Zenon, RunControlAssumption
  <1> USE <1>a, EventTypes DEF TypeOK, ControlInv, Alive, process, events, main, handler,
              client, bounds
  <1>1. CASE InferiorStops
    BY <1>1 DEF InferiorStops, BroadcastState, Broadcast
  <1>2. CASE InferiorExits
    BY <1>2 DEF InferiorExits, BroadcastState, Broadcast
  <1>3. CASE InferiorRestarts
    BY <1>3 DEF InferiorRestarts, BroadcastState, Broadcast
  <1>4. CASE InferiorPrints
    BY <1>4 DEF InferiorPrints, Broadcast
  <1>5. CASE ExecRun
    BY <1>5 DEF ExecRun, Begins, Check, Gone, Broadcast
  <1>6. CASE TargetAttach
    BY <1>6 DEF TargetAttach, Begins, Check, Gone, Broadcast
  <1>7. CASE TargetDetach
    BY <1>7 DEF TargetDetach, Begins, Check
  <1>8. CASE ExecContinue
    BY <1>8 DEF ExecContinue, ExecResume, Begins, Check, Resume, Broadcast
  <1>9. CASE ExecStep
    BY <1>9 DEF ExecStep, ExecResume, Begins, Check, Resume, Broadcast
  <1>10. CASE ExecInterrupt
    BY <1>10 DEF ExecInterrupt, Begins, Check, Stop, BroadcastState, Broadcast
  <1>11. CASE ExecAbort
    BY <1>11 DEF ExecAbort, Begins, Check, Broadcast
  <1>12. CASE SetTargetAsync
    BY <1>12 DEF SetTargetAsync, Begins, Check
  <1>13. CASE OtherCommand
    BY <1>13 DEF OtherCommand, Begins, Check
  <1>14. CASE ResumeReturns
    BY <1>14 DEF ResumeReturns
  <1>15. CASE MarkDebugging
    BY <1>15 DEF MarkDebugging
  <1>16. CASE CommandEnds
    BY <1>16 DEF CommandEnds, Rebroadcast, Broadcast
  <1>17. CASE Drained
    BY <1>17 DEF Drained
  <1>18. CASE GetNextEvent
    BY <1>18 DEF GetNextEvent
  <1>19. CASE HandleRunning
    BY <1>19 DEF HandleRunning, Handles
  <1>20. CASE HandleRestarted
    BY <1>20 DEF HandleRestarted, Handles
  <1>21. CASE HandleStdout
    BY <1>21 DEF HandleStdout, Handles, DrainOutput
  <1>22. CASE HandleExited
    BY <1>22 DEF HandleExited, Handles, DrainOutput
  <1>23. CASE HandleStopped
    BY <1>23 DEF HandleStopped, Handles, DrainOutput, ReportStop, Resume,
       Broadcast
  <1>24. CASE ContinueReturns
    BY <1>24 DEF ContinueReturns
  <1>25. CASE DeliverSignal
    BY <1>25 DEF DeliverSignal
  <1>26. CASE InterruptBegins
    BY <1>26 DEF InterruptBegins, Check
  <1>27. CASE InterruptStops
    BY <1>27 DEF InterruptStops, Stop, BroadcastState, Broadcast
  <1>28. CASE InterruptEnds
    BY <1>28 DEF InterruptEnds, Rebroadcast, Broadcast
  <1>29. CASE UNCHANGED vars
    BY <1>29 DEF vars
  <1>30. QED
    BY <1>1, <1>2, <1>3, <1>4, <1>5, <1>6, <1>7, <1>8, <1>9, <1>10, <1>11, <1>12,
       <1>13, <1>14, <1>15, <1>16, <1>17, <1>18, <1>19, <1>20, <1>21, <1>22, <1>23,
       <1>24, <1>25, <1>26, <1>27, <1>28, <1>29 DEF Next, Inferior, Command,
       EventThread, Signal

LEMMA NextRunningInv ==
  ASSUME TypeOK, ControlInv, RunningInv, [Next]_vars
  PROVE  RunningInv'
  <1> USE EventTypes, KeepsQueue, SendsEvent, TakesEvent, HandlesEvent
      DEF ControlInv, RunningInv, Hijacked, process, events, main, handler, client, bounds
  <1>1. CASE InferiorStops
    BY <1>1 DEF InferiorStops, BroadcastState, Broadcast
  <1>2. CASE InferiorExits
    BY <1>2 DEF InferiorExits, BroadcastState, Broadcast
  <1>3. CASE InferiorRestarts
    BY <1>3 DEF InferiorRestarts, BroadcastState, Broadcast
  <1>4. CASE InferiorPrints
    BY <1>4 DEF InferiorPrints, Broadcast
  <1>5. CASE ExecRun
    BY <1>5 DEF ExecRun, Begins, Check, Gone, Broadcast
  <1>6. CASE TargetAttach
    BY <1>6 DEF TargetAttach, Begins, Check, Gone, Broadcast
  <1>7. CASE TargetDetach
    BY <1>7 DEF TargetDetach, Begins, Check
  <1>8. CASE ExecContinue
    BY <1>8 DEF ExecContinue, ExecResume, Begins, Check, Resume, Broadcast
  <1>9. CASE ExecStep
    BY <1>9 DEF ExecStep, ExecResume, Begins, Check, Resume, Broadcast
  <1>10. CASE ExecInterrupt
    BY <1>10 DEF ExecInterrupt, Begins, Check, Stop, BroadcastState, Broadcast
  <1>11. CASE ExecAbort
    BY <1>11 DEF ExecAbort, Begins, Check, Broadcast
  <1>12. CASE SetTargetAsync
    BY <1>12 DEF SetTargetAsync, Begins, Check
  <1>13. CASE OtherCommand
    BY <1>13 DEF OtherCommand, Begins, Check
  <1>14. CASE ResumeReturns
    BY <1>14 DEF ResumeReturns
  <1>15. CASE MarkDebugging
    BY <1>15 DEF MarkDebugging
  <1>16. CASE CommandEnds
    BY <1>16 DEF CommandEnds, Rebroadcast, Broadcast
  <1>17. CASE Drained
    BY <1>17 DEF Drained
  <1>18. CASE GetNextEvent
    BY <1>18 DEF GetNextEvent
  <1>19. CASE HandleRunning
    BY <1>19 DEF HandleRunning, Handles
  <1>20. CASE HandleRestarted
    BY <1>20 DEF HandleRestarted, Handles
  <1>21. CASE HandleStdout
    BY <1>21 DEF HandleStdout, Handles, DrainOutput
  <1>22. CASE HandleExited
    BY <1>22 DEF HandleExited, Handles, DrainOutput
  <1>23. CASE HandleStopped
    BY <1>23 DEF HandleStopped, Handles, DrainOutput, ReportStop, Resume,
       Broadcast
  <1>24. CASE ContinueReturns
    BY <1>24 DEF ContinueReturns
  <1>25. CASE DeliverSignal
    BY <1>25 DEF DeliverSignal
  <1>26. CASE InterruptBegins
    BY <1>26 DEF InterruptBegins, Check
  <1>27. CASE InterruptStops
    BY <1>27 DEF InterruptStops, Stop, BroadcastState, Broadcast
  <1>28. CASE InterruptEnds
    BY <1>28 DEF InterruptEnds, Rebroadcast, Broadcast
  <1>29. CASE UNCHANGED vars
    BY <1>29 DEF vars
  <1>30. QED
    BY <1>1, <1>2, <1>3, <1>4, <1>5, <1>6, <1>7, <1>8, <1>9, <1>10, <1>11, <1>12,
       <1>13, <1>14, <1>15, <1>16, <1>17, <1>18, <1>19, <1>20, <1>21, <1>22, <1>23,
       <1>24, <1>25, <1>26, <1>27, <1>28, <1>29 DEF Next, Inferior, Command,
       EventThread, Signal

LEMMA KeepsUnseen ==
  ASSUME queue' = queue
  PROVE  /\ NoneUnseen' <=> NoneUnseen
         /\ OneUnseen' <=> OneUnseen
         /\ \A k : UnseenAre(k)' <=> UnseenAre(k)
  BY DEF NoneUnseen, OneUnseen, UnseenAre, Unseen

LEMMA SendsUnseen ==
  ASSUME TypeOK, NEW e \in Events, queue' = Append(queue, e)
  PROVE  IF e.first /\ e.kind \in {"stopped", "exited"}
         THEN NoneUnseen => OneUnseen' /\ UnseenAre(e.kind)'
         ELSE /\ NoneUnseen => NoneUnseen'
              /\ OneUnseen => OneUnseen'
              /\ \A k : UnseenAre(k) => UnseenAre(k)'
  <1>1. /\ Len(queue) \in Nat /\ DOMAIN queue = 1..Len(queue)
        /\ DOMAIN queue' = 1..(Len(queue) + 1)
        /\ \A i \in DOMAIN queue : queue'[i] = queue[i]
        /\ queue'[Len(queue) + 1] = e
    BY DEF TypeOK
  <1>2. DOMAIN queue' = DOMAIN queue \cup {Len(queue) + 1}
    BY <1>1
  <1>3. CASE e.first /\ e.kind \in {"stopped", "exited"}
    <2>1. NoneUnseen => \A i \in Unseen' : i = Len(queue) + 1
      BY <1>1, <1>2 DEF NoneUnseen, Unseen
    <2>2. QED
      BY <1>1, <1>3, <2>1 DEF OneUnseen, UnseenAre
  <1>4. CASE ~(e.first /\ e.kind \in {"stopped", "exited"})
    <2>1. Unseen' = Unseen /\ \A i \in Unseen : queue'[i] = queue[i]
      BY <1>1, <1>2, <1>4 DEF Unseen
    <2>2. QED
      BY <1>4, <2>1 DEF NoneUnseen, OneUnseen, UnseenAre
  <1>5. QED
    BY <1>3, <1>4

LEMMA TakesUnseen ==
  ASSUME TypeOK, queue # <<>>, taken' = Head(queue), queue' = Tail(queue)
  PROVE  /\ NoneUnseen => NoneUnseen'
         /\ OneUnseen => OneUnseen'
         /\ \A k : UnseenAre(k) => UnseenAre(k)'
         /\ taken'.first /\ taken'.kind \in {"stopped", "exited"} =>
              /\ ~NoneUnseen
              /\ \A k : UnseenAre(k) => taken'.kind = k
              /\ OneUnseen => NoneUnseen'
  <1>1. /\ Len(queue) \in Nat \ {0} /\ DOMAIN queue = 1..Len(queue)
        /\ DOMAIN queue' = 1..(Len(queue) - 1)
        /\ \A i \in DOMAIN queue' : queue'[i] = queue[i + 1]
        /\ taken' = queue[1]
    BY DEF TypeOK
  <1>2. \A i \in Unseen' : i + 1 \in Unseen /\ i + 1 # 1 /\ queue'[i] = queue[i + 1]
                           /\ i \in Nat
    BY <1>1 DEF Unseen
  <1>3. taken'.first /\ taken'.kind \in {"stopped", "exited"} => 1 \in Unseen
    BY <1>1 DEF Unseen
  <1>4. (NoneUnseen => NoneUnseen') /\ \A k : UnseenAre(k) => UnseenAre(k)'
    BY <1>2 DEF NoneUnseen, UnseenAre
  <1>5. OneUnseen => OneUnseen'
    BY <1>2 DEF OneUnseen
  <1>6. ASSUME 1 \in Unseen
        PROVE  /\ ~NoneUnseen /\ \A k : UnseenAre(k) => taken'.kind = k
               /\ OneUnseen => NoneUnseen'
    BY <1>1, <1>2, <1>6 DEF NoneUnseen, OneUnseen, UnseenAre
  <1>7. QED
    BY <1>3, <1>4, <1>5, <1>6

LEMMA NextFirstInv ==
  ASSUME TypeOK, ControlInv, FirstInv, [Next]_vars
  PROVE  FirstInv'
  <1>a. state = "running" => NoneUnseen
    BY DEF FirstInv, NoneUnseen, UnseenAre, Unseen
  <1> USE <1>a, EventTypes, KeepsUnseen, SendsUnseen, TakesUnseen
      DEF ControlInv, FirstInv, process, events, main, handler, client, bounds
  <1>1. CASE InferiorStops
    BY <1>1 DEF InferiorStops, BroadcastState, Broadcast
  <1>2. CASE InferiorExits
    BY <1>2 DEF InferiorExits, BroadcastState, Broadcast
  <1>3. CASE InferiorRestarts
    BY <1>3 DEF InferiorRestarts, BroadcastState, Broadcast
  <1>4. CASE InferiorPrints
    BY <1>4 DEF InferiorPrints, Broadcast
  <1>5. CASE ExecRun
    BY <1>5 DEF ExecRun, Begins, Check, Gone, Broadcast
  <1>6. CASE TargetAttach
    BY <1>6 DEF TargetAttach, Begins, Check, Gone, Broadcast
  <1>7. CASE TargetDetach
    BY <1>7 DEF TargetDetach, Begins, Check
  <1>8. CASE ExecContinue
    BY <1>8 DEF ExecContinue, ExecResume, Begins, Check, Resume, Broadcast
  <1>9. CASE ExecStep
    BY <1>9 DEF ExecStep, ExecResume, Begins, Check, Resume, Broadcast
  <1>10. CASE ExecInterrupt
    BY <1>10 DEF ExecInterrupt, Begins, Check, Stop, BroadcastState, Broadcast
  <1>11. CASE ExecAbort
    BY <1>11 DEF ExecAbort, Begins, Check, Broadcast
  <1>12. CASE SetTargetAsync
    BY <1>12 DEF SetTargetAsync, Begins, Check
  <1>13. CASE OtherCommand
    BY <1>13 DEF OtherCommand, Begins, Check
  <1>14. CASE ResumeReturns
    BY <1>14 DEF ResumeReturns
  <1>15. CASE MarkDebugging
    BY <1>15 DEF MarkDebugging
  <1>16. CASE CommandEnds
    BY <1>16 DEF CommandEnds, Rebroadcast, Broadcast
  <1>17. CASE Drained
    <2>1. NoneUnseen'
      BY <1>17 DEF Drained, NoneUnseen, Unseen
    <2>2. QED
      BY <2>1 DEF FirstInv
  <1>18. CASE GetNextEvent
    BY <1>18 DEF GetNextEvent
  <1>19. CASE HandleRunning
    BY <1>19 DEF HandleRunning, Handles
  <1>20. CASE HandleRestarted
    BY <1>20 DEF HandleRestarted, Handles
  <1>21. CASE HandleStdout
    BY <1>21 DEF HandleStdout, Handles, DrainOutput
  <1>22. CASE HandleExited
    BY <1>22 DEF HandleExited, Handles, DrainOutput
  <1>23. CASE HandleStopped
    BY <1>23 DEF HandleStopped, Handles, DrainOutput, ReportStop, Resume,
       Broadcast
  <1>24. CASE ContinueReturns
    BY <1>24 DEF ContinueReturns
  <1>25. CASE DeliverSignal
    BY <1>25 DEF DeliverSignal
  <1>26. CASE InterruptBegins
    BY <1>26 DEF InterruptBegins, Check
  <1>27. CASE InterruptStops
    BY <1>27 DEF InterruptStops, Stop, BroadcastState, Broadcast
  <1>28. CASE InterruptEnds
    BY <1>28 DEF InterruptEnds, Rebroadcast, Broadcast
  <1>29. CASE UNCHANGED vars
    BY <1>29 DEF vars
  <1>30. QED
    BY <1>1, <1>2, <1>3, <1>4, <1>5, <1>6, <1>7, <1>8, <1>9, <1>10, <1>11, <1>12,
       <1>13, <1>14, <1>15, <1>16, <1>17, <1>18, <1>19, <1>20, <1>21, <1>22, <1>23,
       <1>24, <1>25, <1>26, <1>27, <1>28, <1>29 DEF Next, Inferior, Command,
       EventThread, Signal

LEMMA NextOnceInv ==
  ASSUME TypeOK, ControlInv, FirstInv, OnceInv, SyncInv, [Next]_vars
  PROVE  OnceInv'
  <1>a. switches \in Nat /\ signals \in Nat /\ reports \in Nat
    BY DEF TypeOK
  <1> USE <1>a, EventTypes, KeepsQueue, SendsEvent, TakesEvent, HandlesEvent
      DEF ControlInv, OnceInv, SyncInv, Undisturbed, Hijacked, Busy,
          process, events, main, handler, client, bounds
  <1>1. CASE InferiorStops
    BY <1>1 DEF InferiorStops, BroadcastState, Broadcast
  <1>2. CASE InferiorExits
    BY <1>2 DEF InferiorExits, BroadcastState, Broadcast
  <1>3. CASE InferiorRestarts
    BY <1>3 DEF InferiorRestarts, BroadcastState, Broadcast
  <1>4. CASE InferiorPrints
    BY <1>4 DEF InferiorPrints, Broadcast
  <1>5. CASE ExecRun
    BY <1>5 DEF ExecRun, Begins, Check, Gone, Broadcast
  <1>6. CASE TargetAttach
    BY <1>6 DEF TargetAttach, Begins, Check, Gone, Broadcast
  <1>7. CASE TargetDetach
    BY <1>7 DEF TargetDetach, Begins, Check
  <1>8. CASE ExecContinue
    BY <1>8 DEF ExecContinue, ExecResume, Begins, Check, Resume, Broadcast
  <1>9. CASE ExecStep
    BY <1>9 DEF ExecStep, ExecResume, Begins, Check, Resume, Broadcast
  <1>10. CASE ExecInterrupt
    BY <1>10 DEF ExecInterrupt, Begins, Check, Stop, BroadcastState, Broadcast
  <1>11. CASE ExecAbort
    BY <1>11 DEF ExecAbort, Begins, Check, Broadcast
  <1>12. CASE SetTargetAsync
    BY <1>12 DEF SetTargetAsync, Begins, Check
  <1>13. CASE OtherCommand
    BY <1>13 DEF OtherCommand, Begins, Check
  <1>14. CASE ResumeReturns
    BY <1>14 DEF ResumeReturns
  <1>15. CASE MarkDebugging
    BY <1>15 DEF MarkDebugging
  <1>16. CASE CommandEnds
    <2>1. CASE queue' = queue
      BY <1>16, <2>1 DEF CommandEnds
    <2>2. CASE /\ need /\ lastStopId # stopId
               /\ queue' = Append(queue, SeenEvent("stopped")) /\ state = "stopped"
      <3>1. /\ Queued("stopped")'
            /\ OneStop /\ ~Queued("stopped") => OneStop'
        BY <2>2
      <3>2. /\ pc = "end" /\ pc' = "drain"
            /\ UNCHANGED <<async, state, runLock, taken, reports, signals, switches>>
        BY <1>16 DEF CommandEnds
      <3>3. Undisturbed => ~async /\ ~runLock /\ reports = 0 /\ ~Queued("stopped")
                           /\ taken.kind # "stopped"
        BY <2>2, <3>2
      <3>4. QED
        BY <2>2, <3>1, <3>2, <3>3
    <2>3. CASE \E k \in {"exited", "restarted"} : queue' = Append(queue, SeenEvent(k))
      BY <1>16, <2>3 DEF CommandEnds
    <2>4. QED
      BY <1>16, <2>1, <2>2, <2>3 DEF CommandEnds, Rebroadcast, Broadcast
  <1>17. CASE Drained
    <2>1. ~Queued("stopped")' /\ taken'.kind = "none"
      BY <1>17 DEF Drained, Queued
    <2>2. QED
      BY <1>17, <2>1 DEF Drained
  <1>18. CASE GetNextEvent
    <2>1. taken' = Head(queue) /\ queue # <<>> /\ queue' = Tail(queue) /\ taken = NoEvent
      BY <1>18 DEF GetNextEvent
    <2>2. taken'.first /\ taken'.kind \in {"stopped", "exited"} =>
            \/ pc \in {"end", "drain"} /\ state \in {"none", "exited"}
            \/ state = taken'.kind /\ runLock
      BY <2>1, TakesUnseen DEF FirstInv
    <2>3. /\ Queued("stopped")' => Queued("stopped")
          /\ taken'.kind = "stopped" => Queued("stopped")
          /\ OneStop => OneStop'
          /\ OneStop /\ taken'.kind = "stopped" => ~Queued("stopped")'
      BY <1>18, <2>1, TakesEvent DEF GetNextEvent
    <2>4. /\ UNCHANGED <<async, state, pc, reports, signals, switches>>
          /\ runLock' => runLock
          /\ runLock /\ ~runLock' => taken'.first /\ taken'.kind \in {"stopped", "exited"}
      BY <1>18 DEF GetNextEvent
    <2> HIDE EventTypes, KeepsQueue, SendsEvent, TakesEvent, HandlesEvent
    <2>5. QED
      BY <2>1, <2>2, <2>3, <2>4
  <1>19. CASE HandleRunning
    BY <1>19 DEF HandleRunning, Handles
  <1>20. CASE HandleRestarted
    BY <1>20 DEF HandleRestarted, Handles
  <1>21. CASE HandleStdout
    BY <1>21 DEF HandleStdout, Handles, DrainOutput
  <1>22. CASE HandleExited
    BY <1>22 DEF HandleExited, Handles, DrainOutput
  <1>23. CASE HandleStopped
    BY <1>23 DEF HandleStopped, Handles, DrainOutput, ReportStop, Resume,
       Broadcast
  <1>24. CASE ContinueReturns
    BY <1>24 DEF ContinueReturns
  <1>25. CASE DeliverSignal
    BY <1>25 DEF DeliverSignal
  <1>26. CASE InterruptBegins
    BY <1>26 DEF InterruptBegins, Check
  <1>27. CASE InterruptStops
    BY <1>27 DEF InterruptStops, Stop, BroadcastState, Broadcast
  <1>28. CASE InterruptEnds
    BY <1>28 DEF InterruptEnds, Rebroadcast, Broadcast
  <1>29. CASE UNCHANGED vars
    BY <1>29 DEF vars
  <1>30. QED
    BY <1>1, <1>2, <1>3, <1>4, <1>5, <1>6, <1>7, <1>8, <1>9, <1>10, <1>11, <1>12,
       <1>13, <1>14, <1>15, <1>16, <1>17, <1>18, <1>19, <1>20, <1>21, <1>22, <1>23,
       <1>24, <1>25, <1>26, <1>27, <1>28, <1>29 DEF Next, Inferior, Command,
       EventThread, Signal

LEMMA NextSyncInv ==
  ASSUME TypeOK, ControlInv, OnceInv, SyncInv, [Next]_vars
  PROVE  SyncInv'
  <1>a. switches \in Nat /\ signals \in Nat /\ reports \in Nat
    BY DEF TypeOK
  <1> USE <1>a, EventTypes, KeepsQueue, SendsEvent, TakesEvent
      DEF ControlInv, OnceInv, SyncInv, Undisturbed, Hijacked, Busy,
          process, events, main, handler, client, bounds
  <1>1. CASE InferiorStops
    BY <1>1 DEF InferiorStops, BroadcastState, Broadcast
  <1>2. CASE InferiorExits
    BY <1>2 DEF InferiorExits, BroadcastState, Broadcast
  <1>3. CASE InferiorRestarts
    BY <1>3 DEF InferiorRestarts, BroadcastState, Broadcast
  <1>4. CASE InferiorPrints
    BY <1>4 DEF InferiorPrints, Broadcast
  <1>5. CASE ExecRun
    BY <1>5 DEF ExecRun, Begins, Check, Gone, Broadcast
  <1>6. CASE TargetAttach
    BY <1>6 DEF TargetAttach, Begins, Check, Gone, Broadcast
  <1>7. CASE TargetDetach
    BY <1>7 DEF TargetDetach, Begins, Check
  <1>8. CASE ExecContinue
    BY <1>8 DEF ExecContinue, ExecResume, Begins, Check, Resume, Broadcast
  <1>9. CASE ExecStep
    BY <1>9 DEF ExecStep, ExecResume, Begins, Check, Resume, Broadcast
  <1>10. CASE ExecInterrupt
    BY <1>10 DEF ExecInterrupt, Begins, Check, Stop, BroadcastState, Broadcast
  <1>11. CASE ExecAbort
    BY <1>11 DEF ExecAbort, Begins, Check, Broadcast
  <1>12. CASE SetTargetAsync
    BY <1>12 DEF SetTargetAsync, Begins, Check
  <1>13. CASE OtherCommand
    BY <1>13 DEF OtherCommand, Begins, Check
  <1>14. CASE ResumeReturns
    BY <1>14 DEF ResumeReturns
  <1>15. CASE MarkDebugging
    BY <1>15 DEF MarkDebugging
  <1>16. CASE CommandEnds
    BY <1>16 DEF CommandEnds, Rebroadcast, Broadcast
  <1>17. CASE Drained
    <2>1. \A k : ~Queued(k)'
      BY <1>17 DEF Drained, Queued
    <2>2. taken'.kind = "none"
      BY <1>17 DEF Drained
    <2>3. QED
      BY <1>17, <2>1, <2>2 DEF Drained
  <1>18. CASE GetNextEvent
    BY <1>18 DEF GetNextEvent
  <1>19. CASE HandleRunning
    BY <1>19 DEF HandleRunning, Handles
  <1>20. CASE HandleRestarted
    BY <1>20 DEF HandleRestarted, Handles
  <1>21. CASE HandleStdout
    BY <1>21 DEF HandleStdout, Handles, DrainOutput
  <1>22. CASE HandleExited
    BY <1>22 DEF HandleExited, Handles, DrainOutput
  <1>23. CASE HandleStopped
    BY <1>23 DEF HandleStopped, Handles, DrainOutput, ReportStop, Resume,
       Broadcast
  <1>24. CASE ContinueReturns
    BY <1>24 DEF ContinueReturns
  <1>25. CASE DeliverSignal
    BY <1>25 DEF DeliverSignal
  <1>26. CASE InterruptBegins
    BY <1>26 DEF InterruptBegins, Check
  <1>27. CASE InterruptStops
    BY <1>27 DEF InterruptStops, Stop, BroadcastState, Broadcast
  <1>28. CASE InterruptEnds
    BY <1>28 DEF InterruptEnds, Rebroadcast, Broadcast
  <1>29. CASE UNCHANGED vars
    BY <1>29 DEF vars
  <1>30. QED
    BY <1>1, <1>2, <1>3, <1>4, <1>5, <1>6, <1>7, <1>8, <1>9, <1>10, <1>11, <1>12,
       <1>13, <1>14, <1>15, <1>16, <1>17, <1>18, <1>19, <1>20, <1>21, <1>22, <1>23,
       <1>24, <1>25, <1>26, <1>27, <1>28, <1>29 DEF Next, Inferior, Command,
       EventThread, Signal

LEMMA NextAsyncToldInv ==
  ASSUME TypeOK, ControlInv, FirstInv, OnceInv, SyncInv, AsyncToldInv, [Next]_vars
  PROVE  AsyncToldInv'
  <1>a. switches \in Nat /\ signals \in Nat /\ reports \in Nat
    BY DEF TypeOK
  <1>b. Undisturbed /\ (state = "running" \/ (pc = "idle" /\ state # "stopped")) =>
          ~Queued("stopped") /\ StopsUnseen
    BY DEF OnceInv, Queued, StopsUnseen
  <1> USE <1>a, EventTypes, KeepsQueue, SendsEvent, TakesEvent, HandlesEvent
      DEF ControlInv, AsyncToldInv, SyncInv, Undisturbed, Hijacked, Busy, Reportable,
          process, events, main, handler, client, bounds
  <1>1. CASE InferiorStops
    BY <1>1, <1>b DEF InferiorStops, BroadcastState, Broadcast
  <1>2. CASE InferiorExits
    BY <1>2 DEF InferiorExits, BroadcastState, Broadcast
  <1>3. CASE InferiorRestarts
    BY <1>3 DEF InferiorRestarts, BroadcastState, Broadcast
  <1>4. CASE InferiorPrints
    BY <1>4 DEF InferiorPrints, Broadcast
  <1>5. CASE ExecRun
    BY <1>5, <1>b DEF ExecRun, Begins, Check, Gone, Broadcast
  <1>6. CASE TargetAttach
    BY <1>6, <1>b DEF TargetAttach, Begins, Check, Gone, Broadcast
  <1>7. CASE TargetDetach
    BY <1>7 DEF TargetDetach, Begins, Check
  <1>8. CASE ExecContinue
    BY <1>8 DEF ExecContinue, ExecResume, Begins, Check, Resume, Broadcast
  <1>9. CASE ExecStep
    BY <1>9 DEF ExecStep, ExecResume, Begins, Check, Resume, Broadcast
  <1>10. CASE ExecInterrupt
    BY <1>10 DEF ExecInterrupt, Begins, Check, Stop, BroadcastState, Broadcast
  <1>11. CASE ExecAbort
    BY <1>11 DEF ExecAbort, Begins, Check, Broadcast
  <1>12. CASE SetTargetAsync
    BY <1>12 DEF SetTargetAsync, Begins, Check
  <1>13. CASE OtherCommand
    BY <1>13 DEF OtherCommand, Begins, Check
  <1>14. CASE ResumeReturns
    BY <1>14 DEF ResumeReturns
  <1>15. CASE MarkDebugging
    BY <1>15 DEF MarkDebugging
  <1>16. CASE CommandEnds
    BY <1>16 DEF CommandEnds, Rebroadcast, Broadcast
  <1>17. CASE Drained
    BY <1>17 DEF Drained
  <1>18. CASE GetNextEvent
    BY <1>18 DEF GetNextEvent
  <1>19. CASE HandleRunning
    BY <1>19 DEF HandleRunning, Handles
  <1>20. CASE HandleRestarted
    BY <1>20 DEF HandleRestarted, Handles
  <1>21. CASE HandleStdout
    BY <1>21 DEF HandleStdout, Handles, DrainOutput
  <1>22. CASE HandleExited
    BY <1>22 DEF HandleExited, Handles, DrainOutput
  <1>23. CASE HandleStopped
    BY <1>23 DEF HandleStopped, Handles, DrainOutput, ReportStop, Resume,
       Broadcast
  <1>24. CASE ContinueReturns
    BY <1>24 DEF ContinueReturns
  <1>25. CASE DeliverSignal
    BY <1>25 DEF DeliverSignal
  <1>26. CASE InterruptBegins
    BY <1>26 DEF InterruptBegins, Check
  <1>27. CASE InterruptStops
    BY <1>27 DEF InterruptStops, Stop, BroadcastState, Broadcast
  <1>28. CASE InterruptEnds
    BY <1>28 DEF InterruptEnds, Rebroadcast, Broadcast
  <1>29. CASE UNCHANGED vars
    BY <1>29 DEF vars
  <1>30. QED
    BY <1>1, <1>2, <1>3, <1>4, <1>5, <1>6, <1>7, <1>8, <1>9, <1>10, <1>11, <1>12,
       <1>13, <1>14, <1>15, <1>16, <1>17, <1>18, <1>19, <1>20, <1>21, <1>22, <1>23,
       <1>24, <1>25, <1>26, <1>27, <1>28, <1>29 DEF Next, Inferior, Command,
       EventThread, Signal

LEMMA NextSyncToldInv ==
  ASSUME TypeOK, ControlInv, FirstInv, OnceInv, SyncInv, SyncToldInv, [Next]_vars
  PROVE  SyncToldInv'
  <1>a. /\ switches \in Nat /\ signals \in Nat /\ reports \in Nat /\ runs \in Nat
        /\ stopId \in Nat /\ lastStopId \in Nat
    BY DEF TypeOK
  <1> USE <1>a, EventTypes, KeepsQueue, SendsEvent, TakesEvent, HandlesEvent
      DEF ControlInv, SyncToldInv, SyncInv, Undisturbed, Hijacked, Busy, Reportable, Alive,
          process, events, main, handler, client, bounds
  <1>1. CASE InferiorStops
    BY <1>1 DEF InferiorStops, BroadcastState, Broadcast
  <1>2. CASE InferiorExits
    BY <1>2 DEF InferiorExits, BroadcastState, Broadcast
  <1>3. CASE InferiorRestarts
    BY <1>3 DEF InferiorRestarts, BroadcastState, Broadcast
  <1>4. CASE InferiorPrints
    BY <1>4 DEF InferiorPrints, Broadcast
  <1>5. CASE ExecRun
    BY <1>5 DEF ExecRun, Begins, Check, Gone, Broadcast
  <1>6. CASE TargetAttach
    BY <1>6 DEF TargetAttach, Begins, Check, Gone, Broadcast
  <1>7. CASE TargetDetach
    BY <1>7 DEF TargetDetach, Begins, Check
  <1>8. CASE ExecContinue
    BY <1>8 DEF ExecContinue, ExecResume, Begins, Check, Resume, Broadcast
  <1>9. CASE ExecStep
    BY <1>9 DEF ExecStep, ExecResume, Begins, Check, Resume, Broadcast
  <1>10. CASE ExecInterrupt
    BY <1>10 DEF ExecInterrupt, Begins, Check, Stop, BroadcastState, Broadcast
  <1>11. CASE ExecAbort
    BY <1>11 DEF ExecAbort, Begins, Check, Broadcast
  <1>12. CASE SetTargetAsync
    BY <1>12 DEF SetTargetAsync, Begins, Check
  <1>13. CASE OtherCommand
    BY <1>13 DEF OtherCommand, Begins, Check
  <1>14. CASE ResumeReturns
    BY <1>14 DEF ResumeReturns
  <1>15. CASE MarkDebugging
    BY <1>15 DEF MarkDebugging
  <1>16. CASE CommandEnds
    BY <1>16 DEF CommandEnds, Rebroadcast, Broadcast
  <1>17. CASE Drained
    BY <1>17 DEF Drained
  <1>18. CASE GetNextEvent
    BY <1>18 DEF GetNextEvent
  <1>19. CASE HandleRunning
    BY <1>19 DEF HandleRunning, Handles
  <1>20. CASE HandleRestarted
    BY <1>20 DEF HandleRestarted, Handles
  <1>21. CASE HandleStdout
    BY <1>21 DEF HandleStdout, Handles, DrainOutput
  <1>22. CASE HandleExited
    BY <1>22 DEF HandleExited, Handles, DrainOutput
  <1>23. CASE HandleStopped
    BY <1>23 DEF HandleStopped, Handles, DrainOutput, ReportStop, Resume,
       Broadcast
  <1>24. CASE ContinueReturns
    BY <1>24 DEF ContinueReturns
  <1>25. CASE DeliverSignal
    BY <1>25 DEF DeliverSignal
  <1>26. CASE InterruptBegins
    BY <1>26 DEF InterruptBegins, Check
  <1>27. CASE InterruptStops
    BY <1>27 DEF InterruptStops, Stop, BroadcastState, Broadcast
  <1>28. CASE InterruptEnds
    BY <1>28 DEF InterruptEnds, Rebroadcast, Broadcast
  <1>29. CASE UNCHANGED vars
    BY <1>29 DEF vars
  <1>30. QED
    BY <1>1, <1>2, <1>3, <1>4, <1>5, <1>6, <1>7, <1>8, <1>9, <1>10, <1>11, <1>12,
       <1>13, <1>14, <1>15, <1>16, <1>17, <1>18, <1>19, <1>20, <1>21, <1>22, <1>23,
       <1>24, <1>25, <1>26, <1>27, <1>28, <1>29 DEF Next, Inferior, Command,
       EventThread, Signal

LEMMA NextOutputBeforeStop ==
  ASSUME TypeOK, ControlInv, OutputBeforeStop, [Next]_vars
  PROVE  OutputBeforeStop'
  <1>a. outputs \in Nat /\ pending \in Nat /\ reports \in Nat
    <2>1. MaxOutput \in Nat
      BY Zenon, RunControlAssumption
    <2>2. QED
      BY <2>1 DEF TypeOK
  <1> USE <1>a DEF ControlInv, OutputBeforeStop, process, events, main, handler, client,
              bounds
  <1>1. CASE InferiorStops
    BY <1>1 DEF InferiorStops, BroadcastState, Broadcast, Event
  <1>2. CASE InferiorExits
    BY <1>2 DEF InferiorExits, BroadcastState, Broadcast, Event
  <1>3. CASE InferiorRestarts
    BY <1>3 DEF InferiorRestarts, BroadcastState, Broadcast, Event
  <1>4. CASE InferiorPrints
    BY <1>4 DEF InferiorPrints, Broadcast, Event
  <1>5. CASE ExecRun
    BY <1>5 DEF ExecRun, Begins, Check, Gone, Broadcast, Event
  <1>6. CASE TargetAttach
    BY <1>6 DEF TargetAttach, Begins, Check, Gone, Broadcast, Event
  <1>7. CASE TargetDetach
    BY <1>7 DEF TargetDetach, Begins, Check
  <1>8. CASE ExecContinue
    BY <1>8 DEF ExecContinue, ExecResume, Begins, Check, Resume, Broadcast, Event
  <1>9. CASE ExecStep
    BY <1>9 DEF ExecStep, ExecResume, Begins, Check, Resume, Broadcast, Event
  <1>10. CASE ExecInterrupt
    BY <1>10 DEF ExecInterrupt, Begins, Check, Stop, BroadcastState, Broadcast,
       SeenEvent
  <1>11. CASE ExecAbort
    BY <1>11 DEF ExecAbort, Begins, Check, Broadcast, Event
  <1>12. CASE SetTargetAsync
    BY <1>12 DEF SetTargetAsync, Begins, Check
  <1>13. CASE OtherCommand
    BY <1>13 DEF OtherCommand, Begins, Check
  <1>14. CASE ResumeReturns
    BY <1>14 DEF ResumeReturns
  <1>15. CASE MarkDebugging
    BY <1>15 DEF MarkDebugging
  <1>16. CASE CommandEnds
    BY <1>16 DEF CommandEnds, Rebroadcast, Broadcast, SeenEvent
  <1>17. CASE Drained
    BY <1>17 DEF Drained
  <1>18. CASE GetNextEvent
    BY <1>18 DEF GetNextEvent
  <1>19. CASE HandleRunning
    BY <1>19 DEF HandleRunning, Handles
  <1>20. CASE HandleRestarted
    BY <1>20 DEF HandleRestarted, Handles
  <1>21. CASE HandleStdout
    BY <1>21 DEF HandleStdout, Handles, DrainOutput
  <1>22. CASE HandleExited
    BY <1>22 DEF HandleExited, Handles, DrainOutput
  <1>23. CASE HandleStopped
    BY <1>23 DEF HandleStopped, Handles, DrainOutput, ReportStop, Resume,
       Broadcast, Event
  <1>24. CASE ContinueReturns
    BY <1>24 DEF ContinueReturns
  <1>25. CASE DeliverSignal
    BY <1>25 DEF DeliverSignal
  <1>26. CASE InterruptBegins
    BY <1>26 DEF InterruptBegins, Check
  <1>27. CASE InterruptStops
    BY <1>27 DEF InterruptStops, Stop, BroadcastState, Broadcast, SeenEvent
  <1>28. CASE InterruptEnds
    BY <1>28 DEF InterruptEnds, Rebroadcast, Broadcast, SeenEvent
  <1>29. CASE UNCHANGED vars
    BY <1>29 DEF vars
  <1>30. QED
    BY <1>1, <1>2, <1>3, <1>4, <1>5, <1>6, <1>7, <1>8, <1>9, <1>10, <1>11, <1>12,
       <1>13, <1>14, <1>15, <1>16, <1>17, <1>18, <1>19, <1>20, <1>21, <1>22, <1>23,
       <1>24, <1>25, <1>26, <1>27, <1>28, <1>29 DEF Next, Inferior, Command,
       EventThread, Signal

LEMMA InitIInv == Init => IInv
  <1> SUFFICES ASSUME Init PROVE IInv
    OBVIOUS
  <1>1. TypeOK
    BY InitTypeOK
  <1>2. \A k : ~Queued(k)
    BY DEF Init, Queued
  <1>3. OneStop /\ NoneUnseen
    BY DEF Init, OneStop, NoneUnseen, Unseen
  <1>4. MaxStops \in Nat
    BY Zenon, RunControlAssumption
  <1>5. QED
    BY <1>1, <1>2, <1>3, <1>4, EventTypes
       DEF Init, IInv, ControlInv, FirstInv, RunningInv, OnceInv, SyncInv, AsyncToldInv,
           SyncToldInv, OutputBeforeStop, Alive, Busy, Hijacked, Reportable

LEMMA NextIInv == IInv /\ [Next]_vars => IInv'
  BY NextTypeOK, NextControlInv, NextFirstInv, NextRunningInv, NextOnceInv, NextSyncInv,
     NextAsyncToldInv, NextSyncToldInv, NextOutputBeforeStop DEF IInv

\* When nothing is under way the last word of a state is the client's view.
LEMMA QuietSays ==
  ASSUME Quiet, ControlInv
  PROVE  /\ SaysRunning => view = "running"
         /\ SaysStopped => view = "stopped"
         /\ SaysExited => view = "exited"
  BY DEF Quiet, ControlInv, SaysRunning, SaysStopped, SaysExited, Says, NoEvent

\* The inductive invariant of the specification.
THEOREM SpecIInv == Spec => []IInv
  BY InitIInv, NextIInv, PTL DEF Spec

\* RunControl's variables keep their types; the stop id stays in its bound.
THEOREM RunControlTypeOK == Spec => []TypeOK
  BY SpecIInv, PTL DEF IInv

\* When nothing is under way, the client has been told by *running that the process
\* runs, if it does, whatever has happened in the session.
THEOREM RunningIsReported == Spec => []RunningReported
  <1>1. IInv => RunningReported
    <2> SUFFICES ASSUME IInv, Quiet, state = "running" PROVE view = "running"
      BY DEF RunningReported
    <2>1. ~Hijacked
      BY DEF Quiet, Hijacked
    <2>2. QED
      BY <2>1, QuietSays DEF IInv, RunningInv
  <1>2. QED
    BY <1>1, SpecIInv, PTL

\* Each stop has one *stopped record at most, unless a SIGINT or a change of
\* target-async has come.
THEOREM StopsAreReportedOnce == Spec => []ReportedOnce
  BY SpecIInv, PTL DEF IInv, OnceInv, ReportedOnce

\* When nothing is under way, the client has been told of the stop the process is in,
\* by LLDB's event or by the one that InterpretCommand broadcasts again.
THEOREM StopsAreReported == Spec => []StopReportedIfUndisturbed
  <1>1. IInv => StopReportedIfUndisturbed
    <2> SUFFICES ASSUME IInv, Undisturbed, Rebroadcasts, Quiet, Reportable
                 PROVE  view = "stopped"
      BY DEF StopReportedIfUndisturbed, StopReported
    <2>1. SaysStopped
      BY DEF IInv, AsyncToldInv, SyncToldInv, Rebroadcasts, Quiet, Busy
    <2>2. QED
      BY <2>1, QuietSays DEF IInv
  <1>2. QED
    BY <1>1, SpecIInv, PTL

\* When nothing is under way, the client has been told of the process's exit.
THEOREM ExitsAreReported == Spec => []ExitReported
  <1>1. IInv => ExitReported
    <2> SUFFICES ASSUME IInv, Undisturbed, Rebroadcasts, Quiet, state = "exited"
                 PROVE  view = "exited"
      BY DEF ExitReported
    <2>1. SaysExited
      BY DEF IInv, AsyncToldInv, SyncToldInv, Rebroadcasts, Quiet, Busy
    <2>2. QED
      BY <2>1, QuietSays DEF IInv
  <1>2. QED
    BY <1>1, SpecIInv, PTL

\* What the process has printed before it stopped is printed before its *stopped.
THEOREM OutputComesBeforeStop == Spec => []OutputBeforeStop
  BY SpecIInv, PTL DEF IInv
=============================================================================
