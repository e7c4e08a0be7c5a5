--------------------------- MODULE EventLoopProofs ---------------------------
(***************************************************************************)
(* What EventLoop guarantees for every number of lines, events and signals *)
(* and every set of command line inputs: the two mutexes are held exactly  *)
(* where the code holds them, a command and an event's handler never run   *)
(* together, nobody waits for a thread that has gone, and, when condition  *)
(* variables do not wake by themselves, WaitForHandleEvent returns only    *)
(* when the events broadcast before it have been handled.                  *)
(***************************************************************************)
EXTENDS EventLoop, SequenceTheorems, TLAPS

\* Who holds the two mutexes, by the control points of the threads.
LockInv ==
  /\ sessionMutex = Main  <=> pc = "cmd"
  /\ sessionMutex = Event <=> ev = "handle"
  /\ queueMutex = Main  <=> pc = "waited"
  /\ queueMutex = Event <=> ev \in {"slock", "handle"}
  /\ current # None <=> ev \in {"slock", "handle"}

\* The life of the event thread against the main thread's.
ThreadInv ==
  /\ ev = "none" <=> pc = "start"
  /\ active <=> ev \notin {"none", "dead"}
  /\ killed => pc \in {"join", "done"}
  /\ ev \in {"finish", "dead"} => killed

\* No event is lost or handled twice.
CountInv ==
  /\ sent = handled + InFlight + Len(queue)
  /\ mark <= sent

\* What the notification means.
DrainInv ==
  ~SpuriousWakeups /\ pc \in {"woken", "waited"} => handled >= mark

IInv == TypeOK /\ LockInv /\ ThreadInv /\ CountInv /\ DrainInv

LEMMA InitIInv == Init => IInv
  <1> SUFFICES ASSUME Init PROVE IInv
    OBVIOUS
  <1>1. TypeOK
    <2>1. todo \in [Scripts -> Nat]
      <3>1. 0..MaxLines \subseteq Nat
        OBVIOUS
      <3>2. QED
        BY <3>1 DEF Init
    <2>2. given \subseteq AllInputs
      BY EventLoopAssumption DEF Init
    <2>3. /\ bOk \in BOOLEAN /\ exitApp \in BOOLEAN
          /\ async \in BOOLEAN /\ savedAsync \in BOOLEAN
          /\ asyncAtStart \in BOOLEAN
          /\ active \in BOOLEAN /\ killed \in BOOLEAN /\ running \in BOOLEAN
          /\ userSet \in BOOLEAN /\ quitRun \in BOOLEAN /\ fatal \in BOOLEAN
      BY Zenon DEF Init
    <2>4. QED
      BY <2>1, <2>2, <2>3 DEF Init, TypeOK, None, Main, Event
  <1>2. LockInv /\ ThreadInv /\ CountInv /\ DrainInv
    BY DEF Init, LockInv, ThreadInv, CountInv, DrainInv, InFlight, None, Main,
           Event
  <1>3. QED
    BY <1>1, <1>2 DEF IInv

(***************************************************************************)
(* The type invariant is inductive.                                        *)
(***************************************************************************)

LEMMA NextTypeOK == TypeOK /\ [Next]_vars => TypeOK'
  <1> SUFFICES ASSUME TypeOK, [Next]_vars PROVE TypeOK'
    OBVIOUS
  <1> USE DEF TypeOK, inputs, modeVars, evVars, locks, listener, signalVars,
              history, None, Main, Event
  <1>1. CASE StartWorkerThreads BY <1>1 DEF StartWorkerThreads
  <1>2. CASE StartupCommandEnds BY <1>2 DEF StartupCommandEnds
  <1>3. CASE ResetExitFlag
    <2>1. exitApp' \in BOOLEAN
      BY <1>3, Zenon DEF ResetExitFlag
    <2>2. QED
      BY <1>3, <2>1 DEF ResetExitFlag
  <1>4. CASE CommandString
    <2>1. async' \in BOOLEAN /\ savedAsync' \in BOOLEAN
      BY <1>4, Zenon DEF CommandString
    <2>2. src' \in {"string", "file"} /\ pc' \in {"begin", "lock"}
      BY <1>4 DEF CommandString
    <2>3. QED
      BY <1>4, <2>1, <2>2 DEF CommandString, Scripts
  <1>5. CASE OpenCommandFile
    <2>1. async' \in BOOLEAN /\ savedAsync' \in BOOLEAN /\ exitApp' \in BOOLEAN
      BY <1>5, Zenon DEF OpenCommandFile
    <2>2. src' \in {"file", "stdin"} /\ pc' = "input"
      BY <1>5 DEF OpenCommandFile
    <2>3. QED
      BY <1>5, <2>1, <2>2 DEF OpenCommandFile, Scripts
  <1>6. CASE FileLine
    <2>1. todo' \in [Scripts -> Nat]
      <3>1. todo["file"] - 1 \in Nat
        BY <1>6 DEF FileLine, Scripts
      <3>2. QED
        BY <1>6, <3>1 DEF FileLine
    <2>2. QED
      BY <1>6, <2>1 DEF FileLine
  <1>7. CASE FileEnds BY <1>7 DEF FileEnds, Scripts
  <1>8. CASE MainLoopHead BY <1>8 DEF MainLoopHead
  <1>9. CASE ReadLine
    <2>1. todo' \in [Scripts -> Nat]
      <3>1. CASE /\ todo["stdin"] > 0
                 /\ todo' = [todo EXCEPT !["stdin"] = @ - 1]
        <4>1. todo["stdin"] - 1 \in Nat
          BY <3>1 DEF Scripts
        <4>2. QED
          BY <3>1, <4>1
      <3>2. CASE UNCHANGED todo
        BY <3>2
      <3>3. QED
        BY <1>9, <3>1, <3>2 DEF ReadLine
    <2>2. exitApp' \in BOOLEAN /\ pc' \in {"lock", "input"}
      BY <1>9 DEF ReadLine
    <2>3. QED
      BY <1>9, <2>1, <2>2 DEF ReadLine
  <1>10. CASE LockSession BY <1>10 DEF LockSession
  <1>11. CASE CmdGdbExit BY <1>11 DEF CmdGdbExit
  <1>12. CASE CmdQuit BY <1>12 DEF CmdQuit, Kinds
  <1>13. CASE CmdSetAsync BY <1>13 DEF CmdSetAsync
  <1>14. CASE CmdResume BY <1>14 DEF CmdResume
  <1>15. CASE CmdEnds BY <1>15 DEF CmdEnds
  <1>16. CASE PeekAtNextEvent BY <1>16 DEF PeekAtNextEvent
  <1>17. CASE SpuriousWakeup BY <1>17 DEF SpuriousWakeup
  <1>18. CASE Relock BY <1>18 DEF Relock
  <1>19. CASE WaitReturns BY <1>19 DEF WaitReturns, Scripts
  <1>20. CASE DoAppQuit BY <1>20 DEF DoAppQuit
  <1>21. CASE ThreadKill BY <1>21 DEF ThreadKill
  <1>22. CASE ThreadJoin BY <1>22 DEF ThreadJoin
  <1>23. CASE ThreadRun BY <1>23 DEF ThreadRun
  <1>24. CASE ListenerEmpty BY <1>24 DEF ListenerEmpty
  <1>25. CASE GetNextEvent BY <1>25 DEF GetNextEvent
  <1>26. CASE LockForHandling BY <1>26 DEF LockForHandling
  <1>27. CASE HandleEvent BY <1>27 DEF HandleEvent
  <1>28. CASE ThreadAlive BY <1>28 DEF ThreadAlive
  <1>29. CASE ThreadFinish
    <2>1. active' \in BOOLEAN
      BY <1>29, Zenon DEF ThreadFinish
    <2>2. QED
      BY <1>29, <2>1 DEF ThreadFinish
  <1>30. CASE Broadcast BY <1>30 DEF Broadcast, Kinds
  <1>31. CASE DeliverSignal BY <1>31 DEF DeliverSignal
  <1>32. CASE InterruptEnds
    <2>1. running' \in BOOLEAN
      BY <1>32, Zenon DEF InterruptEnds
    <2>2. QED
      BY <1>32, <2>1 DEF InterruptEnds
  <1>33. CASE Terminated \/ UNCHANGED vars BY <1>33 DEF Terminated, vars
  <1>34. QED
    BY <1>1, <1>2, <1>3, <1>4, <1>5, <1>6, <1>7, <1>8, <1>9, <1>10, <1>11,
       <1>12, <1>13, <1>14, <1>15, <1>16, <1>17, <1>18, <1>19, <1>20, <1>21,
       <1>22, <1>23, <1>24, <1>25, <1>26, <1>27, <1>28, <1>29, <1>30, <1>31,
       <1>32, <1>33 DEF Next, MainNext, EventNext

(***************************************************************************)
(* Who holds the mutexes, and the life of the event thread.                *)
(***************************************************************************)

LEMMA NextLockInv == TypeOK /\ LockInv /\ ThreadInv /\ [Next]_vars => LockInv'
  <1> SUFFICES ASSUME TypeOK, LockInv, ThreadInv, [Next]_vars PROVE LockInv'
    OBVIOUS
  <1> USE DEF TypeOK, LockInv, ThreadInv, Kinds, inputs, modeVars, evVars, locks,
              listener, signalVars, history, None, Main, Event
  <1>1. CASE StartWorkerThreads BY <1>1 DEF StartWorkerThreads
  <1>2. CASE StartupCommandEnds BY <1>2 DEF StartupCommandEnds
  <1>3. CASE ResetExitFlag BY <1>3 DEF ResetExitFlag
  <1>4. CASE CommandString BY <1>4 DEF CommandString
  <1>5. CASE OpenCommandFile BY <1>5 DEF OpenCommandFile
  <1>6. CASE FileLine BY <1>6 DEF FileLine
  <1>7. CASE FileEnds BY <1>7 DEF FileEnds
  <1>8. CASE MainLoopHead BY <1>8 DEF MainLoopHead
  <1>9. CASE ReadLine BY <1>9 DEF ReadLine
  <1>10. CASE LockSession BY <1>10 DEF LockSession
  <1>11. CASE CmdGdbExit BY <1>11 DEF CmdGdbExit
  <1>12. CASE CmdQuit BY <1>12 DEF CmdQuit
  <1>13. CASE CmdSetAsync BY <1>13 DEF CmdSetAsync
  <1>14. CASE CmdResume BY <1>14 DEF CmdResume
  <1>15. CASE CmdEnds BY <1>15 DEF CmdEnds
  <1>16. CASE PeekAtNextEvent BY <1>16 DEF PeekAtNextEvent
  <1>17. CASE SpuriousWakeup BY <1>17 DEF SpuriousWakeup
  <1>18. CASE Relock BY <1>18 DEF Relock
  <1>19. CASE WaitReturns BY <1>19 DEF WaitReturns
  <1>20. CASE DoAppQuit BY <1>20 DEF DoAppQuit
  <1>21. CASE ThreadKill BY <1>21 DEF ThreadKill
  <1>22. CASE ThreadJoin BY <1>22 DEF ThreadJoin
  <1>23. CASE ThreadRun BY <1>23 DEF ThreadRun
  <1>24. CASE ListenerEmpty BY <1>24 DEF ListenerEmpty
  <1>25. CASE GetNextEvent BY <1>25 DEF GetNextEvent
  <1>26. CASE LockForHandling BY <1>26 DEF LockForHandling
  <1>27. CASE HandleEvent BY <1>27 DEF HandleEvent
  <1>28. CASE ThreadAlive BY <1>28 DEF ThreadAlive
  <1>29. CASE ThreadFinish BY <1>29 DEF ThreadFinish
  <1>30. CASE Broadcast BY <1>30 DEF Broadcast
  <1>31. CASE DeliverSignal BY <1>31 DEF DeliverSignal
  <1>32. CASE InterruptEnds BY <1>32 DEF InterruptEnds
  <1>33. CASE Terminated \/ UNCHANGED vars BY <1>33 DEF Terminated, vars
  <1>34. QED
    BY <1>1, <1>2, <1>3, <1>4, <1>5, <1>6, <1>7, <1>8, <1>9, <1>10, <1>11,
       <1>12, <1>13, <1>14, <1>15, <1>16, <1>17, <1>18, <1>19, <1>20, <1>21,
       <1>22, <1>23, <1>24, <1>25, <1>26, <1>27, <1>28, <1>29, <1>30, <1>31,
       <1>32, <1>33 DEF Next, MainNext, EventNext

LEMMA NextThreadInv ==
  TypeOK /\ LockInv /\ ThreadInv /\ [Next]_vars => ThreadInv'
  <1> SUFFICES ASSUME TypeOK, LockInv, ThreadInv, [Next]_vars PROVE ThreadInv'
    OBVIOUS
  <1> USE DEF TypeOK, LockInv, ThreadInv, Kinds, inputs, modeVars, evVars,
              locks, listener, signalVars, history, None, Main, Event
  <1>1. CASE StartWorkerThreads
    <2>1. ev' = "top" /\ active' /\ ~killed /\ killed' = killed
      BY <1>1 DEF StartWorkerThreads
    <2>2. pc' \in {"exe", "reset"}
      BY <1>1 DEF StartWorkerThreads
    <2>3. QED
      BY <2>1, <2>2
  <1>2. CASE StartupCommandEnds BY <1>2 DEF StartupCommandEnds
  <1>3. CASE ResetExitFlag BY <1>3 DEF ResetExitFlag
  <1>4. CASE CommandString BY <1>4 DEF CommandString
  <1>5. CASE OpenCommandFile BY <1>5 DEF OpenCommandFile
  <1>6. CASE FileLine BY <1>6 DEF FileLine
  <1>7. CASE FileEnds BY <1>7 DEF FileEnds
  <1>8. CASE MainLoopHead BY <1>8 DEF MainLoopHead
  <1>9. CASE ReadLine BY <1>9 DEF ReadLine
  <1>10. CASE LockSession BY <1>10 DEF LockSession
  <1>11. CASE CmdGdbExit BY <1>11 DEF CmdGdbExit
  <1>12. CASE CmdQuit BY <1>12 DEF CmdQuit
  <1>13. CASE CmdSetAsync BY <1>13 DEF CmdSetAsync
  <1>14. CASE CmdResume BY <1>14 DEF CmdResume
  <1>15. CASE CmdEnds BY <1>15 DEF CmdEnds
  <1>16. CASE PeekAtNextEvent BY <1>16 DEF PeekAtNextEvent
  <1>17. CASE SpuriousWakeup BY <1>17 DEF SpuriousWakeup
  <1>18. CASE Relock BY <1>18 DEF Relock
  <1>19. CASE WaitReturns BY <1>19 DEF WaitReturns
  <1>20. CASE DoAppQuit BY <1>20 DEF DoAppQuit
  <1>21. CASE ThreadKill BY <1>21 DEF ThreadKill
  <1>22. CASE ThreadJoin BY <1>22 DEF ThreadJoin
  <1>23. CASE ThreadRun BY <1>23 DEF ThreadRun
  <1>24. CASE ListenerEmpty BY <1>24 DEF ListenerEmpty
  <1>25. CASE GetNextEvent BY <1>25 DEF GetNextEvent
  <1>26. CASE LockForHandling BY <1>26 DEF LockForHandling
  <1>27. CASE HandleEvent BY <1>27 DEF HandleEvent
  <1>28. CASE ThreadAlive BY <1>28 DEF ThreadAlive
  <1>29. CASE ThreadFinish BY <1>29 DEF ThreadFinish
  <1>30. CASE Broadcast BY <1>30 DEF Broadcast
  <1>31. CASE DeliverSignal BY <1>31 DEF DeliverSignal
  <1>32. CASE InterruptEnds BY <1>32 DEF InterruptEnds
  <1>33. CASE Terminated \/ UNCHANGED vars BY <1>33 DEF Terminated, vars
  <1>34. QED
    BY <1>1, <1>2, <1>3, <1>4, <1>5, <1>6, <1>7, <1>8, <1>9, <1>10, <1>11,
       <1>12, <1>13, <1>14, <1>15, <1>16, <1>17, <1>18, <1>19, <1>20, <1>21,
       <1>22, <1>23, <1>24, <1>25, <1>26, <1>27, <1>28, <1>29, <1>30, <1>31,
       <1>32, <1>33 DEF Next, MainNext, EventNext

(***************************************************************************)
(* Counting the events: none is lost, and a return from WaitForHandleEvent *)
(* follows the handling of those broadcast before it.                      *)
(***************************************************************************)

LEMMA NextCountInv == TypeOK /\ LockInv /\ CountInv /\ [Next]_vars => CountInv'
  <1> SUFFICES ASSUME TypeOK, LockInv, CountInv, [Next]_vars PROVE CountInv'
    OBVIOUS
  <1> USE DEF TypeOK, LockInv, CountInv, InFlight, Kinds, inputs, modeVars, evVars,
              locks, listener, signalVars, history, None, Main, Event
  <1>1. CASE StartWorkerThreads BY <1>1 DEF StartWorkerThreads
  <1>2. CASE StartupCommandEnds BY <1>2 DEF StartupCommandEnds
  <1>3. CASE ResetExitFlag BY <1>3 DEF ResetExitFlag
  <1>4. CASE CommandString BY <1>4 DEF CommandString
  <1>5. CASE OpenCommandFile BY <1>5 DEF OpenCommandFile
  <1>6. CASE FileLine BY <1>6 DEF FileLine
  <1>7. CASE FileEnds BY <1>7 DEF FileEnds
  <1>8. CASE MainLoopHead BY <1>8 DEF MainLoopHead
  <1>9. CASE ReadLine BY <1>9 DEF ReadLine
  <1>10. CASE LockSession BY <1>10 DEF LockSession
  <1>11. CASE CmdGdbExit BY <1>11 DEF CmdGdbExit
  <1>12. CASE CmdQuit BY <1>12 DEF CmdQuit
  <1>13. CASE CmdSetAsync BY <1>13 DEF CmdSetAsync
  <1>14. CASE CmdResume BY <1>14 DEF CmdResume
  <1>15. CASE CmdEnds BY <1>15 DEF CmdEnds
  <1>16. CASE PeekAtNextEvent BY <1>16 DEF PeekAtNextEvent
  <1>17. CASE SpuriousWakeup BY <1>17 DEF SpuriousWakeup
  <1>18. CASE Relock BY <1>18 DEF Relock
  <1>19. CASE WaitReturns BY <1>19 DEF WaitReturns
  <1>20. CASE DoAppQuit BY <1>20 DEF DoAppQuit
  <1>21. CASE ThreadKill BY <1>21 DEF ThreadKill
  <1>22. CASE ThreadJoin BY <1>22 DEF ThreadJoin
  <1>23. CASE ThreadRun BY <1>23 DEF ThreadRun
  <1>24. CASE ListenerEmpty BY <1>24 DEF ListenerEmpty
  <1>25. CASE GetNextEvent BY <1>25 DEF GetNextEvent
  <1>26. CASE LockForHandling BY <1>26 DEF LockForHandling
  <1>27. CASE HandleEvent BY <1>27 DEF HandleEvent
  <1>28. CASE ThreadAlive BY <1>28 DEF ThreadAlive
  <1>29. CASE ThreadFinish BY <1>29 DEF ThreadFinish
  <1>30. CASE Broadcast
    <2>1. PICK k \in {"stop", "other"} : queue' = Append(queue, k)
      BY <1>30 DEF Broadcast
    <2>2. Len(queue') = Len(queue) + 1 /\ Len(queue) \in Nat
      BY <2>1
    <2>3. sent' = sent + 1 /\ UNCHANGED <<current, handled, mark>>
      BY <1>30 DEF Broadcast
    <2>4. QED
      BY <2>2, <2>3
  <1>31. CASE DeliverSignal BY <1>31 DEF DeliverSignal
  <1>32. CASE InterruptEnds BY <1>32 DEF InterruptEnds
  <1>33. CASE Terminated \/ UNCHANGED vars BY <1>33 DEF Terminated, vars
  <1>34. QED
    BY <1>1, <1>2, <1>3, <1>4, <1>5, <1>6, <1>7, <1>8, <1>9, <1>10, <1>11,
       <1>12, <1>13, <1>14, <1>15, <1>16, <1>17, <1>18, <1>19, <1>20, <1>21,
       <1>22, <1>23, <1>24, <1>25, <1>26, <1>27, <1>28, <1>29, <1>30, <1>31,
       <1>32, <1>33 DEF Next, MainNext, EventNext

LEMMA NextDrainInv == IInv /\ [Next]_vars => DrainInv'
  <1> SUFFICES ASSUME IInv, [Next]_vars PROVE DrainInv'
    OBVIOUS
  <1> USE DEF IInv, TypeOK, LockInv, ThreadInv, CountInv, DrainInv, InFlight,
              Kinds, inputs, modeVars, evVars,
              locks, listener, signalVars, history, None, Main, Event
  <1>1. CASE StartWorkerThreads BY <1>1 DEF StartWorkerThreads
  <1>2. CASE StartupCommandEnds BY <1>2 DEF StartupCommandEnds
  <1>3. CASE ResetExitFlag BY <1>3 DEF ResetExitFlag
  <1>4. CASE CommandString BY <1>4 DEF CommandString
  <1>5. CASE OpenCommandFile BY <1>5 DEF OpenCommandFile
  <1>6. CASE FileLine BY <1>6 DEF FileLine
  <1>7. CASE FileEnds BY <1>7 DEF FileEnds
  <1>8. CASE MainLoopHead BY <1>8 DEF MainLoopHead
  <1>9. CASE ReadLine BY <1>9 DEF ReadLine
  <1>10. CASE LockSession BY <1>10 DEF LockSession
  <1>11. CASE CmdGdbExit BY <1>11 DEF CmdGdbExit
  <1>12. CASE CmdQuit BY <1>12 DEF CmdQuit
  <1>13. CASE CmdSetAsync BY <1>13 DEF CmdSetAsync
  <1>14. CASE CmdResume BY <1>14 DEF CmdResume
  <1>15. CASE CmdEnds BY <1>15 DEF CmdEnds
  <1>16. CASE PeekAtNextEvent BY <1>16 DEF PeekAtNextEvent
  <1>17. CASE SpuriousWakeup BY <1>17 DEF SpuriousWakeup
  <1>18. CASE Relock BY <1>18 DEF Relock
  <1>19. CASE WaitReturns BY <1>19 DEF WaitReturns
  <1>20. CASE DoAppQuit BY <1>20 DEF DoAppQuit
  <1>21. CASE ThreadKill BY <1>21 DEF ThreadKill
  <1>22. CASE ThreadJoin BY <1>22 DEF ThreadJoin
  <1>23. CASE ThreadRun BY <1>23 DEF ThreadRun
  <1>24. CASE ListenerEmpty BY <1>24 DEF ListenerEmpty
  <1>25. CASE GetNextEvent BY <1>25 DEF GetNextEvent
  <1>26. CASE LockForHandling BY <1>26 DEF LockForHandling
  <1>27. CASE HandleEvent BY <1>27 DEF HandleEvent
  <1>28. CASE ThreadAlive BY <1>28 DEF ThreadAlive
  <1>29. CASE ThreadFinish BY <1>29 DEF ThreadFinish
  <1>30. CASE Broadcast BY <1>30 DEF Broadcast
  <1>31. CASE DeliverSignal BY <1>31 DEF DeliverSignal
  <1>32. CASE InterruptEnds BY <1>32 DEF InterruptEnds
  <1>33. CASE Terminated \/ UNCHANGED vars BY <1>33 DEF Terminated, vars
  <1>34. QED
    BY <1>1, <1>2, <1>3, <1>4, <1>5, <1>6, <1>7, <1>8, <1>9, <1>10, <1>11,
       <1>12, <1>13, <1>14, <1>15, <1>16, <1>17, <1>18, <1>19, <1>20, <1>21,
       <1>22, <1>23, <1>24, <1>25, <1>26, <1>27, <1>28, <1>29, <1>30, <1>31,
       <1>32, <1>33 DEF Next, MainNext, EventNext

LEMMA NextIInv == IInv /\ [Next]_vars => IInv'
  BY NextTypeOK, NextLockInv, NextThreadInv, NextCountInv, NextDrainInv DEF IInv

THEOREM Invariance == Spec => []IInv
  BY InitIInv, NextIInv, PTL DEF Spec

(***************************************************************************)
(* What follows from the invariant.                                        *)
(***************************************************************************)

\* Every variable keeps its type, for every bound and every set of inputs.
THEOREM TypeCorrect == Spec => []TypeOK
  BY Invariance, PTL DEF IInv

\* Commands (but the start-up one and SIGINT's) and event handlers exclude each
\* other: LLDB's state does not change under the command that reads it.
THEOREM Exclusion == Spec => []EventsDoNotDisturbCommands
  <1>1. IInv => EventsDoNotDisturbCommands
    BY DEF IInv, LockInv, EventsDoNotDisturbCommands, Main, Event
  <1>2. QED
    BY <1>1, Invariance, PTL

\* A main thread blocked in WaitForHandleEvent always has a live event thread
\* that will notify it.
THEOREM NeverOrphaned == Spec => []NoOrphanedWait
  <1>1. IInv => NoOrphanedWait
    BY DEF IInv, TypeOK, ThreadInv, NoOrphanedWait
  <1>2. QED
    BY <1>1, Invariance, PTL

\* The assertion of DoMainLoop never fails.
THEOREM AssertionHolds == Spec => []HandlerThreadIsActive
  <1>1. IInv => HandlerThreadIsActive
    BY DEF IInv, TypeOK, ThreadInv, HandlerThreadIsActive
  <1>2. QED
    BY <1>1, Invariance, PTL

\* Without spurious wakeups WaitForHandleEvent keeps its promise.
THEOREM WaitDrains ==
  ASSUME ~SpuriousWakeups
  PROVE  Spec => []DrainedOnReturn
  <1>1. IInv => DrainedOnReturn
    BY DEF IInv, DrainInv, DrainedOnReturn
  <1>2. QED
    BY <1>1, Invariance, PTL

(***************************************************************************)
(* The asynchronous mode across the -c string and the script file.         *)
(***************************************************************************)

Commanding == {"lock", "cmd", "wait", "blocked", "woken", "waited"}

AsyncInv ==
  /\ src # "stdin" => ~userSet
  /\ src = "string" => pc \in {"start", "exe", "reset", "begin"} \cup Commanding
  /\ src = "file" => pc \in {"begin", "input"} \cup Commanding
  /\ src = "stdin" => pc \notin {"start", "exe", "reset", "begin"}
  /\ pc \in {"start", "exe", "reset", "begin"} => async = asyncAtStart
  /\ src # "stdin" /\ pc \in {"input"} \cup Commanding
       => savedAsync = asyncAtStart
  /\ src = "stdin" => userSet \/ async = asyncAtStart

LEMMA InitAsyncInv == Init => AsyncInv
  BY DEF Init, AsyncInv, Commanding

LEMMA NextAsyncInv == TypeOK /\ AsyncInv /\ [Next]_vars => AsyncInv'
  <1> SUFFICES ASSUME TypeOK, AsyncInv, [Next]_vars PROVE AsyncInv'
    OBVIOUS
  <1> USE DEF TypeOK, AsyncInv, Commanding, Scripts, inputs, modeVars, evVars,
              locks, listener, signalVars, history, None, Main, Event
  <1>1. CASE StartWorkerThreads BY <1>1 DEF StartWorkerThreads
  <1>2. CASE StartupCommandEnds BY <1>2 DEF StartupCommandEnds
  <1>3. CASE ResetExitFlag BY <1>3 DEF ResetExitFlag
  <1>4. CASE CommandString BY <1>4 DEF CommandString
  <1>5. CASE OpenCommandFile BY <1>5 DEF OpenCommandFile
  <1>6. CASE FileLine BY <1>6 DEF FileLine
  <1>7. CASE FileEnds BY <1>7 DEF FileEnds
  <1>8. CASE MainLoopHead BY <1>8 DEF MainLoopHead
  <1>9. CASE ReadLine BY <1>9 DEF ReadLine
  <1>10. CASE LockSession BY <1>10 DEF LockSession
  <1>11. CASE CmdGdbExit BY <1>11 DEF CmdGdbExit
  <1>12. CASE CmdQuit BY <1>12 DEF CmdQuit
  <1>13. CASE CmdSetAsync BY <1>13 DEF CmdSetAsync
  <1>14. CASE CmdResume BY <1>14 DEF CmdResume
  <1>15. CASE CmdEnds BY <1>15 DEF CmdEnds
  <1>16. CASE PeekAtNextEvent BY <1>16 DEF PeekAtNextEvent
  <1>17. CASE SpuriousWakeup BY <1>17 DEF SpuriousWakeup
  <1>18. CASE Relock BY <1>18 DEF Relock
  <1>19. CASE WaitReturns BY <1>19 DEF WaitReturns
  <1>20. CASE DoAppQuit BY <1>20 DEF DoAppQuit
  <1>21. CASE ThreadKill BY <1>21 DEF ThreadKill
  <1>22. CASE ThreadJoin BY <1>22 DEF ThreadJoin
  <1>23. CASE ThreadRun BY <1>23 DEF ThreadRun
  <1>24. CASE ListenerEmpty BY <1>24 DEF ListenerEmpty
  <1>25. CASE GetNextEvent BY <1>25 DEF GetNextEvent
  <1>26. CASE LockForHandling BY <1>26 DEF LockForHandling
  <1>27. CASE HandleEvent BY <1>27 DEF HandleEvent
  <1>28. CASE ThreadAlive BY <1>28 DEF ThreadAlive
  <1>29. CASE ThreadFinish BY <1>29 DEF ThreadFinish
  <1>30. CASE Broadcast BY <1>30 DEF Broadcast
  <1>31. CASE DeliverSignal BY <1>31 DEF DeliverSignal
  <1>32. CASE InterruptEnds BY <1>32 DEF InterruptEnds
  <1>33. CASE Terminated \/ UNCHANGED vars BY <1>33 DEF Terminated, vars
  <1>34. QED
    BY <1>1, <1>2, <1>3, <1>4, <1>5, <1>6, <1>7, <1>8, <1>9, <1>10, <1>11,
       <1>12, <1>13, <1>14, <1>15, <1>16, <1>17, <1>18, <1>19, <1>20, <1>21,
       <1>22, <1>23, <1>24, <1>25, <1>26, <1>27, <1>28, <1>29, <1>30, <1>31,
       <1>32, <1>33 DEF Next, MainNext, EventNext
\* The session starts reading stdin in the mode lldb-mi was started with.
THEOREM ModeRestored == Spec => []AsyncModeRestored
  <1>1. AsyncInv => AsyncModeRestored
    BY DEF AsyncInv, AsyncModeRestored
  <1>2. TypeOK /\ AsyncInv /\ [Next]_vars => AsyncInv'
    BY NextAsyncInv
  <1>3. QED
    BY <1>1, <1>2, InitAsyncInv, TypeCorrect, PTL DEF Spec

(***************************************************************************)
(* A quit is final: the event it posts lies before the mark, so the wait   *)
(* after the command sees it handled and the exit flag set.                *)
(***************************************************************************)

\* The quit event is still on its way, and this wait will see it handled.
QuitPending ==
  \/ current = "quit" /\ (pc # "cmd" => handled < mark)
  \/ \E i \in 1..Len(queue) :
       /\ queue[i] = "quit"
       /\ pc # "cmd" => handled + InFlight + i <= mark

QuitInv ==
  /\ src = "string" => pc # "input"
  /\ pc = "reading" => src = "stdin"
  /\ pc \in {"start", "exe", "reset", "reading", "lock"} => ~quitRun
  /\ pc = "begin" /\ src = "string" => ~quitRun
  /\ pc \in {"begin", "input"} => (quitRun => exitApp)
  /\ pc \in {"cmd", "wait", "blocked", "woken", "waited"}
       => (quitRun => exitApp \/ QuitPending)

LEMMA InitQuitInv == Init => QuitInv
  BY DEF Init, QuitInv

LEMMA NextQuitInv ==
  ASSUME ~SpuriousWakeups
  PROVE  IInv /\ QuitInv /\ [Next]_vars => QuitInv'
  <1> SUFFICES ASSUME IInv, QuitInv, [Next]_vars PROVE QuitInv'
    OBVIOUS
  <1> USE DEF IInv, TypeOK, LockInv, ThreadInv, CountInv, DrainInv, InFlight,
              QuitInv, QuitPending, Kinds, Scripts, inputs, modeVars, evVars,
              locks, listener, signalVars, history, None, Main, Event
  <1>1. CASE StartWorkerThreads BY <1>1 DEF StartWorkerThreads
  <1>2. CASE StartupCommandEnds BY <1>2 DEF StartupCommandEnds
  <1>3. CASE ResetExitFlag BY <1>3 DEF ResetExitFlag
  <1>4. CASE CommandString BY <1>4 DEF CommandString
  <1>5. CASE OpenCommandFile BY <1>5 DEF OpenCommandFile
  <1>6. CASE FileLine BY <1>6 DEF FileLine
  <1>7. CASE FileEnds BY <1>7 DEF FileEnds
  <1>8. CASE MainLoopHead BY <1>8 DEF MainLoopHead
  <1>9. CASE ReadLine BY <1>9 DEF ReadLine
  <1>10. CASE LockSession BY <1>10 DEF LockSession
  <1>11. CASE CmdGdbExit BY <1>11 DEF CmdGdbExit
  <1>12. CASE CmdQuit BY <1>12 DEF CmdQuit
  <1>13. CASE CmdSetAsync BY <1>13 DEF CmdSetAsync
  <1>14. CASE CmdResume BY <1>14 DEF CmdResume
  <1>15. CASE CmdEnds BY <1>15 DEF CmdEnds
  <1>16. CASE PeekAtNextEvent BY <1>16 DEF PeekAtNextEvent
  <1>17. CASE SpuriousWakeup BY <1>17 DEF SpuriousWakeup
  <1>18. CASE Relock BY <1>18 DEF Relock
  <1>19. CASE WaitReturns BY <1>19 DEF WaitReturns
  <1>20. CASE DoAppQuit BY <1>20 DEF DoAppQuit
  <1>21. CASE ThreadKill BY <1>21 DEF ThreadKill
  <1>22. CASE ThreadJoin BY <1>22 DEF ThreadJoin
  <1>23. CASE ThreadRun BY <1>23 DEF ThreadRun
  <1>24. CASE ListenerEmpty BY <1>24 DEF ListenerEmpty
  <1>25. CASE GetNextEvent
    <2>1. CASE ~quitRun \/ exitApp
      BY <1>25, <2>1 DEF GetNextEvent
    <2>2. CASE quitRun /\ ~exitApp
      <3>1. pc' = pc /\ pc # "waited" /\ current = None
        BY <1>25 DEF GetNextEvent
      <3>2. current' = Head(queue) /\ current' # None /\ queue' = Tail(queue)
        BY <1>25 DEF GetNextEvent
      <3>3. CASE QuitPending
        <4>1. PICK i \in 1..Len(queue) :
                /\ queue[i] = "quit"
                /\ pc # "cmd" => handled + i <= mark
          BY <3>1, <3>3
        <4>2. CASE i = 1
          BY <1>25, <3>1, <3>2, <4>1, <4>2 DEF GetNextEvent
        <4>3. CASE i > 1
          <5>1. i - 1 \in 1..Len(queue') /\ queue'[i - 1] = "quit"
            BY <3>2, <4>1, <4>3
          <5>2. pc' # "cmd" => handled' + 1 + (i - 1) <= mark'
            BY <1>25, <3>1, <4>1, <4>3 DEF GetNextEvent
          <5>3. QuitPending'
            BY <3>2, <5>1, <5>2
          <5>4. QED
            BY <1>25, <5>3 DEF GetNextEvent
        <4>4. QED
          BY <4>1, <4>2, <4>3
      <3>4. CASE ~QuitPending
        BY <1>25, <2>2, <3>4 DEF GetNextEvent
      <3>5. QED
        BY <3>3, <3>4
    <2>3. QED
      BY <2>1, <2>2
  <1>26. CASE LockForHandling BY <1>26 DEF LockForHandling
  <1>27. CASE HandleEvent BY <1>27 DEF HandleEvent
  <1>28. CASE ThreadAlive BY <1>28 DEF ThreadAlive
  <1>29. CASE ThreadFinish BY <1>29 DEF ThreadFinish
  <1>30. CASE Broadcast BY <1>30 DEF Broadcast
  <1>31. CASE DeliverSignal BY <1>31 DEF DeliverSignal
  <1>32. CASE InterruptEnds BY <1>32 DEF InterruptEnds
  <1>33. CASE Terminated \/ UNCHANGED vars BY <1>33 DEF Terminated, vars
  <1>34. QED
    BY <1>1, <1>2, <1>3, <1>4, <1>5, <1>6, <1>7, <1>8, <1>9, <1>10, <1>11,
       <1>12, <1>13, <1>14, <1>15, <1>16, <1>17, <1>18, <1>19, <1>20, <1>21,
       <1>22, <1>23, <1>24, <1>25, <1>26, <1>27, <1>28, <1>29, <1>30, <1>31,
       <1>32, <1>33 DEF Next, MainNext, EventNext
\* Without spurious wakeups no command is begun after one that quits.
THEOREM QuitFinal ==
  ASSUME ~SpuriousWakeups
  PROVE  Spec => QuitIsFinal
  <1>1. IInv /\ QuitInv /\ [Next]_vars => QuitInv'
    BY NextQuitInv
  <1>2. QuitInv /\ [Next]_vars => [pc # "cmd" /\ pc' = "cmd" => ~quitRun]_vars
    <2> SUFFICES ASSUME QuitInv, Next, pc # "cmd", pc' = "cmd"
                 PROVE  ~quitRun
      BY DEF vars
    <2>1. ~(StartWorkerThreads \/ StartupCommandEnds \/ ResetExitFlag
            \/ CommandString \/ OpenCommandFile \/ FileLine \/ FileEnds
            \/ MainLoopHead \/ ReadLine)
      BY DEF StartWorkerThreads, StartupCommandEnds, ResetExitFlag,
             CommandString, OpenCommandFile, FileLine, FileEnds, MainLoopHead,
             ReadLine
    <2>2. ~(CmdGdbExit \/ CmdQuit \/ CmdSetAsync \/ CmdResume \/ CmdEnds
            \/ PeekAtNextEvent \/ SpuriousWakeup \/ Relock \/ WaitReturns
            \/ DoAppQuit \/ ThreadKill \/ ThreadJoin)
      BY DEF CmdGdbExit, CmdQuit, CmdSetAsync, CmdResume, CmdEnds,
             PeekAtNextEvent, SpuriousWakeup, Relock, WaitReturns, DoAppQuit,
             ThreadKill, ThreadJoin
    <2>3. ~(EventNext \/ Broadcast \/ DeliverSignal \/ InterruptEnds
            \/ Terminated)
      BY DEF EventNext, ThreadRun, ListenerEmpty, GetNextEvent, LockForHandling,
             HandleEvent, ThreadAlive, ThreadFinish, Broadcast, DeliverSignal,
             InterruptEnds, Terminated, vars
    <2>4. LockSession
      BY <2>1, <2>2, <2>3 DEF Next, MainNext
    <2>5. QED
      BY <2>4 DEF LockSession, QuitInv
  <1>3. QED
    BY <1>1, <1>2, InitQuitInv, Invariance, PTL DEF Spec, QuitIsFinal

(***************************************************************************)
(* EventLoop implements Session.                                           *)
(***************************************************************************)

\* Wherever the main thread comes from to its next command, the wait after the
\* last one lies behind it, or the exit flag keeps it from beginning.
DueInv ==
  /\ pc \in {"start", "exe", "reset"} => mark = 0
  /\ pc = "begin" /\ src = "string" => mark = 0
  /\ pc \in {"begin", "input"} => exitApp \/ handled >= mark
  /\ pc \in {"reading", "lock"} => handled >= mark

LEMMA InitDueInv == Init => DueInv
  BY DEF Init, DueInv

LEMMA NextDueInv ==
  ASSUME ~SpuriousWakeups
  PROVE  IInv /\ DueInv /\ [Next]_vars => DueInv'
  <1> SUFFICES ASSUME IInv, DueInv, [Next]_vars PROVE DueInv'
    OBVIOUS
  <1> USE DEF IInv, TypeOK, LockInv, DrainInv, DueInv, inputs, modeVars,
              evVars, locks, listener, signalVars, history, None, Main, Event
  <1>1. CASE StartWorkerThreads BY <1>1 DEF StartWorkerThreads
  <1>2. CASE StartupCommandEnds BY <1>2 DEF StartupCommandEnds
  <1>3. CASE ResetExitFlag BY <1>3 DEF ResetExitFlag
  <1>4. CASE CommandString BY <1>4 DEF CommandString
  <1>5. CASE OpenCommandFile BY <1>5 DEF OpenCommandFile
  <1>6. CASE FileLine BY <1>6 DEF FileLine
  <1>7. CASE FileEnds BY <1>7 DEF FileEnds
  <1>8. CASE MainLoopHead BY <1>8 DEF MainLoopHead
  <1>9. CASE ReadLine BY <1>9 DEF ReadLine
  <1>10. CASE LockSession BY <1>10 DEF LockSession
  <1>11. CASE CmdGdbExit BY <1>11 DEF CmdGdbExit
  <1>12. CASE CmdQuit BY <1>12 DEF CmdQuit
  <1>13. CASE CmdSetAsync BY <1>13 DEF CmdSetAsync
  <1>14. CASE CmdResume BY <1>14 DEF CmdResume
  <1>15. CASE CmdEnds BY <1>15 DEF CmdEnds
  <1>16. CASE PeekAtNextEvent BY <1>16 DEF PeekAtNextEvent
  <1>17. CASE SpuriousWakeup BY <1>17 DEF SpuriousWakeup
  <1>18. CASE Relock BY <1>18 DEF Relock
  <1>19. CASE WaitReturns BY <1>19 DEF WaitReturns
  <1>20. CASE DoAppQuit BY <1>20 DEF DoAppQuit
  <1>21. CASE ThreadKill BY <1>21 DEF ThreadKill
  <1>22. CASE ThreadJoin BY <1>22 DEF ThreadJoin
  <1>23. CASE ThreadRun BY <1>23 DEF ThreadRun
  <1>24. CASE ListenerEmpty BY <1>24 DEF ListenerEmpty
  <1>25. CASE GetNextEvent BY <1>25 DEF GetNextEvent
  <1>26. CASE LockForHandling BY <1>26 DEF LockForHandling
  <1>27. CASE HandleEvent BY <1>27 DEF HandleEvent
  <1>28. CASE ThreadAlive BY <1>28 DEF ThreadAlive
  <1>29. CASE ThreadFinish BY <1>29 DEF ThreadFinish
  <1>30. CASE Broadcast BY <1>30 DEF Broadcast
  <1>31. CASE DeliverSignal BY <1>31 DEF DeliverSignal
  <1>32. CASE InterruptEnds BY <1>32 DEF InterruptEnds
  <1>33. CASE Terminated \/ UNCHANGED vars BY <1>33 DEF Terminated, vars
  <1>34. QED
    BY <1>1, <1>2, <1>3, <1>4, <1>5, <1>6, <1>7, <1>8, <1>9, <1>10, <1>11,
       <1>12, <1>13, <1>14, <1>15, <1>16, <1>17, <1>18, <1>19, <1>20, <1>21,
       <1>22, <1>23, <1>24, <1>25, <1>26, <1>27, <1>28, <1>29, <1>30, <1>31,
       <1>32, <1>33 DEF Next, MainNext, EventNext

\* Who works on the session, by the control points.
LEMMA UsersAre ==
  /\ pc # "cmd" /\ ev # "handle" <=> Users = {}
  /\ pc = "cmd" /\ ev # "handle" => Users = {"command"}
  /\ pc # "cmd" /\ ev = "handle" => Users = {"handler"}
  BY DEF Users

LEMMA UsersAreNext ==
  /\ pc' # "cmd" /\ ev' # "handle" <=> Users' = {}
  /\ pc' = "cmd" /\ ev' # "handle" => Users' = {"command"}
  /\ pc' # "cmd" /\ ev' = "handle" => Users' = {"handler"}
  BY DEF Users

\* The steps of Session, by the control points.
LEMMA SessionSteps ==
  ASSUME IInv,
         \/ /\ pc # "cmd" /\ ev # "handle" /\ pc' = "cmd" /\ ev' # "handle"
            /\ handled >= mark
            /\ UNCHANGED <<sent, handled, mark>>
         \/ /\ pc = "cmd" /\ ev # "handle" /\ pc' # "cmd" /\ ev' # "handle"
            /\ mark' = sent
            /\ UNCHANGED <<sent, handled>>
         \/ /\ pc # "cmd" /\ ev # "handle" /\ pc' # "cmd" /\ ev' = "handle"
            /\ handled < sent
            /\ UNCHANGED <<sent, handled, mark>>
         \/ /\ pc # "cmd" /\ ev = "handle" /\ pc' # "cmd" /\ ev' # "handle"
            /\ handled' = handled + 1
            /\ UNCHANGED <<sent, mark>>
         \/ /\ pc = "cmd" <=> pc' = "cmd"
            /\ ev = "handle" <=> ev' = "handle"
            /\ sent' = sent + 1 \/ UNCHANGED sent
            /\ UNCHANGED <<handled, mark>>
  PROVE  [Promised!Next]_<<Users, sent, handled, mark>>
  <1> USE DEF Promised!Next
  <1>1. CASE /\ pc # "cmd" /\ ev # "handle" /\ pc' = "cmd" /\ ev' # "handle"
             /\ handled >= mark
             /\ UNCHANGED <<sent, handled, mark>>
    BY <1>1, UsersAre, UsersAreNext DEF Promised!CommandBegins
  <1>2. CASE /\ pc = "cmd" /\ ev # "handle" /\ pc' # "cmd" /\ ev' # "handle"
             /\ mark' = sent
             /\ UNCHANGED <<sent, handled>>
    BY <1>2, UsersAre, UsersAreNext DEF Promised!CommandEnds
  <1>3. CASE /\ pc # "cmd" /\ ev # "handle" /\ pc' # "cmd" /\ ev' = "handle"
             /\ handled < sent
             /\ UNCHANGED <<sent, handled, mark>>
    BY <1>3, UsersAre, UsersAreNext DEF Promised!HandlerBegins
  <1>4. CASE /\ pc # "cmd" /\ ev = "handle" /\ pc' # "cmd" /\ ev' # "handle"
             /\ handled' = handled + 1
             /\ UNCHANGED <<sent, mark>>
    BY <1>4, UsersAre, UsersAreNext DEF Promised!HandlerEnds
  <1>5. CASE /\ pc = "cmd" <=> pc' = "cmd"
             /\ ev = "handle" <=> ev' = "handle"
             /\ sent' = sent + 1 \/ UNCHANGED sent
             /\ UNCHANGED <<handled, mark>>
    <2>1. Users' = Users
      BY <1>5 DEF Users
    <2>2. QED
      BY <1>5, <2>1 DEF Promised!Broadcast
  <1>6. QED
    BY <1>1, <1>2, <1>3, <1>4, <1>5

LEMMA SessionStep ==
  IInv /\ DueInv /\ [Next]_vars => [Promised!Next]_<<Users, sent, handled, mark>>
  <1> SUFFICES ASSUME IInv, DueInv, [Next]_vars
               PROVE  [Promised!Next]_<<Users, sent, handled, mark>>
    OBVIOUS
  <1> USE DEF inputs, modeVars, evVars, locks, listener, signalVars, history
  <1>1. CASE LockSession
    <2>1. pc # "cmd" /\ ev # "handle" /\ pc' = "cmd" /\ ev' # "handle"
      BY <1>1 DEF LockSession, IInv, LockInv, None, Event
    <2>2. handled >= mark /\ UNCHANGED <<sent, handled, mark>>
      BY <1>1 DEF LockSession, DueInv
    <2>3. QED
      BY <2>1, <2>2, SessionSteps
  <1>2. CASE CmdEnds
    <2>1. pc = "cmd" /\ ev # "handle" /\ pc' # "cmd" /\ ev' # "handle"
      BY <1>2 DEF CmdEnds, IInv, LockInv, Main, Event
    <2>2. mark' = sent /\ UNCHANGED <<sent, handled>>
      BY <1>2 DEF CmdEnds
    <2>3. QED
      BY <2>1, <2>2, SessionSteps
  <1>3. CASE LockForHandling
    <2>1. pc # "cmd" /\ ev # "handle" /\ pc' # "cmd" /\ ev' = "handle"
      BY <1>3 DEF LockForHandling, IInv, LockInv, None, Main
    <2>2. handled < sent
      BY <1>3 DEF LockForHandling, IInv, TypeOK, LockInv, CountInv, InFlight
    <2>3. UNCHANGED <<sent, handled, mark>>
      BY <1>3 DEF LockForHandling
    <2>4. QED
      BY <2>1, <2>2, <2>3, SessionSteps
  <1>4. CASE HandleEvent
    <2>1. pc # "cmd" /\ ev = "handle" /\ pc' # "cmd" /\ ev' # "handle"
      BY <1>4 DEF HandleEvent, IInv, LockInv, Main, Event
    <2>2. handled' = handled + 1 /\ UNCHANGED <<sent, mark>>
      BY <1>4 DEF HandleEvent
    <2>3. QED
      BY <2>1, <2>2, SessionSteps
  <1>5. ASSUME /\ pc = "cmd" <=> pc' = "cmd"
               /\ ev = "handle" <=> ev' = "handle"
               /\ sent' = sent + 1 \/ UNCHANGED sent
               /\ UNCHANGED <<handled, mark>>
        PROVE  [Promised!Next]_<<Users, sent, handled, mark>>
    BY <1>5, SessionSteps
  <1>6. CASE StartWorkerThreads \/ StartupCommandEnds \/ ResetExitFlag
             \/ CommandString \/ OpenCommandFile \/ FileLine \/ FileEnds
             \/ MainLoopHead \/ ReadLine
    BY <1>5, <1>6 DEF StartWorkerThreads, StartupCommandEnds, ResetExitFlag,
                      CommandString, OpenCommandFile, FileLine, FileEnds,
                      MainLoopHead, ReadLine, IInv, ThreadInv
  <1>7. CASE CmdGdbExit \/ CmdQuit \/ CmdSetAsync \/ CmdResume
    BY <1>5, <1>7 DEF CmdGdbExit, CmdQuit, CmdSetAsync, CmdResume
  <1>8. CASE PeekAtNextEvent \/ SpuriousWakeup \/ Relock \/ WaitReturns
             \/ DoAppQuit \/ ThreadKill \/ ThreadJoin
    BY <1>5, <1>8 DEF PeekAtNextEvent, SpuriousWakeup, Relock, WaitReturns,
                      DoAppQuit, ThreadKill, ThreadJoin
  <1>9. CASE ThreadRun \/ ListenerEmpty \/ GetNextEvent \/ ThreadAlive
             \/ ThreadFinish
    BY <1>5, <1>9 DEF ThreadRun, ListenerEmpty, GetNextEvent, ThreadAlive,
                      ThreadFinish
  <1>10. CASE Broadcast \/ DeliverSignal \/ InterruptEnds
    BY <1>5, <1>10 DEF Broadcast, DeliverSignal, InterruptEnds
  <1>11. CASE Terminated \/ UNCHANGED vars
    BY <1>5, <1>11 DEF Terminated, vars
  <1>12. QED
    BY <1>1, <1>2, <1>3, <1>4, <1>6, <1>7, <1>8, <1>9, <1>10, <1>11
       DEF Next, MainNext, EventNext

\* The two threads implement Session when condition variables do not wake by
\* themselves: commands and handlers have the session to themselves, and no
\* command begins before the events from before the last prompt are handled
\* (MIDriver.cpp:580, 803; MICmnLLDBDebugger.cpp:260).
THEOREM SessionIsKept ==
  ASSUME ~SpuriousWakeups
  PROVE  Spec => SessionKept
  <1>1. Init => Promised!Init
    BY DEF Init, Promised!Init, Users
  <1>2. IInv /\ DueInv /\ [Next]_vars => DueInv'
    BY NextDueInv
  <1>3. QED
    BY <1>1, <1>2, InitDueInv, Invariance, SessionStep, PTL
       DEF Spec, SessionKept, Promised!Spec

=============================================================================
