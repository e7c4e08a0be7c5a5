----------------------------- MODULE Lifecycle -----------------------------
(***************************************************************************)
(* Start-up and shutdown of lldb-mi: the singletons ("modules") that count *)
(* their clients, main() of MIDriverMain.cpp that initialises the driver   *)
(* manager and the driver, and the destruction of the singletons after     *)
(* main has returned, in the reverse order of their construction.          *)
(*                                                                         *)
(* An Initialize or a Shutdown in progress is a frame of a call stack.     *)
(* Initialize adds a client, returns at once if the module is initialised, *)
(* and otherwise initialises the modules it uses, one after the other,     *)
(* until one fails, and then itself.  Shutdown takes a client away,        *)
(* returns at once if there are more or the module is not initialised, and *)
(* otherwise undoes itself and then releases what it uses, in reverse.     *)
(***************************************************************************)
EXTENDS Integers, Sequences, SequencesExt

VARIABLES
    main,     \* where main() is
    stack,    \* the calls of Initialize and Shutdown in progress
    refs,     \* m_clientUsageRefCnt of each module
    inited,   \* m_bInitialized of each module
    built,    \* the singletons constructed and not destroyed, oldest first
    startOk,  \* DriverSystemInit() succeeded: the driver is registered
    medium,   \* the log file is registered with the log
    lldb,     \* the SBDebugger: "none", "made" or "gone"
    thread,   \* the event thread: "none", "active" or "joined"
    ghosts    \* history: the destroyed singletons a call has reached

vars == <<main, stack, refs, inited, built, startOk, medium, lldb, thread, ghosts>>

Module == {"Log", "Resources", "Stdout", "Stderr", "Stdin", "ThreadMgr",
           "CmdMgr", "Interpreter", "Factory", "Invoker",
           "Debugger", "HandleEvents", "SessionInfo", "Driver", "DriverMgr"}

\* The modules that the Initialize of each names, in its order; every
\* Shutdown names them in reverse.
Uses == [m \in Module |->
    CASE m = "Driver"    -> <<"Log", "Stdout", "Stderr", "Resources", "ThreadMgr",
                              "Stdin", "CmdMgr", "Debugger">>
      [] m = "CmdMgr"    -> <<"Log", "Resources", "Interpreter", "Factory", "Invoker">>
      [] m = "Debugger"  -> <<"Log", "Resources", "ThreadMgr", "HandleEvents", "SessionInfo">>
      [] m \in {"DriverMgr", "ThreadMgr", "Stdin"} -> <<"Log", "Resources">>
      [] OTHER           -> << >>]

Add(b, x) == IF Contains(b, x) THEN b ELSE Append(b, x)

\* Instance(): the singletons built once m has been asked for.  Every
\* constructor takes the log, some take others.
Instance(b, m) ==
    LET log == Add(b, "Log")
    IN  CASE m = "Driver"  -> Add(Add(Add(Add(log, "Stdin"), "Debugger"), "Stdout"), "Driver")
          [] m = "CmdMgr"  -> Add(Add(Add(Add(Add(log, "Factory"), "Interpreter"),
                                          "Stdout"), "Invoker"), "CmdMgr")
          [] m = "LogFile" -> Add(Add(log, "Resources"), "LogFile")
          [] OTHER         -> Add(log, m)

Destroyed(m) == main = "static" /\ ~Contains(built, m)

----------------------------------------------------------------------------
(* The call stack. *)

Frame(m, op, left) == [mod |-> m, op |-> op, left |-> left, own |-> FALSE, ok |-> TRUE]

InFrame(op) == stack # << >> /\ Last(stack).op = op

\* The caller goes on after a call; a failed one makes it skip the rest.
Return(ok) ==
    LET below == Front(stack)
    IN  stack' = IF ok \/ below = << >> THEN below
                 ELSE Append(Front(below),
                             [Last(below) EXCEPT !.left = << >>, !.ok = FALSE])

\* The top frame has made its next call, which continues in frames.
AfterCall(frames) == Front(stack) \o <<[Last(stack) EXCEPT !.left = Tail(@)]>> \o frames

\* (mutant: the driver forgets the log, which it initialised first)
ReleasesNoLog(m) ==
    (IF m = "DriverMgr" /\ startOk THEN <<"Driver">> ELSE << >>)
        \o Reverse(IF m = "Driver" THEN Tail(Uses[m]) ELSE Uses[m])

\* What a Shutdown releases.  The driver manager first shuts the registered
\* driver down (UnregisterDriverAll).
Releases(m) ==
    (IF m = "DriverMgr" /\ startOk THEN <<"Driver">> ELSE << >>) \o Reverse(Uses[m])

\* (mutant: the clients left are not looked at)
LastClientIgnored(m, n) == inited[m]

\* (mutant: one client too many is left)
LastClientMissed(m, n) == n < 0 /\ inited[m]

\* Whether a Shutdown of m goes on after it has left n clients.
LastClientGone(m, n) == n <= 0 /\ inited[m]

----------------------------------------------------------------------------
(* Initialize. *)

\* ModuleInit<T>: the next module the top one uses.
InitCall ==
    /\ InFrame("init") /\ Last(stack).ok /\ Last(stack).left # << >>
    /\ LET m == Head(Last(stack).left)
       IN  /\ built' = Instance(built, m)
           /\ refs' = [refs EXCEPT ![m] = @ + 1]
           /\ stack' = AfterCall(IF inited[m] THEN << >> ELSE <<Frame(m, "init", Uses[m])>>)
    /\ UNCHANGED <<main, inited, startOk, medium, lldb, thread, ghosts>>

\* The module on top has initialised what it uses and does its own part.
Initialising(m) ==
    /\ InFrame("init") /\ Last(stack).ok /\ Last(stack).left = << >>
    /\ Last(stack).mod = m

\* CMICmnLog::Initialize registers the log file.
InitLog ==
    /\ Initialising("Log")
    /\ built' = Instance(built, "LogFile")
    /\ inited' = [inited EXCEPT !["Log"] = TRUE]
    /\ medium' = TRUE
    /\ Return(TRUE)
    /\ UNCHANGED <<main, refs, startOk, lldb, thread, ghosts>>

\* CMICmnLLDBDebugger::Initialize: LLDB may give no debugger, or no listener
\* or no summaries for the debugger it gave.
InitDebugger ==
    /\ Initialising("Debugger")
    /\ \E outcome \in {"done", "noDebugger", "notSetUp"} :
        /\ lldb' = IF outcome = "noDebugger" THEN lldb ELSE "made"
        /\ inited' = [inited EXCEPT !["Debugger"] = (outcome = "done")]
        /\ Return(outcome = "done")
    /\ UNCHANGED <<main, refs, built, startOk, medium, thread, ghosts>>

\* The other modules: their own part sets members of theirs.
InitModule ==
    /\ \E m \in Module \ {"Log", "Debugger"} :
        /\ Initialising(m)
        /\ inited' = [inited EXCEPT ![m] = TRUE]
    /\ Return(TRUE)
    /\ UNCHANGED <<main, refs, built, startOk, medium, lldb, thread, ghosts>>

\* A module whose Initialize skipped the rest: what it has initialised so
\* far stays as it is.
InitFails ==
    /\ InFrame("init") /\ ~Last(stack).ok
    /\ inited' = [inited EXCEPT ![Last(stack).mod] = FALSE]
    /\ Return(FALSE)
    /\ UNCHANGED <<main, refs, built, startOk, medium, lldb, thread, ghosts>>

----------------------------------------------------------------------------
(* Shutdown. *)

\* The singletons that the module's own part of Shutdown reaches.
Reaches(m) ==
    CASE m = "Log"      -> IF medium THEN {"LogFile"} ELSE {}
      [] m = "Invoker"  -> {"CmdMgr"}
      [] m = "Debugger" -> {"SessionInfo"}
      [] OTHER          -> {}

\* The module's own part.  The driver keeps its flag, and so does the log,
\* whose flag becomes the success of UnregisterMediumAll.
ShutOwn ==
    /\ InFrame("down") /\ ~Last(stack).own
    /\ LET m == Last(stack).mod
       IN  /\ inited' = [inited EXCEPT ![m] = m \in {"Log", "Driver"}]
           /\ medium' = (medium /\ m # "Log")
           /\ lldb' = IF m = "Debugger" THEN "gone" ELSE lldb
           /\ thread' = IF m = "ThreadMgr" /\ thread = "active" THEN "joined" ELSE thread
           /\ ghosts' = ghosts \cup {x \in Reaches(m) : Destroyed(x)}
    /\ stack' = Append(Front(stack), [Last(stack) EXCEPT !.own = TRUE])
    /\ UNCHANGED <<main, refs, built, startOk>>

\* ModuleShutdown<T>: the next module the top one releases.
ShutCall ==
    /\ InFrame("down") /\ Last(stack).own /\ Last(stack).left # << >>
    /\ LET m == Head(Last(stack).left)
       IN  /\ refs' = [refs EXCEPT ![m] = @ - 1]
           /\ stack' = AfterCall(IF LastClientGone(m, refs[m] - 1)
                                 THEN <<Frame(m, "down", Releases(m))>> ELSE << >>)
           /\ ghosts' = ghosts \cup {x \in {m} : Destroyed(x)}
    /\ UNCHANGED <<main, inited, built, startOk, medium, lldb, thread>>

\* A Shutdown returns; one called by a destructor ends the singleton.
ShutReturns ==
    /\ InFrame("down") /\ Last(stack).own /\ Last(stack).left = << >>
    /\ Return(TRUE)
    /\ built' = IF main = "static" /\ Len(stack) = 1 THEN Front(built) ELSE built
    /\ UNCHANGED <<main, refs, inited, startOk, medium, lldb, thread, ghosts>>

----------------------------------------------------------------------------
(* main() *)

Main(at) == main = at /\ stack = << >>

\* DriverSystemInit: both singletons are constructed before the manager,
\* which counts its client too, initialises anything.
StartManager ==
    /\ Main("start")
    /\ main' = "register"
    /\ built' = Instance(Instance(built, "Driver"), "DriverMgr")
    /\ refs' = [refs EXCEPT !["DriverMgr"] = @ + 1]
    /\ stack' = <<Frame("DriverMgr", "init", Uses["DriverMgr"])>>
    /\ UNCHANGED <<inited, startOk, medium, lldb, thread, ghosts>>

\* RegisterDriver initialises the driver.
RegisterDriver ==
    /\ Main("register")
    /\ main' = "registered"
    /\ refs' = [refs EXCEPT !["Driver"] = @ + 1]
    /\ stack' = <<Frame("Driver", "init", Uses["Driver"])>>
    /\ UNCHANGED <<inited, built, startOk, medium, lldb, thread, ghosts>>

\* The driver is put in the manager's map when its Initialize succeeds.
DriverRegistered ==
    /\ Main("registered")
    /\ startOk' = inited["Driver"]
    /\ main' = IF startOk' THEN "parse" ELSE "down"
    /\ UNCHANGED <<stack, refs, inited, built, medium, lldb, thread, ghosts>>

\* The arguments ask for the version or help, or are wrong: no main loop.
ArgumentsExit ==
    /\ Main("parse")
    /\ main' = "down"
    /\ UNCHANGED <<stack, refs, inited, built, startOk, medium, lldb, thread, ghosts>>

\* DoMainLoop starts the event thread (StartWorkerThreads) ...
MainLoopBegins ==
    /\ Main("parse")
    /\ main' = "loop"
    /\ thread' = "active"
    /\ UNCHANGED <<stack, refs, inited, built, startOk, medium, lldb, ghosts>>

\* ... and joins it at its end (StopWorkerThreads).
MainLoopEnds ==
    /\ Main("loop")
    /\ main' = "down"
    /\ thread' = "joined"
    /\ UNCHANGED <<stack, refs, inited, built, startOk, medium, lldb, ghosts>>

\* DriverSystemShutdown: the manager's Shutdown counts no clients.  main()
\* returns after it.
ShutManager ==
    /\ Main("down")
    /\ main' = "ended"
    /\ stack' = <<Frame("DriverMgr", "down", Releases("DriverMgr"))>>
    /\ UNCHANGED <<refs, inited, built, startOk, medium, lldb, thread, ghosts>>

MainReturns ==
    /\ Main("ended")
    /\ main' = "static"
    /\ UNCHANGED <<stack, refs, inited, built, startOk, medium, lldb, thread, ghosts>>

\* The newest singleton is destroyed.  All but three destructors call
\* Shutdown; the manager's counts no clients and finds itself shut down.
Destroy ==
    /\ Main("static") /\ built # << >>
    /\ LET m == Last(built)
           counts == m \notin {"Driver", "DriverMgr", "Resources", "LogFile"}
           works == counts /\ LastClientGone(m, refs[m] - 1)
       IN  /\ refs' = IF counts THEN [refs EXCEPT ![m] = @ - 1] ELSE refs
           /\ stack' = IF works THEN <<Frame(m, "down", Releases(m))>> ELSE << >>
           /\ built' = IF works THEN built ELSE Front(built)
    /\ UNCHANGED <<main, inited, startOk, medium, lldb, thread, ghosts>>

Ended == Main("static") /\ built = << >> /\ UNCHANGED vars

----------------------------------------------------------------------------
\* Before main() the static members of CMIDriver read resource strings, and the
\* first string read initialises the resources (GetStringFromResource) for a
\* client that never gives them back.
Init ==
    /\ main = "start"
    /\ stack = << >>
    /\ refs = [m \in Module |-> IF m = "Resources" THEN 1 ELSE 0]
    /\ inited = [m \in Module |-> m = "Resources"]
    /\ built = Instance(<< >>, "Resources")
    /\ startOk = FALSE
    /\ medium = FALSE
    /\ lldb = "none"
    /\ thread = "none"
    /\ ghosts = {}

Initialize == InitCall \/ InitLog \/ InitDebugger \/ InitModule \/ InitFails
Shutdown == ShutOwn \/ ShutCall \/ ShutReturns
MainStep ==
    \/ StartManager \/ RegisterDriver \/ DriverRegistered \/ ArgumentsExit
    \/ MainLoopBegins \/ MainLoopEnds \/ ShutManager \/ MainReturns \/ Destroy \/ Ended

Next == Initialize \/ Shutdown \/ MainStep

Spec == Init /\ [][Next]_vars

----------------------------------------------------------------------------
(* Properties *)

Singleton == Module \cup {"LogFile"}

TypeOK ==
    /\ main \in {"start", "register", "registered", "parse", "loop", "down", "ended", "static"}
    /\ \A i \in DOMAIN stack : stack[i].mod \in Module /\ stack[i].op \in {"init", "down"}
    /\ refs \in [Module -> Int]
    /\ inited \in [Module -> BOOLEAN]
    /\ \A i \in DOMAIN built : built[i] \in Singleton
    /\ startOk \in BOOLEAN /\ medium \in BOOLEAN
    /\ lldb \in {"none", "made", "gone"}
    /\ thread \in {"none", "active", "joined"}
    /\ ghosts \subseteq Singleton

\* A module that has not begun to shut down, nor been told to by its last
\* client.
Up(m) == inited[m] /\ refs[m] > 0 /\ ~\E i \in DOMAIN stack : stack[i].mod = m /\ stack[i].op = "down"

\* While a module is up, every module it uses is up, and LLDB's debugger is
\* there for the module that wraps it and for the event thread: whichever
\* module fails to start, and in whatever order the clients leave.
UsersGoFirst ==
    /\ \A m \in Module : Up(m) => \A u \in ToSet(Uses[m]) : inited[u] /\ refs[u] > 0
    /\ Up("Debugger") \/ thread = "active" => lldb = "made"

\* A run whose start succeeded leaves nothing behind when the driver manager
\* has been shut down: no module has a client, but for the one that the
\* resources gained by themselves; the log file is closed and LLDB's debugger
\* destroyed, after the event thread was joined.
TornDown ==
    Main("ended") /\ startOk =>
        /\ \A m \in Module \ {"DriverMgr"} : refs[m] = (IF m = "Resources" THEN 1 ELSE 0)
        /\ \A m \in Module \ {"Log", "Driver", "Resources"} : ~inited[m]
        /\ ~medium /\ lldb = "gone" /\ thread # "active"

\* After a start that succeeded no destructor reaches a singleton destroyed
\* before.  (After one that failed, the destructors of modules that were
\* never shut down do the work of Shutdown, some of it too late.)
DestroyedUnused == ghosts # {} => ~startOk

=============================================================================
