--------------------------- MODULE LifecycleProofs ---------------------------
(***************************************************************************)
(* A module outlives the modules that use it, and a run that has started   *)
(* leaves nothing behind.  The argument counts: the clients a module has   *)
(* are the modules that hold it, those that have initialised it and have   *)
(* not released it, be they at rest or in the call of Initialize or of     *)
(* Shutdown that is on the stack.  What the argument needs of the graph of *)
(* modules is in the lemmas of the next section.                           *)
(***************************************************************************)
EXTENDS Lifecycle, FiniteSets, FiniteSetTheorems, SequenceTheorems, TLAPS

Distinct(s) == \A i, j \in 1..Len(s) : s[i] = s[j] => i = j

\* A module uses modules of lower rank.
Rank(m) == CASE m = "DriverMgr" -> 4
             [] m = "Driver" -> 3
             [] m \in {"CmdMgr", "Debugger"} -> 2
             [] m \in {"ThreadMgr", "Stdin"} -> 1
             [] OTHER -> 0

\* What the Shutdown of m releases.
Needs(m, ok) == ToSet(Uses[m]) \cup (IF m = "DriverMgr" /\ ok THEN {"Driver"} ELSE {})

\* The driver and its manager are counted by main() and not by clients.
Top == {"Driver", "DriverMgr"}

FrameType == [mod : Module, op : {"init", "down"}, left : Seq(Module),
              own : BOOLEAN, ok : BOOLEAN]

(***************************************************************************)
(* The parts of the invariant, of a stack s, counters r and flags d.       *)
(***************************************************************************)

FrameOK(f, st) ==
  /\ Distinct(f.left)
  /\ ToSet(f.left) \subseteq Needs(f.mod, st)
  /\ f.op = "init" => ~st /\ ~f.own
  /\ f.op = "down" => f.ok
  /\ f.op = "down" /\ ~f.own => ToSet(f.left) = Needs(f.mod, st)
  /\ f.op = "init" /\ f.mod = "Driver" /\ f.left # << >> => f.left[Len(f.left)] = "Debugger"
  /\ ~f.ok => f.mod = "Driver" /\ f.left = << >>

\* f has called g.
Called(f, g, st) ==
  /\ g.op = f.op
  /\ g.mod \in Needs(f.mod, st) \ ToSet(f.left)
  /\ f.ok
  /\ f.op = "down" => f.own

StackOK(s, st) ==
  /\ s \in Seq(FrameType)
  /\ \A i \in 1..Len(s) : FrameOK(s[i], st)
  /\ \A i \in 1..Len(s) : i + 1 \in 1..Len(s) => Called(s[i], s[i+1], st)
  /\ \A i, j \in 1..Len(s) : i < j => Rank(s[j].mod) < Rank(s[i].mod)

Has(s, m) == \E i \in 1..Len(s) : s[i].mod = m

\* The module of frame f holds u.
Keeps(f, u) == IF f.op = "init" THEN u \notin ToSet(f.left)
                                ELSE ~f.own \/ u \in ToSet(f.left)

Kept(s, m, u) == \E i \in 1..Len(s) : s[i].mod = m /\ Keeps(s[i], u)

\* A module that is not on the stack holds all that it uses or nothing.
Alive(r, d, m) == IF m = "DriverMgr" THEN d[m] ELSE r[m] > 0

Holds(s, r, d, m, u) == IF Has(s, m) THEN Kept(s, m, u) ELSE Alive(r, d, m)

Clients(s, r, d, u) == {m \in Module : u \in ToSet(Uses[m]) /\ Holds(s, r, d, m, u)}

\* The client of the resources that never gives them back.
Extra(u) == IF u = "Resources" THEN 1 ELSE 0

\* A singleton whose destructor has taken a client away.
Counting(u) == u \notin {"Driver", "DriverMgr", "Resources", "LogFile"}
Stolen(s, b, u) ==
  IF Counting(u) /\ (~Contains(b, u) \/ (s # << >> /\ s[1].mod = u)) THEN 1 ELSE 0

CountInv ==
  \A u \in Module \ Top :
    LET n == Cardinality(Clients(stack, refs, inited, u)) + Extra(u)
    IN  IF main = "static" THEN refs[u] >= n - Stolen(stack, built, u) ELSE refs[u] = n

\* Initialize of the driver has failed, or is about to.
Failed ==
  /\ ~startOk
  /\ \/ main \in {"down", "ended", "static"}
     \/ main = "registered" /\ ~inited["Driver"] /\ (stack = << >> \/ ~stack[1].ok)

Bottom(m) == stack # << >> => stack[1].mod = m

\* main() and the calls it has made.
MainInv ==
  /\ \A i \in 1..Len(stack) :
       stack[i].op = IF main \in {"register", "registered"} THEN "init" ELSE "down"
  /\ main \in {"start", "parse", "loop", "down"} => stack = << >>
  /\ main \in {"register", "ended"} => Bottom("DriverMgr")
  /\ main = "registered" => Bottom("Driver")
  /\ main = "static" /\ stack # << >> =>
       built # << >> /\ stack[1].mod = built[Len(built)] /\ Counting(stack[1].mod)
  /\ thread = "active" <=> main = "loop"
  /\ startOk => main \in {"parse", "loop", "down", "ended", "static"}
  /\ main \in {"parse", "loop"} => startOk
  /\ main # "static" => ghosts = {}

\* main() counts as the client of the driver, until UnregisterDriverAll.
DriverCounted ==
  \/ main \in {"registered", "parse", "loop", "down"}
  \/ main \in {"ended", "static"} /\ ~startOk
  \/ main = "ended" /\ Kept(stack, "DriverMgr", "Driver")

\* The counters and the flags of the driver and its manager.
TopInv ==
  /\ refs["Driver"] = IF DriverCounted THEN 1 ELSE 0
  /\ main = "start" => ~inited["DriverMgr"]
  /\ main \in {"register", "ended"} /\ stack = << >> =>
       (inited["DriverMgr"] <=> main = "register")
  /\ main \in {"registered", "parse", "loop", "down"} => inited["DriverMgr"]
  /\ main = "static" => ~inited["DriverMgr"]
  /\ main \in {"start", "register"} => ~inited["Driver"]
  /\ main = "registered" /\ stack # << >> => ~inited["Driver"]
  /\ startOk => inited["Driver"]
  /\ ~startOk /\ main \in {"down", "ended", "static"} => ~inited["Driver"]

\* A module on the stack.
FrameInv ==
  \A i \in 1..Len(stack) :
    LET m == stack[i].mod
    IN  /\ stack[i].op = "init" => ~inited[m] /\ (i > 1 => refs[m] = 1)
        /\ stack[i].op = "down" /\ m # "DriverMgr" => refs[m] <= 0
        /\ stack[i].op = "down" /\ stack[i].own => ~inited[m] \/ m \in {"Log", "Driver"}

\* A module at rest.
RestInv ==
  \A m \in Module : ~Has(stack, m) =>
    /\ refs[m] > 0 => inited[m] \/ m = "DriverMgr" \/ (m \in {"Debugger", "Driver"} /\ Failed)
    /\ inited[m] /\ m \notin Top \cup {"Log"} => refs[m] > 0

\* Until the log is there: it comes first.
EarlyInv ==
  ~inited["Log"] =>
    /\ ~medium
    /\ main \in {"start", "register"}
    /\ main = "register" =>
         /\ Len(stack) \in {1, 2}
         /\ stack[1].left = IF Len(stack) = 1 THEN <<"Log", "Resources">> ELSE <<"Resources">>
         /\ Len(stack) = 2 => stack[2].mod = "Log"

DebuggerInv ==
  /\ inited["Debugger"] => lldb = "made"
  /\ Failed => ~inited["Debugger"] /\ ~inited["Driver"]
  /\ main \in {"parse", "loop"} => inited["Debugger"]
  /\ startOk => inited["Debugger"] \/ lldb = "gone"

MediumInv ==
  medium => \/ main = "static" \/ refs["Log"] > 0
            \/ \E i \in 1..Len(stack) : stack[i].mod = "Log" /\ stack[i].op = "down" /\ ~stack[i].own

\* The singletons that the interpreter's manager uses are older than it.
Older(b) ==
  \A i \in 1..Len(b) : b[i] = "CmdMgr" =>
    \A u \in {"Factory", "Interpreter", "Invoker"} : \E j \in 1..(i-1) : b[j] = u
BuiltOK(b) == b \in Seq(Singleton) /\ Distinct(b) /\ Older(b)

BuiltInv ==
  /\ BuiltOK(built)
  /\ refs["CmdMgr"] <= 1
  /\ refs["CmdMgr"] > 0 => Contains(built, "CmdMgr")

\* What is left when main() of a run that has started returns.
LeftInv ==
  main = "static" /\ startOk =>
    /\ ghosts = {} /\ ~medium
    /\ \A m \in Module \ {"Resources", "DriverMgr"} : refs[m] <= 0
    /\ \A m \in Module \ {"Log", "Driver", "Resources"} : ~inited[m]
    /\ stack # << >> => Len(stack) = 1 /\ stack[1].mod = "Log" /\ stack[1].left = << >>

TypeInv ==
  /\ main \in {"start", "register", "registered", "parse", "loop", "down", "ended", "static"}
  /\ refs \in [Module -> Int] /\ inited \in [Module -> BOOLEAN]
  /\ startOk \in BOOLEAN /\ medium \in BOOLEAN
  /\ lldb \in {"none", "made", "gone"}
  /\ thread \in {"none", "active", "joined"}
  /\ ghosts \subseteq Singleton

IInv == /\ TypeInv /\ StackOK(stack, startOk) /\ CountInv /\ MainInv /\ TopInv /\ FrameInv
        /\ RestInv /\ EarlyInv /\ DebuggerInv /\ MediumInv /\ BuiltInv /\ LeftInv

(***************************************************************************)
(* Sequences and sets.                                                     *)
(***************************************************************************)

\* The elements of a sequence.
LEMMA SetOfSeq ==
  ASSUME NEW S, NEW s \in Seq(S)
  PROVE  /\ ToSet(s) = {s[i] : i \in 1..Len(s)}
         /\ ToSet(s) \subseteq S
         /\ s = << >> <=> ToSet(s) = {}
<1>1. Len(s) \in Nat /\ DOMAIN s = 1..Len(s) /\ \A i \in 1..Len(s) : s[i] \in S
  BY LenProperties, ElementOfSeq
<1>2. s = << >> <=> Len(s) = 0
  BY <1>1, EmptySeq
<1>3. ToSet(s) = {s[i] : i \in 1..Len(s)}
  BY <1>1 DEF ToSet
<1>4. ToSet(s) \subseteq S
  BY <1>1, <1>3
<1>5. s = << >> => ToSet(s) = {}
  BY <1>1, <1>2, <1>3
<1>6. s # << >> => s[1] \in ToSet(s)
  BY <1>1, <1>2, <1>3
<1> QED BY <1>3, <1>4, <1>5, <1>6

\* A sequence without repetitions loses its head.
LEMMA TailOfDistinct ==
  ASSUME NEW S, NEW s \in Seq(S), s # << >>, Distinct(s)
  PROVE  /\ Tail(s) \in Seq(S) /\ Distinct(Tail(s))
         /\ ToSet(Tail(s)) = ToSet(s) \ {Head(s)}
         /\ Head(s) \in ToSet(s) /\ Head(s) \in S
         /\ Tail(s) # << >> => Tail(s)[Len(Tail(s))] = s[Len(s)]
<1>1. /\ Tail(s) \in Seq(S) /\ Len(Tail(s)) = Len(s) - 1 /\ Head(s) \in S
      /\ \A i \in 1..Len(Tail(s)) : Tail(s)[i] = s[i+1]
  BY HeadTailProperties
<1>2. Len(s) \in Nat /\ Len(s) # 0 /\ Head(s) = s[1]
  BY EmptySeq, LenProperties, SeqEqual
<1>3. ToSet(s) = {s[i] : i \in 1..Len(s)} /\ ToSet(Tail(s)) = {Tail(s)[i] : i \in 1..Len(Tail(s))}
  BY <1>1, SetOfSeq
<1>4. Distinct(Tail(s))
  BY <1>1, <1>2 DEF Distinct
<1>5. ToSet(Tail(s)) = ToSet(s) \ {Head(s)}
  <2>1. ASSUME NEW x \in ToSet(Tail(s)) PROVE x \in ToSet(s) \ {Head(s)}
    <3>1. PICK i \in 1..Len(Tail(s)) : x = Tail(s)[i]
      BY <1>3
    <3>2. i + 1 \in 1..Len(s) /\ i + 1 # 1 /\ x = s[i+1]
      BY <1>1, <1>2, <3>1
    <3> QED BY <1>2, <1>3, <3>2 DEF Distinct
  <2>2. ASSUME NEW x \in ToSet(s), x # Head(s) PROVE x \in ToSet(Tail(s))
    <3>1. PICK i \in 1..Len(s) : x = s[i]
      BY <1>3
    <3>2. i - 1 \in 1..Len(Tail(s)) /\ Tail(s)[i-1] = s[(i-1)+1] /\ (i-1)+1 = i
      BY <1>1, <1>2, <2>2, <3>1
    <3> QED BY <1>3, <3>1, <3>2
  <2> QED BY <2>1, <2>2
<1>6. ASSUME Tail(s) # << >> PROVE Tail(s)[Len(Tail(s))] = s[Len(s)]
  <2>1. Len(Tail(s)) \in 1..Len(Tail(s))
    BY <1>1, <1>6, EmptySeq, LenProperties, SeqEqual
  <2> QED BY <1>1, <1>2, <2>1
<1> QED BY <1>1, <1>2, <1>3, <1>4, <1>5, <1>6

\* ... or is turned round.
LEMMA ReverseOfDistinct ==
  ASSUME NEW S, NEW s \in Seq(S), Distinct(s)
  PROVE  /\ Reverse(s) \in Seq(S) /\ Distinct(Reverse(s))
         /\ ToSet(Reverse(s)) = ToSet(s)
<1>1. Len(s) \in Nat /\ \A i \in 1..Len(s) : s[i] \in S
  BY LenProperties, ElementOfSeq
<1>2. Reverse(s) \in Seq(S) /\ Len(Reverse(s)) = Len(s)
  BY <1>1 DEF Reverse
<1>3. \A i \in 1..Len(s) : Reverse(s)[i] = s[(Len(s) - i) + 1] /\ (Len(s) - i) + 1 \in 1..Len(s)
  BY <1>1 DEF Reverse
<1>4. \A i \in 1..Len(s) : (Len(s) - i) + 1 \in 1..Len(s) /\ (Len(s) - ((Len(s) - i) + 1)) + 1 = i
  BY <1>1
<1>5. Distinct(Reverse(s))
  BY <1>1, <1>2, <1>3, <1>4 DEF Distinct
<1>6. ToSet(Reverse(s)) = {Reverse(s)[i] : i \in 1..Len(s)} /\ ToSet(s) = {s[i] : i \in 1..Len(s)}
  BY <1>2, SetOfSeq
<1>7. ASSUME NEW x PROVE x \in ToSet(s) <=> x \in ToSet(Reverse(s))
  <2>1. ASSUME NEW i \in 1..Len(s) PROVE s[i] = Reverse(s)[(Len(s) - i) + 1]
    BY <1>3, <1>4
  <2> QED BY <1>3, <1>4, <1>6, <2>1
<1> QED BY <1>2, <1>5, <1>7

\* A stack without its last element.
LEMMA FrontAndTop ==
  ASSUME NEW S, NEW s \in Seq(S), s # << >>
  PROVE  /\ Len(s) \in Nat \ {0}
         /\ Last(s) = s[Len(s)] /\ Last(s) \in S
         /\ Front(s) \in Seq(S) /\ Len(Front(s)) = Len(s) - 1
         /\ \A i \in 1..(Len(s) - 1) : Front(s)[i] = s[i]
<1>1. Len(s) \in Nat \ {0} /\ \A i \in 1..Len(s) : s[i] \in S
  BY EmptySeq, ElementOfSeq
<1>2. \A i \in 1..(Len(s) - 1) : s[i] \in S
  BY <1>1
<1>3. /\ SubSeq(s, 1, Len(s) - 1) \in Seq(S)
      /\ Len(SubSeq(s, 1, Len(s) - 1)) = Len(s) - 1
      /\ \A i \in 1..(Len(s) - 1) : SubSeq(s, 1, Len(s) - 1)[i] = s[i]
  <2>1. (Len(s) - 1) - 1 + 1 = Len(s) - 1 /\ \A i \in 1..(Len(s)-1) : 1 + i - 1 = i
    BY <1>1
  <2>2. Len(s) - 1 \in Int /\ 1 \in Int
    BY <1>1
  <2>3. /\ SubSeq(s, 1, Len(s) - 1) \in Seq(S)
        /\ Len(SubSeq(s, 1, Len(s) - 1)) = IF 1 <= Len(s) - 1 THEN (Len(s) - 1) - 1 + 1 ELSE 0
        /\ \A i \in 1..((Len(s) - 1) - 1 + 1) : SubSeq(s, 1, Len(s) - 1)[i] = s[1 + i - 1]
    BY <1>2, <2>2, SubSeqProperties
  <2> QED BY <1>1, <2>1, <2>3
<1> QED BY <1>1, <1>3 DEF Front, Last

(***************************************************************************)
(* The graph of modules.                                                   *)
(***************************************************************************)

\* The modules that use others.
LEMMA Graph ==
  /\ ToSet(Uses["Driver"]) = {"Log", "Stdout", "Stderr", "Resources", "ThreadMgr",
                              "Stdin", "CmdMgr", "Debugger"}
  /\ ToSet(Uses["CmdMgr"]) = {"Log", "Resources", "Interpreter", "Factory", "Invoker"}
  /\ ToSet(Uses["Debugger"]) = {"Log", "Resources", "ThreadMgr", "HandleEvents", "SessionInfo"}
  /\ \A m \in {"DriverMgr", "ThreadMgr", "Stdin"} : ToSet(Uses[m]) = {"Log", "Resources"}
  /\ \A m \in Module \ {"Driver", "CmdMgr", "Debugger", "DriverMgr", "ThreadMgr", "Stdin"} :
       Uses[m] = << >> /\ ToSet(Uses[m]) = {}
<1>1. \A a, b : ToSet(<<a, b>>) = {a, b}
  BY DEF ToSet
<1>4. Uses["Driver"] = <<"Log", "Stdout", "Stderr", "Resources", "ThreadMgr",
                         "Stdin", "CmdMgr", "Debugger">>
  BY DEF Uses, Module
<1>5. /\ Uses["CmdMgr"] = <<"Log", "Resources", "Interpreter", "Factory", "Invoker">>
      /\ Uses["Debugger"] = <<"Log", "Resources", "ThreadMgr", "HandleEvents", "SessionInfo">>
  BY DEF Uses, Module
<1>6. \A m \in {"DriverMgr", "ThreadMgr", "Stdin"} : Uses[m] = <<"Log", "Resources">>
  BY DEF Uses, Module
<1>7. \A m \in Module \ {"Driver", "CmdMgr", "Debugger", "DriverMgr", "ThreadMgr", "Stdin"} :
        Uses[m] = << >>
  BY DEF Uses
<1>8. ToSet(<< >>) = {}
  BY DEF ToSet
<1>9. \A m \in {"DriverMgr", "ThreadMgr", "Stdin"} : ToSet(Uses[m]) = {"Log", "Resources"}
  BY <1>1, <1>6, Zenon
<1>10. \A m \in Module \ {"Driver", "CmdMgr", "Debugger", "DriverMgr", "ThreadMgr", "Stdin"} :
         Uses[m] = << >> /\ ToSet(Uses[m]) = {}
  BY <1>7, <1>8, Zenon
<1>11. ToSet(Uses["Driver"]) = {"Log", "Stdout", "Stderr", "Resources", "ThreadMgr",
                                "Stdin", "CmdMgr", "Debugger"}
  BY <1>4 DEF ToSet
<1>12. /\ ToSet(Uses["CmdMgr"]) = {"Log", "Resources", "Interpreter", "Factory", "Invoker"}
       /\ ToSet(Uses["Debugger"]) = {"Log", "Resources", "ThreadMgr", "HandleEvents", "SessionInfo"}
  BY <1>5 DEF ToSet
<1> QED BY <1>9, <1>10, <1>11, <1>12

\* A module is named once by the Initialize of another.
LEMMA UsesAreSeqs ==
  ASSUME NEW m \in Module
  PROVE  Uses[m] \in Seq(Module) /\ Distinct(Uses[m])
<1>1. ASSUME m = "Driver" PROVE Uses[m] \in Seq(Module) /\ Distinct(Uses[m])
  <2>1. Uses[m] = <<"Log", "Stdout", "Stderr", "Resources", "ThreadMgr",
                    "Stdin", "CmdMgr", "Debugger">>
    BY <1>1 DEF Uses, Module
  <2> QED BY <2>1 DEF Module, Distinct
<1>2. ASSUME m = "CmdMgr" PROVE Uses[m] \in Seq(Module) /\ Distinct(Uses[m])
  <2>1. Uses[m] = <<"Log", "Resources", "Interpreter", "Factory", "Invoker">>
    BY <1>2 DEF Uses, Module
  <2> QED BY <2>1 DEF Module, Distinct
<1>3. ASSUME m = "Debugger" PROVE Uses[m] \in Seq(Module) /\ Distinct(Uses[m])
  <2>1. Uses[m] = <<"Log", "Resources", "ThreadMgr", "HandleEvents", "SessionInfo">>
    BY <1>3 DEF Uses, Module
  <2> QED BY <2>1 DEF Module, Distinct
<1>4. ASSUME m \in {"DriverMgr", "ThreadMgr", "Stdin"}
      PROVE  Uses[m] \in Seq(Module) /\ Distinct(Uses[m])
  <2>1. Uses[m] = <<"Log", "Resources">>
    BY <1>4 DEF Uses, Module
  <2> QED BY <2>1 DEF Module, Distinct
<1>5. ASSUME m \notin {"Driver", "CmdMgr", "Debugger", "DriverMgr", "ThreadMgr", "Stdin"}
      PROVE  Uses[m] \in Seq(Module) /\ Distinct(Uses[m])
  <2>1. Uses[m] = << >>
    BY <1>5 DEF Uses
  <2> QED BY <2>1, EmptySeq DEF Distinct
<1> QED BY <1>1, <1>2, <1>3, <1>4, <1>5

\* A module uses modules of lower rank, neither the driver nor its manager,
\* and only the driver, which does so last, uses the debugger.
LEMMA UsesBelow ==
  ASSUME NEW m \in Module
  PROVE  /\ \A u \in ToSet(Uses[m]) :
               /\ u \in Module /\ u \notin Top /\ Rank(u) < Rank(m)
               /\ u = "Debugger" => m = "Driver"
         /\ Uses["Driver"][Len(Uses["Driver"])] = "Debugger" /\ Uses["Driver"] # << >>
         /\ Rank("Driver") < Rank("DriverMgr") /\ Rank("Log") = 0 /\ Rank("Resources") = 0
         /\ Rank(m) \in 0..4
<1>1. Uses["Driver"][Len(Uses["Driver"])] = "Debugger" /\ Uses["Driver"] # << >>
  <2>1. Uses["Driver"] = <<"Log", "Stdout", "Stderr", "Resources", "ThreadMgr",
                           "Stdin", "CmdMgr", "Debugger">>
    BY DEF Uses, Module
  <2> QED BY <2>1
<1>2. Rank("Driver") < Rank("DriverMgr") /\ Rank("Log") = 0 /\ Rank("Resources") = 0 /\ Rank(m) \in 0..4
  BY DEF Rank
<1>3. ASSUME m = "Driver", NEW u \in ToSet(Uses[m])
      PROVE  u \in Module /\ u \notin Top /\ Rank(u) < Rank(m)
  BY <1>3, Graph DEF Rank, Module, Top
<1>4. ASSUME m = "CmdMgr", NEW u \in ToSet(Uses[m])
      PROVE  u \in Module /\ u \notin Top /\ Rank(u) < Rank(m) /\ u # "Debugger"
  BY <1>4, Graph DEF Rank, Module, Top
<1>5. ASSUME m = "Debugger", NEW u \in ToSet(Uses[m])
      PROVE  u \in Module /\ u \notin Top /\ Rank(u) < Rank(m) /\ u # "Debugger"
  BY <1>5, Graph DEF Rank, Module, Top
<1>6. ASSUME m \in {"DriverMgr", "ThreadMgr", "Stdin"}, NEW u \in ToSet(Uses[m])
      PROVE  u \in Module /\ u \notin Top /\ Rank(u) < Rank(m) /\ u # "Debugger"
  BY <1>6, Graph DEF Rank, Module, Top
<1>7. ASSUME m \notin {"Driver", "CmdMgr", "Debugger", "DriverMgr", "ThreadMgr", "Stdin"}
      PROVE  ToSet(Uses[m]) = {}
  BY <1>7, Graph
<1> QED BY <1>1, <1>2, <1>3, <1>4, <1>5, <1>6, <1>7

\* So it is for what a Shutdown releases, but for the driver.
LEMMA NeedsBelow ==
  ASSUME NEW m \in Module, NEW st, NEW u \in Needs(m, st)
  PROVE  /\ u \in Module /\ Rank(u) < Rank(m) /\ u # "DriverMgr"
         /\ u = "Driver" => m = "DriverMgr"
         /\ u = "Debugger" => m = "Driver"
         /\ u # "Driver" => u \in ToSet(Uses[m])
BY UsesBelow DEF Needs, Top, Module

\* A Shutdown releases what Initialize has asked for.
LEMMA ReleasesAll ==
  ASSUME NEW m \in Module
  PROVE  /\ Releases(m) \in Seq(Module) /\ Distinct(Releases(m))
         /\ ToSet(Releases(m)) = Needs(m, startOk)
<1> DEFINE R == Reverse(Uses[m])
<1>1. R \in Seq(Module) /\ Distinct(R) /\ ToSet(R) = ToSet(Uses[m])
  BY UsesAreSeqs, ReverseOfDistinct
<1>2. "Driver" \notin ToSet(R)
  BY <1>1, UsesBelow DEF Top
<1> HIDE DEF R
<1>3. CASE m = "DriverMgr" /\ startOk
  <2>1. Releases(m) = <<"Driver">> \o R
    BY <1>3 DEF Releases, R
  <2>2. <<"Driver">> \in Seq(Module) /\ Len(<<"Driver">>) = 1 /\ Len(R) \in Nat /\ <<"Driver">>[1] = "Driver"
    BY <1>1, LenProperties DEF Module
  <2>3. /\ Releases(m) \in Seq(Module) /\ Len(Releases(m)) = 1 + Len(R)
        /\ \A i \in 1..(1 + Len(R)) : Releases(m)[i] = IF i <= 1 THEN <<"Driver">>[i] ELSE R[i-1]
    BY <1>1, <2>1, <2>2, ConcatProperties
  <2>4. /\ Releases(m)[1] = "Driver" 
        /\ \A i \in 1..(1 + Len(R)) : i # 1 => i - 1 \in 1..Len(R) /\ Releases(m)[i] = R[i-1]
        /\ \A i \in 1..Len(R) : i + 1 \in 1..(1 + Len(R)) /\ Releases(m)[i+1] = R[i]
    BY <2>2, <2>3
  <2>5. ToSet(R) = {R[i] : i \in 1..Len(R)} /\ ToSet(Releases(m)) = {Releases(m)[i] : i \in 1..(1+Len(R))}
    BY <1>1, <2>3, SetOfSeq
  <2>6. ToSet(Releases(m)) = {"Driver"} \cup ToSet(R)
    <3>1. ASSUME NEW x \in ToSet(Releases(m)) PROVE x \in {"Driver"} \cup ToSet(R)
      BY <2>2, <2>4, <2>5
    <3>2. ASSUME NEW x \in ToSet(R) PROVE x \in ToSet(Releases(m))
      <4>1. PICK i \in 1..Len(R) : x = R[i]
        BY <2>5
      <4> QED BY <2>4, <2>5, <4>1
    <3>3. "Driver" \in ToSet(Releases(m))
      BY <2>2, <2>4, <2>5
    <3> QED BY <3>1, <3>2, <3>3
  <2>7. Distinct(Releases(m))
    <3>1. SUFFICES ASSUME NEW i \in 1..(1 + Len(R)), NEW j \in 1..(1 + Len(R)),
                          Releases(m)[i] = Releases(m)[j]
                   PROVE  i = j
      BY <2>3 DEF Distinct
    <3>2. CASE i = 1 \/ j = 1
      BY <1>2, <2>4, <2>5, <3>1, <3>2
    <3>3. CASE i # 1 /\ j # 1
      <4>1. i - 1 \in 1..Len(R) /\ j - 1 \in 1..Len(R) /\ R[i-1] = R[j-1]
        BY <2>4, <3>1, <3>3
      <4>2. i - 1 = j - 1
        BY <1>1, <4>1 DEF Distinct
      <4> QED BY <2>2, <4>2
    <3> QED BY <3>2, <3>3
  <2> QED BY <1>1, <1>3, <2>3, <2>6, <2>7 DEF Needs
<1>4. CASE ~(m = "DriverMgr" /\ startOk)
  <2>1. Releases(m) = << >> \o R
    BY <1>4 DEF Releases, R
  <2>2. Releases(m) = R
    BY <1>1, <2>1, ConcatEmptySeq
  <2>3. Needs(m, startOk) = ToSet(Uses[m])
    BY <1>4 DEF Needs
  <2> QED BY <1>1, <2>2, <2>3
<1> QED BY <1>3, <1>4

(***************************************************************************)
(* The stack of calls.                                                     *)
(***************************************************************************)

\* A module is on the stack once: the ranks descend.
LEMMA FrameParts ==
  ASSUME NEW st, NEW s, StackOK(s, st), NEW i \in 1..Len(s)
  PROVE  /\ s \in Seq(FrameType) /\ Len(s) \in Nat
         /\ s[i] \in FrameType /\ s[i].mod \in Module /\ s[i].op \in {"init", "down"}
         /\ s[i].left \in Seq(Module) /\ s[i].own \in BOOLEAN /\ s[i].ok \in BOOLEAN
         /\ FrameOK(s[i], st)
         /\ \A j \in 1..Len(s) : s[i].mod = s[j].mod => i = j
<1>1. s \in Seq(FrameType) /\ Len(s) \in Nat /\ \A j \in 1..Len(s) : s[j] \in FrameType
  BY LenProperties, ElementOfSeq DEF StackOK
<1>2. FrameOK(s[i], st)
  BY DEF StackOK
<1>3. \A j \in 1..Len(s) : s[j].mod \in Module
  BY <1>1 DEF FrameType
<1>4. ASSUME NEW j \in 1..Len(s), s[i].mod = s[j].mod PROVE i = j
  <2>1. Rank(s[i].mod) = Rank(s[j].mod) /\ Rank(s[i].mod) \in 0..4
    BY <1>3, <1>4, UsesBelow
  <2>2. ~(i < j) /\ ~(j < i)
    BY <2>1 DEF StackOK
  <2> QED BY <1>1, <2>2
<1> QED BY <1>1, <1>2, <1>4 DEF FrameType

\* So what the module on top keeps is what its frame says.
LEMMA TopParts ==
  ASSUME NEW st, NEW s, StackOK(s, st), s # << >>
  PROVE  /\ Len(s) \in 1..Len(s) /\ Len(s) \in Nat \ {0} /\ Last(s) = s[Len(s)]
         /\ Last(s) \in FrameType /\ Last(s).mod \in Module /\ Last(s).op \in {"init", "down"}
         /\ Last(s).left \in Seq(Module) /\ Last(s).own \in BOOLEAN /\ Last(s).ok \in BOOLEAN
         /\ FrameOK(Last(s), st) /\ Has(s, Last(s).mod)
         /\ \A u : Kept(s, Last(s).mod, u) <=> Keeps(Last(s), u)
         /\ \A i \in 1..Len(s) : s[i].mod = Last(s).mod => i = Len(s)
<1>1. s \in Seq(FrameType)
  BY DEF StackOK
<1>0. Len(s) \in Nat \ {0} /\ Last(s) = s[Len(s)]
  BY <1>1, FrontAndTop
<1>2. Len(s) \in 1..Len(s) /\ Len(s) \in Nat \ {0} /\ Last(s) = s[Len(s)]
  BY <1>0
<1>3. /\ Last(s) \in FrameType /\ Last(s).mod \in Module /\ Last(s).op \in {"init", "down"}
      /\ Last(s).left \in Seq(Module) /\ Last(s).own \in BOOLEAN /\ Last(s).ok \in BOOLEAN
      /\ FrameOK(Last(s), st)
      /\ \A i \in 1..Len(s) : s[Len(s)].mod = s[i].mod => Len(s) = i
  BY <1>2, FrameParts
<1> QED BY <1>2, <1>3 DEF Has, Kept

\* t is the stack s with its frame on top changed to f.
TopChanged(s, f, t, st) ==
  /\ StackOK(t, st) /\ t # << >> /\ Len(t) = Len(s) /\ Last(t) = f
  /\ \A i \in 1..Len(s) : t[i] = IF i = Len(s) THEN f ELSE s[i]
  /\ \A i \in 1..Len(s) : t[i].mod = s[i].mod /\ t[i].op = s[i].op
  /\ \A m : Has(t, m) <=> Has(s, m)
  /\ \A m, u : Kept(t, m, u) <=> IF m = f.mod THEN Keeps(f, u) ELSE Kept(s, m, u)

\* The frame on top is replaced by one of the same call.
LEMMA TopChanges ==
  ASSUME NEW st, NEW s, StackOK(s, st), s # << >>,
         NEW f \in FrameType, f.mod = Last(s).mod, f.op = Last(s).op, FrameOK(f, st),
         NEW t, t = Append(Front(s), f)
  PROVE  TopChanged(s, f, t, st)
<1>1. s \in Seq(FrameType)
  BY DEF StackOK
<1>2. /\ Len(s) \in Nat \ {0} /\ Last(s) = s[Len(s)]
      /\ Front(s) \in Seq(FrameType) /\ Len(Front(s)) = Len(s) - 1
      /\ \A i \in 1..(Len(s) - 1) : Front(s)[i] = s[i]
  BY <1>1, FrontAndTop
<1>3. /\ t \in Seq(FrameType) /\ t # << >> /\ Len(t) = Len(Front(s)) + 1
      /\ \A i \in 1..Len(Front(s)) : t[i] = Front(s)[i]
      /\ t[Len(Front(s)) + 1] = f
  BY <1>2, AppendProperties
<1>4. Len(t) = Len(s) /\ \A i \in 1..Len(s) : t[i] = IF i = Len(s) THEN f ELSE s[i]
  BY <1>2, <1>3
<1>5. \A i \in 1..Len(s) : t[i].mod = s[i].mod /\ t[i].op = s[i].op
  BY <1>2, <1>4
<1>6. Last(t) = f
  BY <1>2, <1>3, <1>4, FrontAndTop
<1>8. StackOK(t, st)
  <2>1. \A i \in 1..Len(t) : FrameOK(t[i], st)
    BY <1>4 DEF StackOK
  <2>2. ASSUME NEW i \in 1..Len(t), i + 1 \in 1..Len(t) PROVE Called(t[i], t[i+1], st)
    <3>1. Called(s[i], s[i+1], st) /\ t[i] = s[i]
      BY <1>2, <1>4, <2>2 DEF StackOK
    <3> QED BY <1>4, <1>5, <2>2, <3>1 DEF Called
  <2>3. \A i, j \in 1..Len(t) : i < j => Rank(t[j].mod) < Rank(t[i].mod)
    BY <1>4, <1>5 DEF StackOK
  <2> QED BY <1>3, <2>1, <2>2, <2>3 DEF StackOK
<1>9. \A m : Has(t, m) <=> Has(s, m)
  BY <1>4, <1>5 DEF Has
<1>10. \A i \in 1..Len(s) : t[i].mod = f.mod <=> i = Len(s)
  BY <1>4, <1>5, TopParts
<1>11. ASSUME NEW m, NEW u PROVE Kept(t, m, u) <=> IF m = f.mod THEN Keeps(f, u) ELSE Kept(s, m, u)
  BY <1>2, <1>4, <1>5, <1>10 DEF Kept
<1> QED BY <1>3, <1>4, <1>5, <1>6, <1>8, <1>9, <1>11 DEF TopChanged

\* A module the frame on top needs is not on the stack.
LEMMA NeededNotOnStack ==
  ASSUME NEW st, NEW s, StackOK(s, st), s # << >>, NEW m \in Needs(Last(s).mod, st)
  PROVE  m \in Module /\ ~Has(s, m) /\ \A i \in 1..Len(s) : Rank(m) < Rank(s[i].mod)
<1>1. Last(s) = s[Len(s)] /\ Last(s).mod \in Module /\ Len(s) \in Nat \ {0}
  BY TopParts
<1>2. m \in Module /\ Rank(m) < Rank(s[Len(s)].mod)
  BY <1>1, NeedsBelow
<1>3. ASSUME NEW i \in 1..Len(s) PROVE Rank(m) < Rank(s[i].mod)
  <2>1. s[i].mod \in Module
    BY FrameParts
  <2>2. i = Len(s) \/ Rank(s[Len(s)].mod) < Rank(s[i].mod)
    BY <1>1 DEF StackOK
  <2>3. Rank(m) \in 0..4 /\ Rank(s[Len(s)].mod) \in 0..4 /\ Rank(s[i].mod) \in 0..4
    BY <1>1, <1>2, <2>1, UsesBelow
  <2> QED BY <1>2, <2>2, <2>3
<1>4. Rank(m) \in 0..4
  BY <1>2, UsesBelow
<1> QED BY <1>2, <1>3, <1>4 DEF Has

\* t is the stack s with a call more.
Pushed(s, g, t, st) ==
  /\ StackOK(t, st) /\ t # << >> /\ Len(t) = Len(s) + 1 /\ Last(t) = g
  /\ \A i \in 1..Len(t) : t[i] = IF i = Len(t) THEN g ELSE s[i]
  /\ ~Has(s, g.mod)
  /\ \A m : Has(t, m) <=> Has(s, m) \/ m = g.mod
  /\ \A m, u : Kept(t, m, u) <=> IF m = g.mod THEN Keeps(g, u) ELSE Kept(s, m, u)

\* The frame on top calls, or main() does.
LEMMA CallPushes ==
  ASSUME NEW st, NEW s, StackOK(s, st), NEW g \in FrameType, FrameOK(g, st),
         s = << >> \/ Called(Last(s), g, st),
         NEW t, t = Append(s, g)
  PROVE  Pushed(s, g, t, st)
<1>1. s \in Seq(FrameType) /\ Len(s) \in Nat
  BY LenProperties DEF StackOK
<1>2. /\ t \in Seq(FrameType) /\ t # << >> /\ Len(t) = Len(s) + 1
      /\ \A i \in 1..Len(s) : t[i] = s[i]
      /\ t[Len(s) + 1] = g
  BY <1>1, AppendProperties
<1>3. \A i \in 1..Len(t) : t[i] = IF i = Len(t) THEN g ELSE s[i]
  BY <1>1, <1>2
<1>4. Last(t) = g
  BY <1>1, <1>2, FrontAndTop
<1>5. s # << >> => ~Has(s, g.mod) /\ \A i \in 1..Len(s) : Rank(g.mod) < Rank(s[i].mod)
  BY NeededNotOnStack DEF Called
<1>6. s = << >> => Len(s) = 0
  BY EmptySeq
<1>7. ~Has(s, g.mod)
  BY <1>5, <1>6 DEF Has
<1>8. StackOK(t, st)
  <2>1. \A i \in 1..Len(t) : FrameOK(t[i], st)
    BY <1>1, <1>3 DEF StackOK
  <2>2. ASSUME NEW i \in 1..Len(t), i + 1 \in 1..Len(t) PROVE Called(t[i], t[i+1], st)
    <3>1. CASE i + 1 = Len(t)
      <4>1. s # << >> /\ i = Len(s) /\ Last(s) = s[i]
        BY <1>1, <1>2, <1>6, <2>2, <3>1, TopParts
      <4> QED BY <1>1, <1>2, <1>3, <2>2, <3>1, <4>1
    <3>2. CASE i + 1 # Len(t)
      <4>1. i \in 1..Len(s) /\ i + 1 \in 1..Len(s)
        BY <1>1, <1>2, <2>2, <3>2
      <4> QED BY <1>1, <1>2, <4>1 DEF StackOK
    <3> QED BY <3>1, <3>2
  <2>3. ASSUME NEW i \in 1..Len(t), NEW j \in 1..Len(t), i < j PROVE Rank(t[j].mod) < Rank(t[i].mod)
    <3>1. CASE j = Len(t)
      <4>1. i \in 1..Len(s) /\ s # << >>
        BY <1>1, <1>2, <1>6, <2>3, <3>1
      <4> QED BY <1>2, <1>3, <1>5, <3>1, <4>1
    <3>2. CASE j # Len(t)
      <4>1. i \in 1..Len(s) /\ j \in 1..Len(s)
        BY <1>1, <1>2, <2>3, <3>2
      <4> QED BY <1>2, <2>3, <4>1 DEF StackOK
    <3> QED BY <3>1, <3>2
  <2> QED BY <1>2, <2>1, <2>2, <2>3 DEF StackOK
<1>9. ASSUME NEW m PROVE Has(t, m) <=> Has(s, m) \/ m = g.mod
  <2>1. \A i \in 1..Len(s) : i \in 1..Len(t)
    BY <1>1, <1>2
  <2>2. \A i \in 1..Len(t) : i = Len(s) + 1 \/ i \in 1..Len(s)
    BY <1>1, <1>2
  <2>3. Len(s) + 1 \in 1..Len(t)
    BY <1>1, <1>2
  <2> QED BY <1>2, <2>1, <2>2, <2>3 DEF Has
<1>10. ASSUME NEW m, NEW u PROVE Kept(t, m, u) <=> IF m = g.mod THEN Keeps(g, u) ELSE Kept(s, m, u)
  <2>1. \A i \in 1..Len(s) : i \in 1..Len(t)
    BY <1>1, <1>2
  <2>2. \A i \in 1..Len(t) : i = Len(s) + 1 \/ i \in 1..Len(s)
    BY <1>1, <1>2
  <2>3. Len(s) + 1 \in 1..Len(t)
    BY <1>1, <1>2
  <2>4. \A i \in 1..Len(s) : s[i].mod # g.mod
    BY <1>7 DEF Has
  <2> QED BY <1>2, <2>1, <2>2, <2>3, <2>4 DEF Kept
<1> QED BY <1>2, <1>3, <1>4, <1>7, <1>8, <1>9, <1>10 DEF Pushed

\* t is the stack s after the return of the call on top.
Popped(s, t, st) ==
  /\ StackOK(t, st) /\ Len(t) = Len(s) - 1
  /\ \A i \in 1..Len(t) : i \in 1..Len(s) /\ t[i] = s[i]
  /\ \A m : Has(t, m) <=> Has(s, m) /\ m # Last(s).mod
  /\ \A m, u : Kept(t, m, u) <=> Kept(s, m, u) /\ m # Last(s).mod
  /\ t # << >> => Len(s) - 1 \in 1..Len(s) /\ Last(t) = s[Len(s) - 1]
                    /\ Called(Last(t), Last(s), st)

\* The frame on top goes.
LEMMA CallReturns ==
  ASSUME NEW st, NEW s, StackOK(s, st), s # << >>, NEW t, t = Front(s)
  PROVE  Popped(s, t, st)
<1>1. s \in Seq(FrameType)
  BY DEF StackOK
<1>2. /\ Len(s) \in Nat \ {0} /\ Last(s) = s[Len(s)]
      /\ t \in Seq(FrameType) /\ Len(t) = Len(s) - 1
      /\ \A i \in 1..(Len(s) - 1) : t[i] = s[i]
  BY <1>1, FrontAndTop
<1>3. \A i \in 1..Len(t) : i \in 1..Len(s) /\ i # Len(s) /\ t[i] = s[i]
  BY <1>2
<1>4. StackOK(t, st)
  <2>1. \A i \in 1..Len(t) : FrameOK(t[i], st)
    BY <1>3 DEF StackOK
  <2>2. \A i \in 1..Len(t) : i + 1 \in 1..Len(t) => Called(t[i], t[i+1], st)
    BY <1>3 DEF StackOK
  <2>3. \A i, j \in 1..Len(t) : i < j => Rank(t[j].mod) < Rank(t[i].mod)
    BY <1>3 DEF StackOK
  <2> QED BY <1>2, <2>1, <2>2, <2>3 DEF StackOK
<1>5. \A i \in 1..Len(s) : s[i].mod = Last(s).mod <=> i = Len(s)
  BY <1>2, TopParts
<1>6. \A i \in 1..Len(s) : i \in 1..Len(t) \/ i = Len(s)
  BY <1>2
<1>7. \A m : Has(t, m) <=> Has(s, m) /\ m # Last(s).mod
  BY <1>3, <1>5, <1>6 DEF Has
<1>8. \A m, u : Kept(t, m, u) <=> Kept(s, m, u) /\ m # Last(s).mod
  BY <1>3, <1>5, <1>6 DEF Kept
<1>9. ASSUME t # << >>
      PROVE  /\ Len(s) - 1 \in 1..Len(s) /\ Last(t) = s[Len(s) - 1]
             /\ Called(Last(t), Last(s), st)
  <2>1. Last(t) = t[Len(t)] /\ Len(t) \in 1..Len(t)
    BY <1>4, <1>9, TopParts
  <2>2. Len(s) - 1 \in 1..Len(s) /\ Last(t) = s[Len(s) - 1] /\ (Len(s) - 1) + 1 = Len(s)
    BY <1>2, <1>3, <2>1
  <2> QED BY <1>2, <2>2 DEF StackOK
<1> QED BY <1>2, <1>3, <1>4, <1>7, <1>8, <1>9 DEF Popped

(***************************************************************************)
(* Clients.                                                                *)
(***************************************************************************)

\* They can be counted.
LEMMA FiniteClients ==
  ASSUME NEW s, NEW r, NEW d, NEW u
  PROVE  /\ IsFiniteSet(Clients(s, r, d, u))
         /\ Cardinality(Clients(s, r, d, u)) \in Nat
<1>1. \A S, x : IsFiniteSet(S) => IsFiniteSet(S \cup {x})
  BY FS_AddElement
<1>2. IsFiniteSet(Module)
  <2> DEFINE Plain == ((((((({} \cup {"Log"}) \cup {"Resources"}) \cup {"Stdout"}) \cup {"Stderr"})
                        \cup {"Stdin"}) \cup {"ThreadMgr"}) \cup {"CmdMgr"}) \cup {"Interpreter"}
             Others == (((((({} \cup {"Factory"}) \cup {"Invoker"}) \cup {"Debugger"})
                        \cup {"HandleEvents"}) \cup {"SessionInfo"}) \cup {"Driver"}) \cup {"DriverMgr"}
  <2>1. IsFiniteSet(Plain)
    BY <1>1, FS_EmptySet, Zenon
  <2>2. IsFiniteSet(Others)
    BY <1>1, FS_EmptySet, Zenon
  <2>3. Module = Plain \cup Others
    BY DEF Module
  <2> QED BY <2>1, <2>2, <2>3, FS_Union, Zenon
<1>3. Clients(s, r, d, u) \in SUBSET Module
  BY DEF Clients
<1> QED BY <1>2, <1>3, FS_Subset, FS_CardinalityType

\* u gains the client c, loses it, keeps all, gains none.
LEMMA ClientsGain ==
  ASSUME NEW s, NEW r, NEW d, NEW t, NEW q, NEW e, NEW u, NEW c \in Module,
         u \in ToSet(Uses[c]), ~Holds(s, r, d, c, u),
         \A m \in Module : u \in ToSet(Uses[m]) =>
           (Holds(t, q, e, m, u) <=> Holds(s, r, d, m, u) \/ m = c)
  PROVE  Cardinality(Clients(t, q, e, u)) = Cardinality(Clients(s, r, d, u)) + 1
<1>1. Clients(t, q, e, u) = Clients(s, r, d, u) \cup {c} /\ c \notin Clients(s, r, d, u)
  BY DEF Clients
<1> QED BY <1>1, FiniteClients, FS_AddElement

LEMMA ClientsLose ==
  ASSUME NEW s, NEW r, NEW d, NEW t, NEW q, NEW e, NEW u, NEW c \in Module,
         u \in ToSet(Uses[c]), Holds(s, r, d, c, u),
         \A m \in Module : u \in ToSet(Uses[m]) =>
           (Holds(t, q, e, m, u) <=> Holds(s, r, d, m, u) /\ m # c)
  PROVE  Cardinality(Clients(t, q, e, u)) = Cardinality(Clients(s, r, d, u)) - 1
<1>1. Clients(t, q, e, u) = Clients(s, r, d, u) \ {c} /\ c \in Clients(s, r, d, u)
  BY DEF Clients
<1> QED BY <1>1, FiniteClients, FS_RemoveElement

LEMMA ClientsSame ==
  ASSUME NEW s, NEW r, NEW d, NEW t, NEW q, NEW e, NEW u,
         \A m \in Module : u \in ToSet(Uses[m]) => (Holds(t, q, e, m, u) <=> Holds(s, r, d, m, u))
  PROVE  Clients(t, q, e, u) = Clients(s, r, d, u)
BY DEF Clients

LEMMA ClientsFewer ==
  ASSUME NEW s, NEW r, NEW d, NEW t, NEW q, NEW e, NEW u,
         \A m \in Module : u \in ToSet(Uses[m]) => (Holds(t, q, e, m, u) => Holds(s, r, d, m, u))
  PROVE  Cardinality(Clients(t, q, e, u)) <= Cardinality(Clients(s, r, d, u))
<1>1. Clients(t, q, e, u) \in SUBSET Clients(s, r, d, u)
  BY DEF Clients
<1> QED BY <1>1, FiniteClients, FS_Subset

(***************************************************************************)
(* Construction and destruction.                                           *)
(***************************************************************************)

\* A singleton is constructed unless it has been, after those it is younger than.
LEMMA AddBuilds ==
  ASSUME NEW b, BuiltOK(b), NEW x \in Singleton,
         x = "CmdMgr" => \A u \in {"Factory", "Interpreter", "Invoker"} : Contains(b, u),
         NEW c, c = Add(b, x)
  PROVE  /\ BuiltOK(c) /\ Contains(c, x)
         /\ \A y : Contains(b, y) => Contains(c, y)
<1>1. b \in Seq(Singleton) /\ Len(b) \in Nat
  BY LenProperties DEF BuiltOK
<1>2. CASE Contains(b, x)
  BY <1>2 DEF Add
<1>3. CASE ~Contains(b, x)
  <2>1. c = Append(b, x)
    BY <1>3 DEF Add
  <2>2. /\ c \in Seq(Singleton) /\ Len(c) = Len(b) + 1
        /\ \A i \in 1..Len(b) : c[i] = b[i]
        /\ c[Len(b) + 1] = x
    BY <1>1, <2>1, AppendProperties
  <2>3. \A i \in 1..Len(c) : i \in 1..Len(b) \/ i = Len(b) + 1
    BY <1>1, <2>2
  <2>4. \A i \in 1..Len(b) : i \in 1..Len(c) /\ b[i] # x
    BY <1>1, <1>3, <2>2 DEF Contains
  <2>5. Distinct(c)
    BY <2>2, <2>3, <2>4 DEF BuiltOK, Distinct
  <2>6. \A y : Contains(b, y) => Contains(c, y)
    BY <1>1, <2>2, <2>4 DEF Contains
  <2>7. Contains(c, x)
    <3>1. Len(b) + 1 \in 1..Len(c)
      BY <1>1, <2>2
    <3> QED BY <2>2, <3>1 DEF Contains
  <2>8. Older(c)
    <3>1. SUFFICES ASSUME NEW i \in 1..Len(c), c[i] = "CmdMgr",
                          NEW u \in {"Factory", "Interpreter", "Invoker"}
                   PROVE  \E j \in 1..(i-1) : c[j] = u
      BY DEF Older
    <3>2. CASE i \in 1..Len(b)
      <4>1. PICK j \in 1..(i-1) : b[j] = u
        BY <2>2, <3>1, <3>2 DEF BuiltOK, Older
      <4>2. j \in 1..Len(b)
        BY <1>1, <3>2
      <4> QED BY <2>2, <4>1, <4>2
    <3>3. CASE i = Len(b) + 1
      <4>1. PICK j \in 1..Len(b) : b[j] = u
        BY <2>2, <3>1, <3>3 DEF Contains
      <4>2. j \in 1..(i-1)
        BY <1>1, <3>3
      <4> QED BY <2>2, <4>1, <4>2
    <3> QED BY <2>3, <3>2, <3>3
  <2> QED BY <2>2, <2>5, <2>6, <2>7, <2>8 DEF BuiltOK
<1> QED BY <1>2, <1>3

\* Asking for a module constructs it and keeps what has been constructed.
LEMMA InstanceBuilds ==
  ASSUME NEW b, BuiltOK(b), NEW m \in Singleton
  PROVE  /\ BuiltOK(Instance(b, m)) /\ Contains(Instance(b, m), m)
         /\ \A y : Contains(b, y) => Contains(Instance(b, m), y)
<1> DEFINE log == Add(b, "Log")
<1>0. Singleton = Module \cup {"LogFile"}
  BY DEF Singleton
<1>1. BuiltOK(log) /\ \A y : Contains(b, y) => Contains(log, y)
  BY <1>0, AddBuilds DEF Module
<1> HIDE DEF log
<1>2. CASE m = "Driver"
  <2> DEFINE b1 == Add(log, "Stdin")  b2 == Add(b1, "Debugger")
             b3 == Add(b2, "Stdout")  b4 == Add(b3, "Driver")
  <2>1. BuiltOK(b1) /\ \A y : Contains(log, y) => Contains(b1, y)
    BY <1>0, <1>1, AddBuilds DEF Module
  <2> HIDE DEF b1
  <2>2. BuiltOK(b2) /\ \A y : Contains(b1, y) => Contains(b2, y)
    BY <1>0, <2>1, AddBuilds DEF Module
  <2> HIDE DEF b2
  <2>3. BuiltOK(b3) /\ \A y : Contains(b2, y) => Contains(b3, y)
    BY <1>0, <2>2, AddBuilds DEF Module
  <2> HIDE DEF b3
  <2>4. BuiltOK(b4) /\ Contains(b4, m) /\ \A y : Contains(b3, y) => Contains(b4, y)
    BY <1>0, <1>2, <2>3, AddBuilds DEF Module
  <2>5. Instance(b, m) = b4
    BY <1>2 DEF Instance, log, b1, b2, b3
  <2> HIDE DEF b4
  <2> QED BY <1>1, <2>1, <2>2, <2>3, <2>4, <2>5
<1>3. CASE m = "CmdMgr"
  <2> DEFINE b1 == Add(log, "Factory")  b2 == Add(b1, "Interpreter")
             b3 == Add(b2, "Stdout")    b4 == Add(b3, "Invoker")
             b5 == Add(b4, "CmdMgr")
  <2>1. BuiltOK(b1) /\ Contains(b1, "Factory") /\ \A y : Contains(log, y) => Contains(b1, y)
    BY <1>0, <1>1, AddBuilds DEF Module
  <2> HIDE DEF b1
  <2>2. BuiltOK(b2) /\ Contains(b2, "Interpreter") /\ \A y : Contains(b1, y) => Contains(b2, y)
    BY <1>0, <2>1, AddBuilds DEF Module
  <2> HIDE DEF b2
  <2>3. BuiltOK(b3) /\ \A y : Contains(b2, y) => Contains(b3, y)
    BY <1>0, <2>2, AddBuilds DEF Module
  <2> HIDE DEF b3
  <2>4. BuiltOK(b4) /\ Contains(b4, "Invoker") /\ \A y : Contains(b3, y) => Contains(b4, y)
    BY <1>0, <2>3, AddBuilds DEF Module
  <2>5. Contains(b4, "Factory") /\ Contains(b4, "Interpreter")
    BY <2>1, <2>2, <2>3, <2>4
  <2> HIDE DEF b4
  <2>6. BuiltOK(b5) /\ Contains(b5, "CmdMgr") /\ \A y : Contains(b4, y) => Contains(b5, y)
    BY <1>0, <2>4, <2>5, AddBuilds DEF Module
  <2>7. Instance(b, m) = b5
    BY <1>3 DEF Instance, log, b1, b2, b3, b4
  <2> HIDE DEF b5
  <2> QED BY <1>1, <1>3, <2>1, <2>2, <2>3, <2>4, <2>6, <2>7
<1>4. CASE m = "LogFile"
  <2> DEFINE b1 == Add(log, "Resources")  b2 == Add(b1, "LogFile")
  <2>1. BuiltOK(b1) /\ \A y : Contains(log, y) => Contains(b1, y)
    BY <1>0, <1>1, AddBuilds DEF Module
  <2> HIDE DEF b1
  <2>2. BuiltOK(b2) /\ Contains(b2, m) /\ \A y : Contains(b1, y) => Contains(b2, y)
    BY <1>0, <1>4, <2>1, AddBuilds
  <2>3. Instance(b, m) = b2
    BY <1>4 DEF Instance, log, b1
  <2> HIDE DEF b2
  <2> QED BY <1>1, <2>1, <2>2, <2>3
<1>5. CASE m \notin {"Driver", "CmdMgr", "LogFile"}
  <2>1. Instance(b, m) = Add(log, m)
    BY <1>5 DEF Instance, log
  <2> QED BY <1>1, <1>5, <2>1, AddBuilds
<1> QED BY <1>2, <1>3, <1>4, <1>5

\* The newest singleton is destroyed.
LEMMA LastDestroyed ==
  ASSUME NEW b, BuiltOK(b), b # << >>, NEW c, c = Front(b)
  PROVE  /\ BuiltOK(c) /\ b[Len(b)] \in Singleton /\ Contains(b, b[Len(b)]) /\ Last(b) = b[Len(b)]
         /\ \A y : Contains(c, y) <=> Contains(b, y) /\ y # b[Len(b)]
<1>1. b \in Seq(Singleton)
  BY DEF BuiltOK
<1>2. /\ Len(b) \in Nat \ {0} /\ Last(b) = b[Len(b)] /\ Last(b) \in Singleton
      /\ c \in Seq(Singleton) /\ Len(c) = Len(b) - 1
      /\ \A i \in 1..(Len(b) - 1) : c[i] = b[i]
  BY <1>1, FrontAndTop
<1>3. \A i \in 1..Len(c) : i \in 1..Len(b) /\ i # Len(b) /\ c[i] = b[i]
  BY <1>2
<1>4. \A i \in 1..Len(b) : i \in 1..Len(c) \/ i = Len(b)
  BY <1>2
<1>5. Len(b) \in 1..Len(b)
  BY <1>2
<1>6. Distinct(c)
  BY <1>3 DEF BuiltOK, Distinct
<1>7. \A y : Contains(c, y) <=> Contains(b, y) /\ y # b[Len(b)]
  BY <1>3, <1>4, <1>5 DEF BuiltOK, Distinct, Contains
<1>8. Older(c)
  <2>1. SUFFICES ASSUME NEW i \in 1..Len(c), c[i] = "CmdMgr",
                        NEW u \in {"Factory", "Interpreter", "Invoker"}
                 PROVE  \E j \in 1..(i-1) : c[j] = u
    BY DEF Older
  <2>2. PICK j \in 1..(i-1) : b[j] = u
    BY <1>3, <2>1 DEF BuiltOK, Older
  <2>3. j \in 1..Len(c)
    BY <1>2
  <2> QED BY <1>3, <2>2, <2>3
<1> QED BY <1>2, <1>5, <1>6, <1>7, <1>8 DEF BuiltOK, Contains

(***************************************************************************)
(* What the invariant says of the state in which a call is on the stack.   *)
(***************************************************************************)

\* No call is in progress.
LEMMA Empty ==
  ASSUME NEW st
  PROVE  /\ StackOK(<< >>, st)
         /\ \A m : ~Has(<< >>, m)
         /\ \A m, u : ~Kept(<< >>, m, u)
         /\ Len(<< >>) = 0
BY EmptySeq DEF StackOK, Has, Kept

\* The driver is called by its manager only, and the manager by main().
LEMMA TopFrames ==
  ASSUME NEW st, NEW s, StackOK(s, st), NEW i \in 1..Len(s)
  PROVE  /\ s[i].mod = "DriverMgr" => i = 1
         /\ s[i].mod = "Driver" /\ i # 1 => st /\ s[1].mod = "DriverMgr"
         /\ i # 1 => i - 1 \in 1..Len(s) /\ Called(s[i-1], s[i], st)
         /\ s[i].mod = "Debugger" /\ i # 1 => s[i-1].mod = "Driver"
<1>1. CASE i # 1
  <2>1. Len(s) \in Nat /\ i - 1 \in 1..Len(s) /\ (i - 1) + 1 = i
    BY <1>1, FrameParts
  <2>2. Called(s[i-1], s[i], st)
    BY <2>1 DEF StackOK
  <2>3. s[i-1].mod \in Module
    BY <2>1, FrameParts
  <2>4. /\ s[i].mod # "DriverMgr"
        /\ s[i].mod = "Driver" => s[i-1].mod = "DriverMgr" /\ st
        /\ s[i].mod = "Debugger" => s[i-1].mod = "Driver"
    BY <2>2, <2>3, NeedsBelow, UsesBelow DEF Called, Needs, Top
  <2>5. ASSUME s[i-1].mod = "DriverMgr", i - 1 # 1 PROVE FALSE
    <3>1. i - 2 \in 1..Len(s) /\ (i - 2) + 1 = i - 1 /\ s[i-2].mod \in Module
      BY <2>1, <2>5, FrameParts
    <3>2. Called(s[i-2], s[i-1], st)
      BY <2>1, <3>1 DEF StackOK
    <3> QED BY <2>5, <3>1, <3>2, NeedsBelow DEF Called
  <2>6. s[i].mod = "Driver" => st /\ s[1].mod = "DriverMgr"
    BY <2>4, <2>5
  <2> QED BY <1>1, <2>1, <2>2, <2>4, <2>6
<1>2. CASE i = 1
  BY <1>2
<1> QED BY <1>1, <1>2

(***************************************************************************)
(* The invariant holds in every reachable state.                           *)
(***************************************************************************)

\* While a module is being initialised.
LEMMA DuringInit ==
  ASSUME IInv, InFrame("init")
  PROVE  /\ main \in {"register", "registered"} /\ startOk = FALSE /\ ghosts = {}
         /\ stack # << >> /\ StackOK(stack, startOk) /\ 1 \in 1..Len(stack)
         /\ \A i \in 1..Len(stack) : stack[i].op = "init"
         /\ stack[1].mod \in Top
         /\ Last(stack).ok => stack[1].ok
         /\ Last(stack).ok => ~Failed
<1>1. StackOK(stack, startOk) /\ stack # << >>
  BY DEF IInv, InFrame
<1>2. Len(stack) \in 1..Len(stack) /\ Len(stack) \in Nat \ {0} /\ Last(stack) = stack[Len(stack)]
  BY <1>1, TopParts
<1>3. main \in {"register", "registered"}
  <2>1. stack[Len(stack)].op = "init"
    BY <1>2 DEF InFrame
  <2> QED BY <1>2, <2>1 DEF IInv, MainInv
<1>4. startOk = FALSE /\ ghosts = {} /\ \A i \in 1..Len(stack) : stack[i].op = "init"
  BY <1>3 DEF IInv, MainInv, TypeInv
<1>5. 1 \in 1..Len(stack)
  BY <1>2
<1>6. stack[1].mod \in Top
  BY <1>1, <1>3 DEF IInv, MainInv, Bottom, Top
<1>7. Last(stack).ok => stack[1].ok
  <2>1. CASE Len(stack) = 1
    BY <1>2, <2>1
  <2>2. CASE Len(stack) # 1
    <3>0. \A n \in Nat \ {0} : n # 1 => 1 + 1 \in 1..n
      OBVIOUS
    <3>1. 1 + 1 \in 1..Len(stack)
      BY <1>2, <2>2, <3>0
    <3>2. Called(stack[1], stack[1+1], startOk)
      BY <1>1, <1>5, <3>1 DEF StackOK
    <3> QED BY <3>2 DEF Called
  <2> QED BY <2>1, <2>2
<1>8. Last(stack).ok => ~Failed
  BY <1>1, <1>3, <1>7 DEF Failed
<1> QED BY <1>1, <1>3, <1>4, <1>5, <1>6, <1>7, <1>8

\* Only the driver uses the interpreter's manager.
LEMMA OneUser ==
  ASSUME NEW s, NEW r, NEW d
  PROVE  Cardinality(Clients(s, r, d, "CmdMgr")) <= 1
<1>1. Clients(s, r, d, "CmdMgr") \in SUBSET {"Driver"}
  BY Graph DEF Clients
<1>2. IsFiniteSet({"Driver"}) /\ Cardinality({"Driver"}) = 1
  BY FS_Singleton
<1> QED BY <1>1, <1>2, FS_Subset

\* The frame on top makes its next call.
LEMMA CallIs ==
  ASSUME StackOK(stack, startOk), stack # << >>, Last(stack).left # << >>,
         NEW f, f = [Last(stack) EXCEPT !.left = Tail(@)]
  PROVE  /\ f \in FrameType /\ f.mod = Last(stack).mod /\ f.op = Last(stack).op
         /\ f.own = Last(stack).own /\ f.ok = Last(stack).ok /\ f.left = Tail(Last(stack).left)
         /\ Distinct(f.left) /\ ToSet(f.left) = ToSet(Last(stack).left) \ {Head(Last(stack).left)}
         /\ Head(Last(stack).left) \in Needs(f.mod, startOk)
         /\ Head(Last(stack).left) \in ToSet(Last(stack).left)
         /\ Last(stack).op = "init" => FrameOK(f, startOk)
         /\ Last(stack).own => FrameOK(f, startOk)
         /\ AfterCall(<< >>) = Append(Front(stack), f)
         /\ \A g \in FrameType : AfterCall(<<g>>) = Append(Append(Front(stack), f), g)
<1> DEFINE top == Last(stack)
<1>1. /\ top \in FrameType /\ top.mod \in Module /\ top.op \in {"init", "down"}
      /\ top.left \in Seq(Module) /\ top.own \in BOOLEAN /\ top.ok \in BOOLEAN
      /\ FrameOK(top, startOk)
  BY TopParts
<1>2. stack \in Seq(FrameType)
  BY DEF StackOK
<1>3. Front(stack) \in Seq(FrameType)
  BY <1>2, FrontAndTop
<1> HIDE DEF top
<1>4. top.left # << >> /\ Distinct(top.left) /\ ToSet(top.left) \subseteq Needs(top.mod, startOk)
  BY <1>1 DEF FrameOK, top
<1>5. /\ Tail(top.left) \in Seq(Module) /\ Distinct(Tail(top.left))
      /\ ToSet(Tail(top.left)) = ToSet(top.left) \ {Head(top.left)}
      /\ Head(top.left) \in ToSet(top.left)
      /\ Tail(top.left) # << >> => Tail(top.left)[Len(Tail(top.left))] = top.left[Len(top.left)]
  BY <1>1, <1>4, TailOfDistinct
<1>6. /\ f \in FrameType /\ f.mod = top.mod /\ f.op = top.op
      /\ f.own = top.own /\ f.ok = top.ok /\ f.left = Tail(top.left)
  BY <1>1, <1>5 DEF FrameType, top
<1>7. ASSUME top.op = "init" \/ top.own PROVE FrameOK(f, startOk)
  BY <1>1, <1>4, <1>5, <1>6, <1>7 DEF FrameOK
<1>8. AfterCall(<< >>) = (Front(stack) \o <<f>>) \o << >>
  BY DEF AfterCall
<1>9. \A g : AfterCall(<<g>>) = (Front(stack) \o <<f>>) \o <<g>>
  BY DEF AfterCall
<1>10. Front(stack) \o <<f>> = Append(Front(stack), f) /\ Append(Front(stack), f) \in Seq(FrameType)
  BY <1>3, <1>6, AppendIsConcat, AppendProperties
<1>11. AfterCall(<< >>) = Append(Front(stack), f)
  BY <1>8, <1>10, ConcatEmptySeq
<1>12. ASSUME NEW g \in FrameType PROVE AfterCall(<<g>>) = Append(Append(Front(stack), f), g)
  <2> DEFINE h == Front(stack) \o <<f>>
  <2>1. h \in Seq(FrameType) /\ h = Append(Front(stack), f)
    BY <1>10
  <2>2. AfterCall(<<g>>) = h \o <<g>>
    BY <1>9
  <2> HIDE DEF h
  <2>3. Append(h, g) = h \o <<g>>
    BY <2>1, AppendIsConcat
  <2> QED BY <2>1, <2>2, <2>3
<1> QED BY <1>1, <1>4, <1>5, <1>6, <1>7, <1>11, <1>12 DEF top

\* The module called gains a client, and if it starts to initialise itself
\* holds nothing yet.
LEMMA InitCallKeeps ==
  ASSUME IInv, InitCall
  PROVE  IInv'
<1> DEFINE c == Last(stack).mod
           m == Head(Last(stack).left)
           f == [Last(stack) EXCEPT !.left = Tail(@)]
           g == Frame(m, "init", Uses[m])
           mid == Append(Front(stack), f)
<1>1. /\ InFrame("init") /\ Last(stack).ok /\ Last(stack).left # << >>
      /\ built' = Instance(built, m)
      /\ refs' = [refs EXCEPT ![m] = @ + 1]
      /\ stack' = AfterCall(IF inited[m] THEN << >> ELSE <<g>>)
      /\ UNCHANGED <<main, inited, startOk, medium, lldb, thread, ghosts>>
  BY DEF InitCall
<1>2. /\ main \in {"register", "registered"} /\ startOk = FALSE /\ ghosts = {}
      /\ stack # << >> /\ StackOK(stack, startOk) /\ 1 \in 1..Len(stack)
      /\ \A i \in 1..Len(stack) : stack[i].op = "init"
      /\ stack[1].mod \in Top /\ stack[1].ok /\ ~Failed
  BY <1>1, DuringInit
<1>3. /\ f \in FrameType /\ f.mod = c /\ f.op = Last(stack).op
      /\ f.own = Last(stack).own /\ f.ok = Last(stack).ok /\ f.left = Tail(Last(stack).left)
      /\ ToSet(f.left) = ToSet(Last(stack).left) \ {m}
      /\ m \in Needs(c, startOk) /\ m \in ToSet(Last(stack).left)
      /\ FrameOK(f, startOk)
      /\ AfterCall(<< >>) = mid
      /\ \A h \in FrameType : AfterCall(<<h>>) = Append(mid, h)
  BY <1>1, <1>2, CallIs DEF InFrame
<1>4. /\ Last(stack) = stack[Len(stack)] /\ Len(stack) \in 1..Len(stack)
      /\ c \in Module /\ Last(stack).own \in BOOLEAN /\ Last(stack).ok \in BOOLEAN
      /\ Has(stack, c) /\ \A u : Kept(stack, c, u) <=> Keeps(Last(stack), u)
      /\ \A i \in 1..Len(stack) : stack[i].mod = c => i = Len(stack)
  BY <1>2, TopParts
<1>5. /\ m \in Module /\ m \in ToSet(Uses[c]) /\ m \notin Top /\ ~Has(stack, m) /\ m # c
      /\ m = "Debugger" => c = "Driver"
  <2>1. m \in Module /\ ~Has(stack, m)
    BY <1>2, <1>3, NeededNotOnStack
  <2>2. m \in ToSet(Uses[c])
    BY <1>2, <1>3 DEF Needs
  <2> QED BY <1>4, <2>1, <2>2, UsesBelow
<1>6. c = Last(stack).mod /\ m = Head(Last(stack).left) /\ mid = Append(Front(stack), f)
  OBVIOUS
<1> HIDE DEF c, m, f, g, mid
<1>31. /\ StackOK(mid, startOk) /\ mid # << >> /\ Len(mid) = Len(stack) /\ Last(mid) = f
       /\ \A i \in 1..Len(stack) : mid[i] = IF i = Len(stack) THEN f ELSE stack[i]
       /\ \A x : Has(mid, x) <=> Has(stack, x)
       /\ \A x, u : Kept(mid, x, u) <=> IF x = c THEN Keeps(f, u) ELSE Kept(stack, x, u)
  <2>1. f.mod = Last(stack).mod
    BY <1>3, <1>6
  <2>2. TopChanged(stack, f, mid, startOk)
    BY <1>2, <1>3, <1>6, <2>1, TopChanges
  <2> QED BY <1>3, <2>2 DEF TopChanged
<1>7. /\ g \in FrameType /\ g.mod = m /\ g.op = "init" /\ g.left = Uses[m]
      /\ FrameOK(g, startOk) /\ Called(f, g, startOk)
  <2>1. Uses[m] \in Seq(Module) /\ Distinct(Uses[m])
    BY <1>5, UsesAreSeqs
  <2>2. /\ g \in FrameType /\ g.mod = m /\ g.op = "init" /\ g.left = Uses[m]
        /\ g.own = FALSE /\ g.ok = TRUE
    BY <1>5, <2>1 DEF g, Frame, FrameType
  <2>3. FrameOK(g, startOk)
    BY <1>2, <1>5, <2>1, <2>2 DEF FrameOK, Needs, Top
  <2>4. Called(f, g, startOk)
    BY <1>1, <1>2, <1>3, <1>4, <2>2 DEF Called
  <2> QED BY <2>2, <2>3, <2>4
<1>8. inited[m] => stack' = mid
  BY <1>1, <1>3
<1>9. ASSUME ~inited[m]
      PROVE  /\ stack' = Append(mid, g)
             /\ StackOK(stack', startOk) /\ Len(stack') = Len(mid) + 1
             /\ \A i \in 1..Len(stack') : stack'[i] = IF i = Len(stack') THEN g ELSE mid[i]
             /\ \A x : Has(stack', x) <=> Has(mid, x) \/ x = m
             /\ \A x, u : Kept(stack', x, u) <=> IF x = m THEN Keeps(g, u) ELSE Kept(mid, x, u)
  <2>1. stack' = Append(mid, g)
    BY <1>1, <1>3, <1>7, <1>9
  <2>2. Called(Last(mid), g, startOk)
    BY <1>31, <1>7
  <2>3. Pushed(mid, g, stack', startOk)
    BY <1>31, <1>7, <2>1, <2>2, CallPushes
  <2> QED BY <1>7, <2>1, <2>3 DEF Pushed
<1>10. StackOK(stack', startOk') /\ stack' # << >>
  BY <1>1, <1>31, <1>8, <1>9, Empty
<1>11. \A x : Has(stack', x) <=> Has(stack, x) \/ (x = m /\ ~inited[m])
  BY <1>31, <1>8, <1>9
<1>12. \A i \in 1..Len(stack) :
         /\ i \in 1..Len(stack') /\ stack'[i].mod = stack[i].mod
         /\ stack'[i].op = "init" /\ stack'[i].ok = stack[i].ok
  <2>1. Len(stack) \in Nat
    BY <1>2, FrameParts
  <2>2. \A i \in 1..Len(stack) : mid[i].mod = stack[i].mod /\ mid[i].op = "init" /\ mid[i].ok = stack[i].ok
    BY <1>2, <1>3, <1>4, <1>6, <1>31
  <2> QED BY <1>31, <1>8, <1>9, <2>1, <2>2
<1>13. \A i \in 1..Len(stack') : i \in 1..Len(stack) \/ (stack'[i] = g /\ ~inited[m] /\ i > 1)
  <2>1. Len(stack) \in Nat
    BY <1>2, FrameParts
  <2> QED BY <1>2, <1>31, <1>8, <1>9, <2>1
<1>14. ~Failed'
  BY <1>1, <1>2, <1>10, <1>12 DEF Failed
<1>15. /\ refs \in [Module -> Int] /\ refs' \in [Module -> Int] /\ inited \in [Module -> BOOLEAN]
       /\ \A x \in Module : refs'[x] = IF x = m THEN refs[m] + 1 ELSE refs[x]
  BY <1>1, <1>5 DEF IInv, TypeInv
<1>16. /\ ~inited[m] => refs[m] <= 0
       /\ inited[m] /\ m # "Log" => refs[m] > 0
  BY <1>2, <1>5, <1>15 DEF IInv, RestInv, Top
<1>17. refs[m] >= 0
  BY <1>2, <1>5, FiniteClients DEF IInv, CountInv, Extra
<1>18. \A i \in 1..Len(stack) : stack[i].mod \in Module /\ stack[i].mod # m
  BY <1>2, <1>5, FrameParts DEF Has
<1>19. ASSUME NEW u \in Module, NEW x \in Module, u \in ToSet(Uses[x])
       PROVE  Holds(stack', refs', inited', x, u) <=>
                Holds(stack, refs, inited, x, u) \/ (x = c /\ u = m)
  <2>1. CASE x = c
    <3>1. Has(stack', x) /\ Has(stack, x) /\ x # m
      BY <1>4, <1>5, <1>11, <2>1
    <3>2. Kept(stack', x, u) <=> Keeps(f, u)
      BY <1>31, <1>8, <1>9, <2>1, <3>1
    <3>3. Kept(stack, x, u) <=> Keeps(Last(stack), u)
      BY <1>4, <2>1
    <3>4. Keeps(f, u) <=> Keeps(Last(stack), u) \/ u = m
      BY <1>1, <1>3 DEF Keeps, InFrame
    <3> QED BY <2>1, <3>1, <3>2, <3>3, <3>4 DEF Holds
  <2>2. CASE x = m /\ inited[m]
    <3>1. m # "Log" /\ m # "DriverMgr"
      BY <1>5, <1>19, <2>2, Graph DEF Top
    <3> QED BY <1>5, <1>11, <1>15, <1>16, <2>2, <3>1 DEF Holds, Alive
  <2>3. CASE x = m /\ ~inited[m]
    <3>1. ~Keeps(g, u)
      BY <1>7, <1>19, <2>3 DEF Keeps
    <3> QED BY <1>5, <1>9, <1>11, <1>15, <1>16, <2>3, <3>1 DEF Holds, Alive, Top
  <2>4. CASE x # c /\ x # m
    <3>1. Has(stack', x) <=> Has(stack, x)
      BY <1>11, <2>4
    <3>2. Kept(stack', x, u) <=> Kept(stack, x, u)
      BY <1>31, <1>8, <1>9, <2>4
    <3>3. Alive(refs', inited', x) <=> Alive(refs, inited, x)
      BY <1>1, <1>15, <2>4 DEF Alive
    <3> QED BY <2>4, <3>1, <3>2, <3>3 DEF Holds
  <2> QED BY <2>1, <2>2, <2>3, <2>4
<1>20. CountInv'
  <2>1. SUFFICES ASSUME NEW u \in Module \ Top
                 PROVE  refs'[u] = Cardinality(Clients(stack', refs', inited', u)) + Extra(u)
    BY <1>1, <1>2 DEF CountInv
  <2>2. refs[u] = Cardinality(Clients(stack, refs, inited, u)) + Extra(u)
    BY <1>2 DEF IInv, CountInv
  <2>3. Extra(u) \in {0, 1}
    BY <1>1 DEF Extra
  <2>4. CASE u = m
    <3>1. ~Holds(stack, refs, inited, c, u)
      BY <1>1, <1>3, <1>4, <2>4 DEF Holds, Keeps, InFrame
    <3>2. Cardinality(Clients(stack', refs', inited', u)) = Cardinality(Clients(stack, refs, inited, u)) + 1
      BY <1>4, <1>5, <1>19, <2>4, <3>1, ClientsGain
    <3> QED BY <1>15, <2>2, <2>3, <2>4, <3>2, FiniteClients
  <2>5. CASE u # m
    <3>1. Clients(stack', refs', inited', u) = Clients(stack, refs, inited, u)
      BY <1>19, <2>5, ClientsSame
    <3> QED BY <1>15, <2>2, <2>3, <2>5, <3>1
  <2> QED BY <2>4, <2>5
<1>21. MainInv'
  <2>1. \A i \in 1..Len(stack') : stack'[i].op = "init"
    BY <1>7, <1>12, <1>13
  <2>2. stack'[1].mod = stack[1].mod
    BY <1>2, <1>12
  <2> QED BY <1>1, <1>2, <2>1, <2>2 DEF IInv, MainInv, Bottom
<1>22. TopInv'
  BY <1>1, <1>2, <1>5, <1>10, <1>15 DEF IInv, TopInv, DriverCounted, Top, Module
<1>23. FrameInv'
  <2>1. ASSUME NEW i \in 1..Len(stack')
        PROVE  stack'[i].op = "init" /\ ~inited'[stack'[i].mod] /\ (i > 1 => refs'[stack'[i].mod] = 1)
    <3>1. CASE i \in 1..Len(stack)
      BY <1>1, <1>2, <1>12, <1>15, <1>18, <3>1 DEF IInv, FrameInv
    <3>2. CASE i \notin 1..Len(stack)
      BY <1>1, <1>5, <1>7, <1>13, <1>15, <1>16, <1>17, <3>2
    <3> QED BY <3>1, <3>2
  <2> QED BY <2>1 DEF FrameInv
<1>24. RestInv'
  <2>1. ASSUME NEW x \in Module, ~Has(stack', x)
        PROVE  /\ refs'[x] > 0 => inited'[x] \/ x = "DriverMgr"
               /\ inited'[x] /\ x \notin Top \cup {"Log"} => refs'[x] > 0
    BY <1>1, <1>2, <1>11, <1>15, <1>16, <2>1 DEF IInv, RestInv
  <2> QED BY <2>1 DEF RestInv
<1>25. EarlyInv'
  <2>1. SUFFICES ASSUME ~inited["Log"]
                 PROVE  /\ ~medium
                        /\ main = "register" /\ Len(stack') = 2
                        /\ stack'[1].left = <<"Resources">> /\ stack'[2].mod = "Log"
    BY <1>1 DEF EarlyInv
  <2>2. /\ ~medium /\ main = "register"
        /\ Len(stack) \in {1, 2}
        /\ stack[1].left = IF Len(stack) = 1 THEN <<"Log", "Resources">> ELSE <<"Resources">>
        /\ Len(stack) = 2 => stack[2].mod = "Log"
    BY <1>2, <2>1 DEF IInv, EarlyInv
  <2>3. Len(stack) = 1
    <3>1. ASSUME Len(stack) = 2 PROVE FALSE
      <4>1. c = "Log"
        BY <1>4, <1>6, <2>2, <3>1
      <4> QED BY <1>5, <4>1, Graph DEF Module
    <3> QED BY <2>2, <3>1
  <2>4. m = "Log" /\ f.left = <<"Resources">>
    <3>1. Head(<<"Log", "Resources">>) = "Log" /\ Tail(<<"Log", "Resources">>) = <<"Resources">>
      OBVIOUS
    <3>2. Last(stack).left = <<"Log", "Resources">>
      BY <1>4, <2>2, <2>3
    <3> QED BY <1>3, <1>6, <3>1, <3>2
  <2>5. Len(stack') = 2 /\ stack'[1] = f /\ stack'[2] = g
    BY <1>31, <1>9, <2>1, <2>3, <2>4
  <2> QED BY <1>7, <1>15, <2>2, <2>4, <2>5 DEF Module
<1>26. DebuggerInv'
  BY <1>1, <1>2, <1>14 DEF IInv, DebuggerInv
<1>27. MediumInv'
  <2>1. medium => refs["Log"] > 0
    BY <1>2 DEF IInv, MediumInv
  <2> QED BY <1>1, <1>15, <2>1 DEF MediumInv, Module
<1>28. BuiltInv'
  <2>1. /\ BuiltOK(built') /\ Contains(built', m)
        /\ \A y : Contains(built, y) => Contains(built', y)
    BY <1>1, <1>5, InstanceBuilds DEF IInv, BuiltInv, Singleton
  <2>2. refs'["CmdMgr"] <= 1
    <3>1. "CmdMgr" \in Module \ Top /\ Extra("CmdMgr") = 0
      BY DEF Module, Top, Extra
    <3>2. refs'["CmdMgr"] = Cardinality(Clients(stack', refs', inited', "CmdMgr")) + Extra("CmdMgr")
      BY <1>1, <1>2, <1>20, <3>1 DEF CountInv
    <3> QED BY <3>1, <3>2, OneUser, FiniteClients
  <2>3. refs'["CmdMgr"] > 0 => Contains(built', "CmdMgr")
    BY <1>15, <2>1 DEF IInv, BuiltInv, Module
  <2> QED BY <2>1, <2>2, <2>3 DEF BuiltInv
<1>29. LeftInv' /\ TypeInv'
  BY <1>1, <1>2, <1>15 DEF IInv, LeftInv, TypeInv
<1> QED BY <1>10, <1>20, <1>21, <1>22, <1>23, <1>24, <1>25, <1>26, <1>27, <1>28, <1>29 DEF IInv

\* The module on top has initialised what it uses.
LEMMA Initialised ==
  ASSUME IInv, InFrame("init"), Last(stack).left = << >>,
         NEW c, c = Last(stack).mod
  PROVE  /\ c \in Module /\ ~inited[c] /\ Has(stack, c)
         /\ Len(stack) \in 1..Len(stack) /\ Last(stack) = stack[Len(stack)]
         /\ c = "Driver" => main = "registered" /\ refs[c] = 1
         /\ c = "DriverMgr" => main = "register"
         /\ c = "Driver" <=> main = "registered" /\ Len(stack) = 1
         /\ c = "DriverMgr" <=> main = "register" /\ Len(stack) = 1
         /\ c \notin Top => Len(stack) > 1 /\ refs[c] = 1
         /\ \A u : Kept(stack, c, u)
         /\ Popped(stack, Front(stack), startOk)
<1>1. /\ main \in {"register", "registered"} /\ startOk = FALSE
      /\ stack # << >> /\ StackOK(stack, startOk) /\ 1 \in 1..Len(stack)
      /\ \A i \in 1..Len(stack) : stack[i].op = "init"
      /\ stack[1].mod \in Top
  BY DuringInit
<1>2. /\ Len(stack) \in 1..Len(stack) /\ Len(stack) \in Nat \ {0} /\ Last(stack) = stack[Len(stack)]
      /\ c \in Module /\ Has(stack, c)
      /\ \A u : Kept(stack, c, u) <=> Keeps(Last(stack), u)
  BY <1>1, TopParts
<1>3. \A u : Kept(stack, c, u)
  BY <1>2, EmptySeq DEF Keeps, InFrame, ToSet
<1>4. ~inited[c] /\ (Len(stack) > 1 => refs[c] = 1)
  BY <1>1, <1>2 DEF IInv, FrameInv
<1>5. Len(stack) = 1 => c = stack[1].mod
  BY <1>2
<1>6. /\ main = "register" => stack[1].mod = "DriverMgr"
      /\ main = "registered" => stack[1].mod = "Driver"
  BY <1>1 DEF IInv, MainInv, Bottom
<1>7. Len(stack) # 1 => c \notin Top
  BY <1>1, <1>2, TopFrames DEF Top
<1>8. main = "registered" => refs["Driver"] = 1
  BY DEF IInv, TopInv, DriverCounted
<1>9. Popped(stack, Front(stack), startOk)
  BY <1>1, CallReturns
<1> QED BY <1>1, <1>2, <1>3, <1>4, <1>5, <1>6, <1>7, <1>8, <1>9 DEF Top

\* What a module holds does not change when its Initialize returns.
LEMMA ReturnHolds ==
  ASSUME IInv, InFrame("init"), Last(stack).left = << >>,
         NEW c, c = Last(stack).mod,
         \A x : Has(stack', x) <=> Has(stack, x) /\ x # c,
         \A x, u : x # c => (Kept(stack', x, u) <=> Kept(stack, x, u)),
         refs' = refs,
         inited'["DriverMgr"] <=> (c = "DriverMgr" \/ inited["DriverMgr"]),
         NEW u
  PROVE  Clients(stack', refs', inited', u) = Clients(stack, refs, inited, u)
<1>1. /\ c \in Module /\ Has(stack, c) /\ \A y : Kept(stack, c, y)
      /\ c = "Driver" => refs[c] = 1
      /\ c \notin Top => refs[c] = 1
  BY Initialised
<1>2. ASSUME NEW x \in Module, u \in ToSet(Uses[x])
      PROVE  Holds(stack', refs', inited', x, u) <=> Holds(stack, refs, inited, x, u)
  <2>1. CASE x = c
    BY <1>1, <2>1 DEF Holds, Alive, Top
  <2>2. CASE x # c
    BY <2>2 DEF Holds, Alive
  <2> QED BY <2>1, <2>2
<1> QED BY <1>2, ClientsSame

\* FrameInv and MainInv of the stack below.
LEMMA BelowKept ==
  ASSUME IInv, InFrame("init"), Last(stack).left = << >>,
         NEW t, Popped(stack, t, startOk)
  PROVE  \A i \in 1..Len(t) :
           /\ i \in 1..Len(stack) /\ t[i] = stack[i]
           /\ t[i].op = "init" /\ ~inited[t[i].mod] /\ (i > 1 => refs[t[i].mod] = 1)
           /\ t[i].mod # Last(stack).mod /\ t[i].ok
<1>1. /\ \A i \in 1..Len(stack) : stack[i].op = "init"
      /\ StackOK(stack, startOk) /\ stack # << >>
  BY DuringInit
<1>2. Len(t) = Len(stack) - 1 /\ \A i \in 1..Len(t) : i \in 1..Len(stack) /\ t[i] = stack[i]
  BY DEF Popped
<1>3. /\ Len(stack) \in Nat \ {0}
      /\ \A i \in 1..Len(stack) : stack[i].mod = Last(stack).mod => i = Len(stack)
  BY <1>1, TopParts
<1>4. \A i \in 1..Len(t) : i # Len(stack) /\ i + 1 \in 1..Len(stack)
  BY <1>2, <1>3
<1>5. \A i \in 1..Len(t) : stack[i].ok
  BY <1>1, <1>2, <1>4 DEF StackOK, Called
<1> QED BY <1>1, <1>2, <1>3, <1>4, <1>5 DEF IInv, FrameInv

\* The log returns from Initialize, to the manager's.
LEMMA InitLogKeeps ==
  ASSUME IInv, InitLog
  PROVE  IInv'
<1>1. /\ InFrame("init") /\ Last(stack).ok /\ Last(stack).left = << >> /\ Last(stack).mod = "Log"
      /\ built' = Instance(built, "LogFile")
      /\ inited' = [inited EXCEPT !["Log"] = TRUE]
      /\ medium' = TRUE
      /\ stack' = Front(stack)
      /\ UNCHANGED <<main, refs, startOk, lldb, thread, ghosts>>
  BY DEF InitLog, Initialising, Return
<1>2. /\ main \in {"register", "registered"} /\ startOk = FALSE /\ ghosts = {}
      /\ stack # << >> /\ StackOK(stack, startOk) /\ 1 \in 1..Len(stack) /\ ~Failed
  BY <1>1, DuringInit
<1>3. /\ ~inited["Log"] /\ refs["Log"] = 1 /\ Len(stack) > 1
      /\ Len(stack) \in 1..Len(stack) /\ Last(stack) = stack[Len(stack)]
      /\ Has(stack, "Log") /\ Popped(stack, stack', startOk)
  BY <1>1, Initialised DEF Top
<1>4. /\ main = "register" /\ Len(stack) = 2
      /\ stack[1].left = <<"Resources">>
  BY <1>2, <1>3 DEF IInv, EarlyInv
<1>5. /\ refs \in [Module -> Int]
      /\ inited \in [Module -> BOOLEAN] /\ inited' \in [Module -> BOOLEAN]
      /\ \A x \in Module : inited'[x] <=> x = "Log" \/ inited[x]
  BY <1>1 DEF IInv, TypeInv
<1>6. /\ StackOK(stack', startOk) /\ Len(stack') = 1
      /\ \A x : Has(stack', x) <=> Has(stack, x) /\ x # "Log"
      /\ \A x, u : Kept(stack', x, u) <=> Kept(stack, x, u) /\ x # "Log"
  BY <1>1, <1>3, <1>4 DEF Popped
<1>7. stack'[1] = stack[1] /\ stack'[1].op = "init" /\ stack'[1].mod = "DriverMgr" /\ stack' # << >>
  <2>1. 1 \in 1..Len(stack')
    BY <1>6
  <2>2. stack'[1] = stack[1] /\ stack'[1].op = "init"
    BY <1>1, <1>3, <2>1, BelowKept
  <2>3. stack[1].mod = "DriverMgr"
    BY <1>2, <1>4 DEF IInv, MainInv, Bottom
  <2> QED BY <1>6, <2>2, <2>3, Empty
<1>8. CountInv'
  <2>1. SUFFICES ASSUME NEW u \in Module \ Top
                 PROVE  refs'[u] = Cardinality(Clients(stack', refs', inited', u)) + Extra(u)
    BY <1>1, <1>2 DEF CountInv
  <2>2. Clients(stack', refs', inited', u) = Clients(stack, refs, inited, u)
    <3>1. inited'["DriverMgr"] <=> ("Log" = "DriverMgr" \/ inited["DriverMgr"])
      BY <1>5 DEF Module
    <3>2. \A x, y : x # "Log" => (Kept(stack', x, y) <=> Kept(stack, x, y))
      BY <1>6
    <3> QED BY <1>1, <1>6, <3>1, <3>2, ReturnHolds
  <2>3. refs[u] = Cardinality(Clients(stack, refs, inited, u)) + Extra(u)
    BY <1>2 DEF IInv, CountInv
  <2> QED BY <1>1, <2>2, <2>3
<1>9. MainInv'
  BY <1>1, <1>2, <1>4, <1>6, <1>7 DEF IInv, MainInv, Bottom
<1>10. TopInv'
  BY <1>1, <1>2, <1>4, <1>5, <1>7 DEF IInv, TopInv, DriverCounted, Module
<1>11. FrameInv'
  <2>1. ~inited["DriverMgr"]
    BY <1>2, <1>7, <1>1, <1>3, BelowKept, <1>6
  <2> QED BY <1>5, <1>6, <1>7, <2>1 DEF FrameInv, Module
<1>12. RestInv'
  <2>1. ASSUME NEW x \in Module, ~Has(stack', x)
        PROVE  /\ refs'[x] > 0 => inited'[x] \/ x = "DriverMgr"
               /\ inited'[x] /\ x \notin Top \cup {"Log"} => refs'[x] > 0
    <3>1. CASE x = "Log"
      BY <1>3, <1>5, <3>1 DEF Module
    <3>2. CASE x # "Log"
      <4>1. ~Has(stack, x)
        BY <1>6, <2>1, <3>2
      <4>2. /\ refs[x] > 0 => inited[x] \/ x = "DriverMgr"
            /\ inited[x] /\ x \notin Top \cup {"Log"} => refs[x] > 0
        BY <1>2, <4>1 DEF IInv, RestInv
      <4> QED BY <1>1, <1>5, <3>2, <4>2
    <3> QED BY <3>1, <3>2
  <2> QED BY <2>1 DEF RestInv
<1>13. EarlyInv' /\ MediumInv'
  <2>1. inited'["Log"] /\ refs'["Log"] > 0
    BY <1>1, <1>3, <1>5 DEF Module
  <2> QED BY <2>1 DEF EarlyInv, MediumInv
<1>14. DebuggerInv'
  BY <1>1, <1>2, <1>4, <1>5 DEF IInv, DebuggerInv, Failed, Module
<1>15. BuiltInv'
  BY <1>1, <1>5, InstanceBuilds DEF IInv, BuiltInv, Singleton, Module
<1>16. LeftInv' /\ TypeInv'
  BY <1>1, <1>2, <1>5 DEF IInv, LeftInv, TypeInv
<1> QED BY <1>1, <1>6, <1>8, <1>9, <1>10, <1>11, <1>12, <1>13, <1>14, <1>15, <1>16 DEF IInv

\* A module that returns from Initialize holds what its frame held: all.
LEMMA InitModuleKeeps ==
  ASSUME IInv, InitModule
  PROVE  IInv'
<1>1. PICK m \in Module \ {"Log", "Debugger"} : Initialising(m) /\ inited' = [inited EXCEPT ![m] = TRUE]
  BY DEF InitModule
<1>2. /\ InFrame("init") /\ Last(stack).ok /\ Last(stack).left = << >> /\ Last(stack).mod = m
      /\ stack' = Front(stack)
      /\ UNCHANGED <<main, refs, built, startOk, medium, lldb, thread, ghosts>>
  BY <1>1 DEF InitModule, Initialising, Return
<1>3. /\ main \in {"register", "registered"} /\ startOk = FALSE /\ ghosts = {}
      /\ stack # << >> /\ StackOK(stack, startOk) /\ 1 \in 1..Len(stack) /\ ~Failed
  BY <1>2, DuringInit
<1>4. /\ ~inited[m] /\ Len(stack) \in 1..Len(stack) /\ Last(stack) = stack[Len(stack)]
      /\ m = "Driver" <=> main = "registered" /\ Len(stack) = 1
      /\ m = "DriverMgr" <=> main = "register" /\ Len(stack) = 1
      /\ m \notin Top => Len(stack) > 1 /\ refs[m] = 1
      /\ Popped(stack, stack', startOk)
  BY <1>2, Initialised
<1>5. /\ refs \in [Module -> Int]
      /\ inited \in [Module -> BOOLEAN] /\ inited' \in [Module -> BOOLEAN]
      /\ \A x \in Module : inited'[x] <=> x = m \/ inited[x]
  BY <1>1 DEF IInv, TypeInv
<1>6. /\ StackOK(stack', startOk) /\ Len(stack') = Len(stack) - 1
      /\ \A x : Has(stack', x) <=> Has(stack, x) /\ x # m
      /\ \A x, u : Kept(stack', x, u) <=> Kept(stack, x, u) /\ x # m
  BY <1>2, <1>4 DEF Popped
<1>7. \A i \in 1..Len(stack') :
        /\ i \in 1..Len(stack) /\ stack'[i] = stack[i]
        /\ stack'[i].op = "init" /\ ~inited[stack'[i].mod] /\ (i > 1 => refs[stack'[i].mod] = 1)
        /\ stack'[i].mod # m /\ stack'[i].mod \in Module
  <2>1. \A i \in 1..Len(stack) : stack[i].mod \in Module
    BY <1>3, FrameParts
  <2> QED BY <1>2, <1>4, <2>1, BelowKept
<1>8. stack' = << >> <=> Len(stack) = 1
  BY <1>3, <1>4, <1>6, TopParts, Empty DEF StackOK
<1>9. Len(stack) # 1 => 1 \in 1..Len(stack')
  BY <1>4, <1>6
<1>10. inited["Log"]
  <2>1. SUFFICES ASSUME ~inited["Log"] PROVE FALSE
    OBVIOUS
  <2>2. /\ Len(stack) \in {1, 2}
        /\ stack[1].left = IF Len(stack) = 1 THEN <<"Log", "Resources">> ELSE <<"Resources">>
        /\ Len(stack) = 2 => stack[2].mod = "Log"
    BY <1>3, <2>1 DEF IInv, EarlyInv
  <2>3. <<"Log", "Resources">> # << >>
    OBVIOUS
  <2> QED BY <1>1, <1>2, <1>4, <2>2, <2>3
<1>11. CountInv'
  <2>1. SUFFICES ASSUME NEW u \in Module \ Top
                 PROVE  refs'[u] = Cardinality(Clients(stack', refs', inited', u)) + Extra(u)
    BY <1>2, <1>3 DEF CountInv
  <2>2. Clients(stack', refs', inited', u) = Clients(stack, refs, inited, u)
    <3>1. inited'["DriverMgr"] <=> (m = "DriverMgr" \/ inited["DriverMgr"])
      BY <1>5 DEF Module
    <3>2. \A x, y : x # m => (Kept(stack', x, y) <=> Kept(stack, x, y))
      BY <1>6
    <3> QED BY <1>2, <1>6, <3>1, <3>2, ReturnHolds
  <2>3. refs[u] = Cardinality(Clients(stack, refs, inited, u)) + Extra(u)
    BY <1>3 DEF IInv, CountInv
  <2> QED BY <1>2, <2>2, <2>3
<1>12. MainInv'
  <2>1. stack' # << >> => stack'[1] = stack[1]
    BY <1>7, <1>8, <1>9
  <2> QED BY <1>2, <1>3, <1>7, <2>1 DEF IInv, MainInv, Bottom
<1>13. TopInv'
  <2>1. stack' # << >> => m \notin Top
    BY <1>4, <1>8 DEF Top
  <2>2. refs["Driver"] = IF main = "registered" THEN 1 ELSE 0
    BY <1>3 DEF IInv, TopInv, DriverCounted
  <2>3. inited'["Driver"] <=> m = "Driver" \/ inited["Driver"]
    BY <1>5 DEF Module
  <2>4. inited'["DriverMgr"] <=> m = "DriverMgr" \/ inited["DriverMgr"]
    BY <1>5 DEF Module
  <2>5. stack' = << >> => (m = "Driver" <=> main = "registered") /\ (m = "DriverMgr" <=> main = "register")
    BY <1>4, <1>8
  <2> QED BY <1>2, <1>3, <1>4, <2>1, <2>2, <2>3, <2>4, <2>5 DEF IInv, TopInv, DriverCounted, Top
<1>14. FrameInv'
  BY <1>2, <1>5, <1>7 DEF FrameInv
<1>15. RestInv'
  <2>1. ASSUME NEW x \in Module, ~Has(stack', x)
        PROVE  /\ refs'[x] > 0 => inited'[x] \/ x = "DriverMgr"
               /\ inited'[x] /\ x \notin Top \cup {"Log"} => refs'[x] > 0
    <3>1. CASE x = m
      BY <1>2, <1>4, <1>5, <3>1
    <3>2. CASE x # m
      <4>1. ~Has(stack, x)
        BY <1>6, <2>1, <3>2
      <4>2. /\ refs[x] > 0 => inited[x] \/ x = "DriverMgr"
            /\ inited[x] /\ x \notin Top \cup {"Log"} => refs[x] > 0
        BY <1>3, <4>1 DEF IInv, RestInv
      <4> QED BY <1>2, <1>5, <3>2, <4>2
    <3> QED BY <3>1, <3>2
  <2> QED BY <2>1 DEF RestInv
<1>16. EarlyInv'
  BY <1>5, <1>10 DEF EarlyInv, Module
<1>17. DebuggerInv'
  <2>1. inited'["Debugger"] = inited["Debugger"]
    BY <1>1, <1>5 DEF Module
  <2>2. ~Failed'
    <3>1. CASE stack' = << >>
      BY <1>2, <1>3, <1>4, <1>5, <1>8, <3>1 DEF Failed
    <3>2. CASE stack' # << >>
      <4>1. stack'[1] = stack[1] /\ stack[1].ok
        BY <1>2, <1>7, <1>8, <1>9, <3>2, DuringInit
      <4> QED BY <1>2, <1>3, <3>2, <4>1 DEF Failed
    <3> QED BY <3>1, <3>2
  <2> QED BY <1>2, <1>3, <2>1, <2>2 DEF IInv, DebuggerInv
<1>18. MediumInv'
  <2>1. medium => refs["Log"] > 0
    <3>1. \A i \in 1..Len(stack) : stack[i].op = "init"
      BY <1>2, DuringInit
    <3> QED BY <1>3, <3>1 DEF IInv, MediumInv
  <2> QED BY <1>2, <2>1 DEF MediumInv
<1>19. BuiltInv' /\ LeftInv' /\ TypeInv'
  BY <1>2, <1>3, <1>5 DEF IInv, BuiltInv, LeftInv, TypeInv
<1> QED BY <1>2, <1>6, <1>11, <1>12, <1>13, <1>14, <1>15, <1>16, <1>17, <1>18, <1>19 DEF IInv

\* The debugger may fail; the driver, which called it last, then holds all
\* that it uses and the start has Failed.
LEMMA InitDebuggerKeeps ==
  ASSUME IInv, InitDebugger
  PROVE  IInv'
<1>1. PICK outcome \in {"done", "noDebugger", "notSetUp"} :
        /\ lldb' = IF outcome = "noDebugger" THEN lldb ELSE "made"
        /\ inited' = [inited EXCEPT !["Debugger"] = (outcome = "done")]
        /\ Return(outcome = "done")
  BY DEF InitDebugger
<1> DEFINE below == Front(stack)
           f == [Last(below) EXCEPT !.left = << >>, !.ok = FALSE]
           failed == Append(Front(below), f)
<1>2. /\ InFrame("init") /\ Last(stack).ok /\ Last(stack).left = << >> /\ Last(stack).mod = "Debugger"
      /\ UNCHANGED <<main, refs, built, startOk, medium, thread, ghosts>>
  BY DEF InitDebugger, Initialising
<1>3. /\ main \in {"register", "registered"} /\ startOk = FALSE /\ ghosts = {}
      /\ stack # << >> /\ StackOK(stack, startOk) /\ 1 \in 1..Len(stack) /\ ~Failed /\ stack[1].ok
      /\ \A i \in 1..Len(stack) : stack[i].op = "init"
  BY <1>2, DuringInit
<1>4. /\ ~inited["Debugger"] /\ Len(stack) \in 1..Len(stack) /\ Last(stack) = stack[Len(stack)]
      /\ Len(stack) > 1 /\ refs["Debugger"] = 1
      /\ Popped(stack, below, startOk)
  BY <1>2, Initialised DEF Top
<1>30. below = Front(stack)
  OBVIOUS
<1> HIDE DEF below, f, failed
<1>5. /\ StackOK(below, startOk) /\ Len(below) = Len(stack) - 1
      /\ \A x : Has(below, x) <=> Has(stack, x) /\ x # "Debugger"
      /\ \A x, u : Kept(below, x, u) <=> Kept(stack, x, u) /\ x # "Debugger"
      /\ below # << >> => Last(below) = stack[Len(stack) - 1] /\ Called(Last(below), Last(stack), startOk)
  BY <1>2, <1>4 DEF Popped
<1>6. \A i \in 1..Len(below) :
        /\ i \in 1..Len(stack) /\ below[i] = stack[i]
        /\ below[i].op = "init" /\ ~inited[below[i].mod] /\ (i > 1 => refs[below[i].mod] = 1)
        /\ below[i].mod # "Debugger" /\ below[i].ok
  BY <1>2, <1>4, BelowKept
<1>7. main = "registered" /\ Len(stack) = 2 /\ stack[1].mod = "Driver"
  <2>1. stack[Len(stack) - 1].mod = "Driver" /\ Len(stack) - 1 \in 1..Len(stack)
    BY <1>2, <1>3, <1>4, TopFrames
  <2>2. Len(stack) - 1 = 1
    BY <1>3, <2>1, TopFrames
  <2>3. main # "register"
    BY <1>3, <2>1, <2>2 DEF IInv, MainInv, Bottom
  <2>4. Len(stack) \in Nat
    BY <1>3, TopParts
  <2>5. Len(stack) = 2
    BY <2>2, <2>4
  <2> QED BY <1>3, <2>1, <2>2, <2>3, <2>5
<1>8. /\ Len(below) = 1 /\ below # << >> /\ 1 \in 1..Len(below) /\ below[1] = stack[1]
      /\ below[1].mod = "Driver" /\ below[1].op = "init" /\ below[1].ok /\ ~inited["Driver"]
  <2>1. Len(below) = 1
    BY <1>5, <1>7
  <2>2. 1 \in 1..Len(below)
    BY <2>1
  <2>3. below # << >>
    BY <2>1, Empty
  <2> QED BY <1>6, <1>7, <2>1, <2>2, <2>3
<1>9. /\ Last(below) = below[1] /\ Last(below) \in FrameType
      /\ Last(below).left = << >>
      /\ FrameOK(Last(below), startOk)
  <2>1. /\ Last(below) = below[Len(below)] /\ Last(below) \in FrameType /\ Last(below).left \in Seq(Module)
        /\ FrameOK(Last(below), startOk)
    BY <1>5, <1>8, TopParts
  <2>2. "Debugger" \notin ToSet(Last(below).left)
    BY <1>2, <1>5, <1>8 DEF Called
  <2>3. ASSUME Last(below).left # << >> PROVE FALSE
    <3>1. Last(below).left[Len(Last(below).left)] = "Debugger"
      BY <1>8, <2>1, <2>3 DEF FrameOK
    <3>2. Len(Last(below).left) \in 1..Len(Last(below).left)
      <4>1. Len(Last(below).left) \in Nat \ {0}
        BY <2>1, <2>3, EmptySeq
      <4> QED BY <4>1
    <3> QED BY <2>1, <2>2, <3>1, <3>2, SetOfSeq
  <2> QED BY <1>8, <2>1, <2>3
<1>10. /\ f \in FrameType /\ f.mod = "Driver" /\ f.op = "init" /\ f.left = << >> /\ ~f.ok
       /\ f.mod = Last(below).mod /\ f.op = Last(below).op
       /\ FrameOK(f, startOk)
  <2>1. Last(below).mod = "Driver" /\ Last(below).op = "init"
    BY <1>8, <1>9
  <2>2. << >> \in Seq(Module) /\ Distinct(<< >>) /\ ToSet(<< >>) = {}
    <3>1. << >> \in Seq(Module) /\ Len(<< >>) = 0
      BY EmptySeq
    <3>2. Distinct(<< >>)
      BY <3>1 DEF Distinct
    <3>3. ToSet(<< >>) = {}
      BY DEF ToSet
    <3> QED BY <3>1, <3>2, <3>3
  <2>3. /\ f \in FrameType /\ f.mod = Last(below).mod /\ f.op = Last(below).op
        /\ f.left = << >> /\ f.ok = FALSE /\ f.own = Last(below).own
    BY <1>9, <2>2 DEF FrameType, f
  <2>4. FrameOK(f, startOk)
    BY <1>9, <2>1, <2>2, <2>3 DEF FrameOK
  <2> QED BY <2>1, <2>3, <2>4
<1>11. failed = Append(Front(below), f)
  BY DEF failed
<1>12. stack' = IF outcome = "done" THEN below ELSE failed
  BY <1>1, <1>8, <1>30 DEF Return, failed, f
<1>13. /\ StackOK(failed, startOk) /\ failed # << >> /\ Len(failed) = 1 /\ failed[1] = f
       /\ \A x : Has(failed, x) <=> Has(below, x)
       /\ \A x, u : Kept(failed, x, u) <=> Kept(below, x, u)
  <2>1. TopChanged(below, f, failed, startOk)
    BY <1>5, <1>8, <1>10, <1>11, TopChanges
  <2>2. /\ StackOK(failed, startOk) /\ failed # << >> /\ Len(failed) = Len(below) /\ failed[Len(below)] = f
        /\ \A x : Has(failed, x) <=> Has(below, x)
        /\ \A x, u : Kept(failed, x, u) <=> IF x = "Driver" THEN Keeps(f, u) ELSE Kept(below, x, u)
    BY <1>8, <1>10, <2>1 DEF TopChanged
  <2>3. \A u : Keeps(f, u) /\ Keeps(Last(below), u)
    <3>1. ToSet(<< >>) = {}
      BY DEF ToSet
    <3> QED BY <1>8, <1>9, <1>10, <3>1 DEF Keeps
  <2>4. \A u : Kept(below, Last(below).mod, u) <=> Keeps(Last(below), u)
    BY <1>5, <1>8, TopParts
  <2> QED BY <1>8, <1>9, <2>2, <2>3, <2>4
<1>14. /\ StackOK(stack', startOk') /\ stack' # << >> /\ Len(stack') = 1
       /\ stack'[1].mod = "Driver" /\ stack'[1].op = "init"
       /\ stack'[1].ok <=> outcome = "done"
       /\ \A x : Has(stack', x) <=> Has(stack, x) /\ x # "Debugger"
       /\ \A x, u : Kept(stack', x, u) <=> Kept(stack, x, u) /\ x # "Debugger"
  <2>1. CASE outcome = "done"
    BY <1>2, <1>3, <1>5, <1>8, <1>12, <2>1
  <2>2. CASE outcome # "done"
    BY <1>2, <1>3, <1>5, <1>10, <1>12, <1>13, <2>2
  <2> QED BY <2>1, <2>2
<1>15. /\ refs \in [Module -> Int]
       /\ inited \in [Module -> BOOLEAN] /\ inited' \in [Module -> BOOLEAN]
       /\ inited'["Debugger"] <=> outcome = "done"
       /\ \A x \in Module : x # "Debugger" => inited'[x] = inited[x]
       /\ "Debugger" \in Module
  BY <1>1 DEF IInv, TypeInv, Module
<1>16. CountInv'
  <2>1. SUFFICES ASSUME NEW u \in Module \ Top
                 PROVE  refs'[u] = Cardinality(Clients(stack', refs', inited', u)) + Extra(u)
    BY <1>2, <1>3 DEF CountInv
  <2>2. Clients(stack', refs', inited', u) = Clients(stack, refs, inited, u)
    <3>1. inited'["DriverMgr"] <=> ("Debugger" = "DriverMgr" \/ inited["DriverMgr"])
      BY <1>15 DEF Module
    <3>2. \A x, y : x # "Debugger" => (Kept(stack', x, y) <=> Kept(stack, x, y))
      BY <1>14
    <3> QED BY <1>2, <1>14, <3>1, <3>2, ReturnHolds
  <2>3. refs[u] = Cardinality(Clients(stack, refs, inited, u)) + Extra(u)
    BY <1>3 DEF IInv, CountInv
  <2> QED BY <1>2, <2>2, <2>3
<1>17. inited'["Driver"] = inited["Driver"] /\ inited'["DriverMgr"] = inited["DriverMgr"]
       /\ inited'["Log"] = inited["Log"]
  BY <1>15 DEF Module
<1>18. MainInv'
  <2>1. \A i \in 1..Len(stack') : i = 1
    BY <1>14
  <2> QED BY <1>2, <1>3, <1>7, <1>14, <2>1 DEF IInv, MainInv, Bottom
<1>19. TopInv'
  BY <1>2, <1>3, <1>7, <1>14, <1>17 DEF IInv, TopInv, DriverCounted
<1>20. ~inited["Driver"]
  BY <1>8
<1>21. FrameInv'
  <2>1. \A i \in 1..Len(stack') : i = 1
    BY <1>14
  <2> QED BY <1>14, <1>17, <1>20, <2>1 DEF FrameInv
<1>22. Failed' <=> outcome # "done"
  BY <1>2, <1>3, <1>7, <1>14, <1>17, <1>20 DEF Failed
<1>23. RestInv'
  <2>1. SUFFICES ASSUME NEW x \in Module, ~Has(stack', x)
                 PROVE  /\ refs'[x] > 0 => \/ inited'[x] \/ x = "DriverMgr"
                                           \/ (x \in {"Debugger", "Driver"} /\ Failed')
                        /\ inited'[x] /\ x \notin Top \cup {"Log"} => refs'[x] > 0
    BY DEF RestInv
  <2>2. CASE x = "Debugger"
    BY <1>2, <1>4, <1>15, <1>22, <2>2
  <2>3. CASE x # "Debugger"
    <3>1. ~Has(stack, x)
      BY <1>14, <2>1, <2>3
    <3>2. /\ refs[x] > 0 => inited[x] \/ x = "DriverMgr"
          /\ inited[x] /\ x \notin Top \cup {"Log"} => refs[x] > 0
      BY <1>3, <3>1 DEF IInv, RestInv
    <3> QED BY <1>2, <1>15, <2>3, <3>2
  <2> QED BY <2>2, <2>3
<1>24. EarlyInv'
  BY <1>7, <1>17 DEF IInv, EarlyInv
<1>25. DebuggerInv'
  BY <1>1, <1>2, <1>3, <1>7, <1>15, <1>17, <1>20, <1>22 DEF DebuggerInv
<1>26. MediumInv'
  <2>1. medium => refs["Log"] > 0
    BY <1>3 DEF IInv, MediumInv
  <2> QED BY <1>2, <2>1 DEF MediumInv
<1>27. BuiltInv' /\ LeftInv' /\ TypeInv'
  BY <1>1, <1>2, <1>3, <1>15 DEF IInv, BuiltInv, LeftInv, TypeInv
<1> QED BY <1>14, <1>16, <1>18, <1>19, <1>21, <1>23, <1>24, <1>25, <1>26, <1>27 DEF IInv

\* Only the driver's Initialize fails in this way.
LEMMA InitFailsKeeps ==
  ASSUME IInv, InitFails
  PROVE  IInv'
<1>1. /\ InFrame("init") /\ ~Last(stack).ok
      /\ inited' = [inited EXCEPT ![Last(stack).mod] = FALSE]
      /\ Return(FALSE)
      /\ UNCHANGED <<main, refs, built, startOk, medium, lldb, thread, ghosts>>
  BY DEF InitFails
<1>2. /\ main \in {"register", "registered"} /\ startOk = FALSE /\ ghosts = {}
      /\ stack # << >> /\ StackOK(stack, startOk)
      /\ \A i \in 1..Len(stack) : stack[i].op = "init"
  BY <1>1, DuringInit
<1>3. Last(stack).mod = "Driver" /\ Last(stack).left = << >>
  BY <1>1, <1>2, TopParts DEF FrameOK
<1>4. /\ ~inited["Driver"] /\ main = "registered" /\ Len(stack) = 1 /\ refs["Driver"] = 1
      /\ Last(stack) = stack[Len(stack)]
      /\ Popped(stack, Front(stack), startOk)
  BY <1>1, <1>3, Initialised
<1>5. Front(stack) = << >>
  <2>1. Front(stack) \in Seq(FrameType) /\ Len(Front(stack)) = 0
    BY <1>2, <1>4, FrontAndTop DEF StackOK
  <2> QED BY <2>1, EmptySeq
<1>6. stack' = << >>
  BY <1>1, <1>5 DEF Return
<1>7. inited \in [Module -> BOOLEAN] /\ inited' = inited
  <2>1. inited \in [Module -> BOOLEAN]
    BY DEF IInv, TypeInv
  <2>2. inited["Driver"] = FALSE
    BY <1>4, <2>1 DEF Module
  <2> QED BY <1>1, <1>3, <2>1, <2>2
<1>8. /\ \A x : Has(stack', x) <=> Has(stack, x) /\ x # "Driver"
      /\ \A x, u : Kept(stack', x, u) <=> Kept(stack, x, u) /\ x # "Driver"
  BY <1>3, <1>4, <1>5, <1>6 DEF Popped
<1>9. CountInv'
  <2>1. SUFFICES ASSUME NEW u \in Module \ Top
                 PROVE  refs'[u] = Cardinality(Clients(stack', refs', inited', u)) + Extra(u)
    BY <1>1, <1>2 DEF CountInv
  <2>2. Clients(stack', refs', inited', u) = Clients(stack, refs, inited, u)
    <3>1. inited'["DriverMgr"] <=> ("Driver" = "DriverMgr" \/ inited["DriverMgr"])
      BY <1>7
    <3>2. \A x, y : x # "Driver" => (Kept(stack', x, y) <=> Kept(stack, x, y))
      BY <1>8
    <3> QED BY <1>1, <1>3, <1>8, <3>1, <3>2, ReturnHolds
  <2>3. refs[u] = Cardinality(Clients(stack, refs, inited, u)) + Extra(u)
    BY <1>2 DEF IInv, CountInv
  <2> QED BY <1>1, <1>7, <2>2, <2>3
<1>10. Failed /\ Failed'
  BY <1>1, <1>2, <1>4, <1>6, <1>7 DEF Failed
<1>11. StackOK(stack', startOk') /\ Len(stack') = 0
  BY <1>6, Empty
<1>12. MainInv'
  BY <1>1, <1>2, <1>6, <1>11 DEF IInv, MainInv, Bottom
<1>13. TopInv'
  BY <1>1, <1>2, <1>4, <1>6, <1>7 DEF IInv, TopInv, DriverCounted
<1>14. FrameInv'
  BY <1>11 DEF FrameInv
<1>15. RestInv'
  <2>1. SUFFICES ASSUME NEW x \in Module
                 PROVE  /\ refs[x] > 0 => \/ inited[x] \/ x = "DriverMgr" \/ x \in {"Debugger", "Driver"}
                        /\ inited[x] /\ x \notin Top \cup {"Log"} => refs[x] > 0
    BY <1>1, <1>7, <1>10 DEF RestInv
  <2>2. CASE x = "Driver"
    BY <2>2 DEF Top
  <2>3. CASE x # "Driver"
    <3>1. ~Has(stack, x)
      BY <1>6, <1>8, <2>3, Empty
    <3> QED BY <3>1 DEF IInv, RestInv
  <2> QED BY <2>2, <2>3
<1>16. EarlyInv'
  BY <1>4, <1>7 DEF IInv, EarlyInv
<1>17. DebuggerInv'
  BY <1>1, <1>7, <1>10 DEF IInv, DebuggerInv
<1>18. MediumInv'
  <2>1. medium => refs["Log"] > 0
    BY <1>2 DEF IInv, MediumInv
  <2> QED BY <1>1, <2>1 DEF MediumInv
<1>19. BuiltInv' /\ LeftInv' /\ TypeInv'
  BY <1>1, <1>2, <1>7 DEF IInv, BuiltInv, LeftInv, TypeInv
<1> QED BY <1>9, <1>11, <1>12, <1>13, <1>14, <1>15, <1>16, <1>17, <1>18, <1>19 DEF IInv

\* While a module is being shut down.
LEMMA DuringShutdown ==
  ASSUME IInv, InFrame("down"), NEW c, c = Last(stack).mod
  PROVE  /\ main \in {"ended", "static"} /\ thread # "active"
         /\ stack # << >> /\ StackOK(stack, startOk) /\ 1 \in 1..Len(stack)
         /\ Len(stack) \in 1..Len(stack) /\ Last(stack) = stack[Len(stack)]
         /\ \A i \in 1..Len(stack) : stack[i].op = "down"
         /\ c \in Module /\ Has(stack, c) /\ FrameOK(Last(stack), startOk)
         /\ \A u : Kept(stack, c, u) <=> Keeps(Last(stack), u)
         /\ \A i \in 1..Len(stack) : stack[i].mod = c => i = Len(stack)
         /\ inited["Log"]
         /\ Has(stack, "Driver") => main = "ended" /\ startOk
         /\ c = "DriverMgr" => main = "ended"
         /\ main = "static" => stack[1].mod \notin Top /\ built # << >> /\ stack[1].mod = built[Len(built)]
                                 /\ Counting(stack[1].mod)
         /\ main = "ended" => ghosts = {}
         /\ c # "DriverMgr" => refs[c] <= 0
<1>1. StackOK(stack, startOk) /\ stack # << >>
  BY DEF IInv, InFrame
<1>2. /\ Len(stack) \in 1..Len(stack) /\ Len(stack) \in Nat \ {0} /\ Last(stack) = stack[Len(stack)]
      /\ c \in Module /\ Has(stack, c) /\ FrameOK(Last(stack), startOk)
      /\ \A u : Kept(stack, c, u) <=> Keeps(Last(stack), u)
      /\ \A i \in 1..Len(stack) : stack[i].mod = c => i = Len(stack)
  BY <1>1, TopParts
<1>3. main \in {"ended", "static"}
  <2>1. stack[Len(stack)].op = "down"
    BY <1>2 DEF InFrame
  <2>2. stack[Len(stack)].op = IF main \in {"register", "registered"} THEN "init" ELSE "down"
    BY <1>2 DEF IInv, MainInv
  <2>3. main \notin {"register", "registered", "start", "parse", "loop", "down"}
    BY <1>1, <2>1, <2>2 DEF IInv, MainInv
  <2> QED BY <2>3 DEF IInv, TypeInv
<1>4. 1 \in 1..Len(stack)
  BY <1>2
<1>5. /\ \A i \in 1..Len(stack) : stack[i].op = "down"
      /\ thread # "active" /\ (main = "ended" => ghosts = {})
  BY <1>3 DEF IInv, MainInv
<1>6. main = "static" => stack[1].mod \notin Top /\ built # << >> /\ stack[1].mod = built[Len(built)]
                           /\ Counting(stack[1].mod)
  BY <1>1 DEF IInv, MainInv, Counting, Top
<1>7. main = "ended" => stack[1].mod = "DriverMgr"
  BY <1>1 DEF IInv, MainInv, Bottom
<1>8. ASSUME NEW i \in 1..Len(stack), stack[i].mod = "Driver" PROVE main = "ended" /\ startOk
  <2>1. i # 1
    BY <1>3, <1>6, <1>7, <1>8 DEF Top
  <2> QED BY <1>1, <1>3, <1>6, <1>8, <2>1, TopFrames DEF Top
<1>9. Has(stack, "Driver") => main = "ended" /\ startOk
  BY <1>8 DEF Has
<1>10. c = "DriverMgr" => main = "ended"
  BY <1>1, <1>2, <1>3, <1>6, TopFrames DEF Top
<1>11. inited["Log"]
  BY <1>3 DEF IInv, EarlyInv
<1>12. c # "DriverMgr" => refs[c] <= 0
  BY <1>2, <1>5 DEF IInv, FrameInv
<1> QED BY <1>1, <1>2, <1>3, <1>4, <1>5, <1>6, <1>9, <1>10, <1>11, <1>12

\* The module's own part of Shutdown clears its flag and releases nothing:
\* its frame holds what it held at rest.
LEMMA ShutOwnKeeps ==
  ASSUME IInv, ShutOwn
  PROVE  IInv'
<1> DEFINE c == Last(stack).mod
           f == [Last(stack) EXCEPT !.own = TRUE]
<1>1. /\ InFrame("down") /\ ~Last(stack).own
      /\ inited' = [inited EXCEPT ![c] = c \in {"Log", "Driver"}]
      /\ medium' = (medium /\ c # "Log")
      /\ lldb' = IF c = "Debugger" THEN "gone" ELSE lldb
      /\ thread' = IF c = "ThreadMgr" /\ thread = "active" THEN "joined" ELSE thread
      /\ ghosts' = ghosts \cup {x \in Reaches(c) : Destroyed(x)}
      /\ stack' = Append(Front(stack), f)
      /\ UNCHANGED <<main, refs, built, startOk>>
  BY DEF ShutOwn
<1>2. /\ main \in {"ended", "static"} /\ thread # "active"
      /\ stack # << >> /\ StackOK(stack, startOk) /\ 1 \in 1..Len(stack)
      /\ Len(stack) \in 1..Len(stack) /\ Last(stack) = stack[Len(stack)]
      /\ \A i \in 1..Len(stack) : stack[i].op = "down"
      /\ c \in Module /\ Has(stack, c) /\ FrameOK(Last(stack), startOk)
      /\ \A u : Kept(stack, c, u) <=> Keeps(Last(stack), u)
      /\ \A i \in 1..Len(stack) : stack[i].mod = c => i = Len(stack)
      /\ inited["Log"]
      /\ Has(stack, "Driver") => main = "ended" /\ startOk
      /\ c = "DriverMgr" => main = "ended"
      /\ main = "static" => stack[1].mod \notin Top /\ built # << >> /\ stack[1].mod = built[Len(built)]
                              /\ Counting(stack[1].mod)
      /\ main = "ended" => ghosts = {}
  BY <1>1, DuringShutdown
<1>3. /\ f \in FrameType /\ f.mod = c /\ f.op = "down" /\ f.left = Last(stack).left /\ f.own
      /\ f.mod = Last(stack).mod /\ f.op = Last(stack).op
      /\ FrameOK(f, startOk)
  <2>1. Last(stack) \in FrameType /\ Last(stack).op = "down"
    BY <1>1, <1>2, TopParts DEF InFrame
  <2>2. /\ f \in FrameType /\ f.mod = c /\ f.op = "down" /\ f.left = Last(stack).left /\ f.own
        /\ f.mod = Last(stack).mod /\ f.op = Last(stack).op /\ f.ok = Last(stack).ok
    BY <2>1 DEF FrameType
  <2> HIDE DEF f
  <2> QED BY <1>2, <2>1, <2>2 DEF FrameOK
<1>4. ToSet(Last(stack).left) = Needs(c, startOk)
  BY <1>1, <1>2 DEF FrameOK, InFrame
<1> HIDE DEF c, f
<1>5. TopChanged(stack, f, stack', startOk)
  BY <1>1, <1>2, <1>3, TopChanges
<1>6. /\ StackOK(stack', startOk') /\ stack' # << >> /\ Len(stack') = Len(stack)
      /\ \A i \in 1..Len(stack) : stack'[i] = IF i = Len(stack) THEN f ELSE stack[i]
      /\ \A i \in 1..Len(stack) : stack'[i].mod = stack[i].mod /\ stack'[i].op = "down"
      /\ \A m : Has(stack', m) <=> Has(stack, m)
      /\ \A m, u : Kept(stack', m, u) <=> IF m = c THEN Keeps(f, u) ELSE Kept(stack, m, u)
  BY <1>1, <1>2, <1>3, <1>5 DEF TopChanged
<1>7. \A u : u \in Needs(c, startOk) => Keeps(f, u) /\ Kept(stack, c, u)
  BY <1>1, <1>2, <1>3, <1>4 DEF Keeps
<1>8. /\ refs \in [Module -> Int]
      /\ inited \in [Module -> BOOLEAN] /\ inited' \in [Module -> BOOLEAN]
      /\ inited'[c] <=> c \in {"Log", "Driver"}
      /\ \A x \in Module : x # c => inited'[x] = inited[x]
  <2>1. refs \in [Module -> Int] /\ inited \in [Module -> BOOLEAN]
    BY DEF IInv, TypeInv
  <2>2. (c \in {"Log", "Driver"}) \in BOOLEAN
    OBVIOUS
  <2> QED BY <1>1, <1>2, <2>1, <2>2
<1>9. /\ inited'["Log"] /\ (c # "Driver" => inited'["Driver"] = inited["Driver"])
      /\ (c = "Driver" => inited'["Driver"])
      /\ (c # "DriverMgr" => inited'["DriverMgr"] = inited["DriverMgr"])
      /\ (c = "DriverMgr" => ~inited'["DriverMgr"])
      /\ (c # "Debugger" => inited'["Debugger"] = inited["Debugger"])
      /\ (c = "Debugger" => ~inited'["Debugger"])
  <2>1. {"Log", "Driver", "DriverMgr", "Debugger"} \subseteq Module
    BY DEF Module
  <2> QED BY <1>2, <1>8, <2>1
<1>10. \A u \in Module : Clients(stack', refs', inited', u) = Clients(stack, refs, inited, u)
  <2>1. ASSUME NEW u \in Module, NEW x \in Module, u \in ToSet(Uses[x])
        PROVE  Holds(stack', refs', inited', x, u) <=> Holds(stack, refs, inited, x, u)
    <3>1. CASE x = c
      BY <1>2, <1>6, <1>7, <2>1, <3>1 DEF Holds, Needs
    <3>2. CASE x # c
      BY <1>1, <1>6, <1>8, <3>2 DEF Holds, Alive
    <3> QED BY <3>1, <3>2
  <2> QED BY <2>1, ClientsSame
<1>11. CountInv'
  <2>1. \A u : Stolen(stack', built', u) = Stolen(stack, built, u)
    BY <1>1, <1>2, <1>6 DEF Stolen
  <2>2. SUFFICES ASSUME NEW u \in Module \ Top
                 PROVE  LET n == Cardinality(Clients(stack', refs', inited', u)) + Extra(u)
                        IN  IF main' = "static" THEN refs'[u] >= n - Stolen(stack', built', u)
                                                ELSE refs'[u] = n
    BY DEF CountInv
  <2>3. LET n == Cardinality(Clients(stack, refs, inited, u)) + Extra(u)
        IN  IF main = "static" THEN refs[u] >= n - Stolen(stack, built, u) ELSE refs[u] = n
    BY DEF IInv, CountInv
  <2> QED BY <1>1, <1>10, <2>1, <2>3
<1>12. MainInv'
  <2>1. stack'[1].mod = stack[1].mod /\ \A i \in 1..Len(stack') : stack'[i].op = "down"
    BY <1>2, <1>6
  <2>2. main = "ended" => ghosts' = {}
    BY <1>1, <1>2 DEF Destroyed
  <2> QED BY <1>1, <1>2, <1>6, <2>1, <2>2 DEF IInv, MainInv, Bottom
<1>13. TopInv'
  <2>1. Kept(stack', "DriverMgr", "Driver") => Kept(stack, "DriverMgr", "Driver")
    <3>1. "Driver" \in ToSet(f.left) => "Driver" \in Needs(c, startOk)
      BY <1>3, <1>4
    <3> QED BY <1>3, <1>6, <1>7, <3>1 DEF Keeps
  <2>2. startOk /\ Kept(stack, "DriverMgr", "Driver") => Kept(stack', "DriverMgr", "Driver")
    BY <1>6, <1>7 DEF Needs
  <2>3. DriverCounted' <=> DriverCounted
    BY <1>1, <1>2, <2>1, <2>2 DEF DriverCounted, IInv, TypeInv
  <2>4. c = "Driver" => startOk
    BY <1>2
  <2> QED BY <1>1, <1>2, <1>6, <1>9, <2>3, <2>4 DEF IInv, TopInv
<1>14. FrameInv'
  <2>1. SUFFICES ASSUME NEW i \in 1..Len(stack)
                 PROVE  LET m == stack'[i].mod
                        IN  /\ m # "DriverMgr" => refs[m] <= 0
                            /\ stack'[i].own => ~inited'[m] \/ m \in {"Log", "Driver"}
    BY <1>1, <1>6 DEF FrameInv
  <2>2. LET m == stack[i].mod
        IN  /\ m # "DriverMgr" => refs[m] <= 0
            /\ stack[i].own => ~inited[m] \/ m \in {"Log", "Driver"}
    BY <1>2 DEF IInv, FrameInv
  <2>3. CASE i = Len(stack)
    BY <1>1, <1>2, <1>3, <1>6, <1>8, <2>2, <2>3 DEF c
  <2>4. CASE i # Len(stack)
    <3>1. stack'[i] = stack[i] /\ stack[i].mod # c /\ stack[i].mod \in Module
      BY <1>2, <1>6, <2>4, FrameParts
    <3> QED BY <1>8, <2>2, <3>1
  <2> QED BY <2>3, <2>4
<1>15. Failed' <=> Failed
  BY <1>1, <1>2 DEF Failed
<1>16. RestInv'
  <2>1. SUFFICES ASSUME NEW x \in Module, ~Has(stack', x)
                 PROVE  /\ refs'[x] > 0 => \/ inited'[x] \/ x = "DriverMgr"
                                           \/ (x \in {"Debugger", "Driver"} /\ Failed')
                        /\ inited'[x] /\ x \notin Top \cup {"Log"} => refs'[x] > 0
    BY DEF RestInv
  <2>2. ~Has(stack, x) /\ x # c
    BY <1>2, <1>6, <2>1
  <2> QED BY <1>1, <1>8, <1>15, <2>2 DEF IInv, RestInv
<1>17. EarlyInv'
  BY <1>9 DEF EarlyInv
<1>18. DebuggerInv'
  <2>1. Failed => c # "Driver"
    BY <1>2 DEF Failed
  <2> QED BY <1>1, <1>2, <1>9, <1>15, <2>1 DEF IInv, DebuggerInv
<1>19. MediumInv'
  <2>1. ASSUME medium', NEW i \in 1..Len(stack), stack[i].mod = "Log", stack[i].op = "down", ~stack[i].own
        PROVE  \E j \in 1..Len(stack') : stack'[j].mod = "Log" /\ stack'[j].op = "down" /\ ~stack'[j].own
    <3>1. i # Len(stack)
      BY <1>1, <1>2, <2>1 DEF c
    <3> QED BY <1>6, <2>1, <3>1
  <2> QED BY <1>1, <2>1 DEF IInv, MediumInv
<1>20. BuiltInv'
  BY <1>1 DEF IInv, BuiltInv
<1>21. LeftInv'
  <2>1. SUFFICES ASSUME main = "static", startOk PROVE LeftInv'
    BY <1>1 DEF LeftInv
  <2>2. /\ ghosts = {} /\ ~medium
        /\ \A m \in Module \ {"Resources", "DriverMgr"} : refs[m] <= 0
        /\ \A m \in Module \ {"Log", "Driver", "Resources"} : ~inited[m]
        /\ Len(stack) = 1 /\ stack[1].mod = "Log" /\ stack[1].left = << >>
    BY <1>2, <2>1 DEF IInv, LeftInv
  <2>3. c = "Log"
    BY <1>2, <2>2 DEF c
  <2>4. ghosts' = {} /\ ~medium'
    BY <1>1, <2>2, <2>3 DEF Reaches
  <2>5. Len(stack') = 1 /\ stack'[1].mod = "Log" /\ stack'[1].left = << >>
    BY <1>2, <1>3, <1>6, <2>2
  <2> QED BY <1>1, <1>8, <2>2, <2>3, <2>4, <2>5 DEF LeftInv
<1>22. TypeInv'
  <2>1. ghosts' \subseteq Singleton
    BY <1>1 DEF IInv, TypeInv, Reaches, Singleton, Module
  <2>2. lldb' \in {"none", "made", "gone"} /\ thread' \in {"none", "active", "joined"} /\ medium' \in BOOLEAN
    BY <1>1 DEF IInv, TypeInv
  <2> QED BY <1>1, <1>8, <2>1, <2>2 DEF IInv, TypeInv
<1> QED BY <1>6, <1>11, <1>12, <1>13, <1>14, <1>16, <1>17, <1>18, <1>19, <1>20, <1>21, <1>22 DEF IInv

\* The module called loses the one client.
LEMMA ShutCallKeeps ==
  ASSUME IInv, ShutCall
  PROVE  IInv'
<1> DEFINE c == Last(stack).mod
           m == Head(Last(stack).left)
           f == [Last(stack) EXCEPT !.left = Tail(@)]
           g == Frame(m, "down", Releases(m))
           mid == Append(Front(stack), f)
           gone == LastClientGone(m, refs[m] - 1)
<1>1. /\ InFrame("down") /\ Last(stack).own /\ Last(stack).left # << >>
      /\ refs' = [refs EXCEPT ![m] = @ - 1]
      /\ stack' = AfterCall(IF gone THEN <<g>> ELSE << >>)
      /\ ghosts' = ghosts \cup {x \in {m} : Destroyed(x)}
      /\ UNCHANGED <<main, inited, built, startOk, medium, lldb, thread>>
  BY DEF ShutCall
<1>2. /\ main \in {"ended", "static"} /\ thread # "active"
      /\ stack # << >> /\ StackOK(stack, startOk) /\ 1 \in 1..Len(stack)
      /\ Len(stack) \in 1..Len(stack) /\ Last(stack) = stack[Len(stack)]
      /\ \A i \in 1..Len(stack) : stack[i].op = "down"
      /\ c \in Module /\ Has(stack, c) /\ FrameOK(Last(stack), startOk)
      /\ \A u : Kept(stack, c, u) <=> Keeps(Last(stack), u)
      /\ \A i \in 1..Len(stack) : stack[i].mod = c => i = Len(stack)
      /\ inited["Log"]
      /\ Has(stack, "Driver") => main = "ended" /\ startOk
      /\ c = "DriverMgr" => main = "ended"
      /\ main = "static" => stack[1].mod \notin Top /\ built # << >> /\ stack[1].mod = built[Len(built)]
                              /\ Counting(stack[1].mod)
      /\ main = "ended" => ghosts = {}
  BY <1>1, DuringShutdown
<1>3. /\ f \in FrameType /\ f.mod = c /\ f.mod = Last(stack).mod /\ f.op = Last(stack).op
      /\ f.own = Last(stack).own /\ f.ok = Last(stack).ok
      /\ ToSet(f.left) = ToSet(Last(stack).left) \ {m}
      /\ m \in Needs(c, startOk) /\ m \in ToSet(Last(stack).left)
      /\ FrameOK(f, startOk)
      /\ AfterCall(<< >>) = mid
      /\ \A h \in FrameType : AfterCall(<<h>>) = Append(mid, h)
  BY <1>1, <1>2, CallIs
<1>4. /\ m \in Module /\ ~Has(stack, m) /\ m # c /\ m # "DriverMgr"
      /\ m = "Driver" => c = "DriverMgr" /\ startOk /\ main = "ended"
      /\ m = "Debugger" => c = "Driver" /\ startOk
      /\ m # "Driver" => m \in ToSet(Uses[c])
  <2>1. m \in Module /\ ~Has(stack, m)
    BY <1>2, <1>3, NeededNotOnStack
  <2>2. m = "Driver" => startOk
    BY <1>2, <1>3, UsesBelow DEF Needs, Top
  <2> QED BY <1>2, <1>3, <2>1, <2>2, NeedsBelow
<1>5. main = "static" => ~startOk
  <2>1. SUFFICES ASSUME main = "static", startOk PROVE FALSE
    BY DEF IInv, TypeInv
  <2>2. Len(stack) = 1 /\ stack[1].left = << >>
    BY <1>2, <2>1 DEF IInv, LeftInv
  <2> QED BY <1>1, <1>2, <2>2
<1>6. /\ c = Last(stack).mod /\ mid = Append(Front(stack), f)
      /\ gone <=> (refs[m] - 1 <= 0 /\ inited[m])
  BY DEF LastClientGone
<1>7. /\ g \in FrameType /\ g.mod = m /\ g.op = "down" /\ ~g.own
      /\ FrameOK(g, startOk) /\ Called(f, g, startOk)
      /\ g.left = Releases(m) /\ ToSet(g.left) = Needs(m, startOk)
  <2>1. Releases(m) \in Seq(Module) /\ Distinct(Releases(m)) /\ ToSet(Releases(m)) = Needs(m, startOk)
    BY <1>4, ReleasesAll
  <2>2. /\ g \in FrameType /\ g.mod = m /\ g.op = "down" /\ g.left = Releases(m)
        /\ g.own = FALSE /\ g.ok = TRUE
    BY <1>4, <2>1 DEF Frame, FrameType
  <2>3. f.ok /\ f.own /\ f.op = "down"
    BY <1>1, <1>2, <1>3 DEF FrameOK, InFrame
  <2> HIDE DEF g, f, m
  <2>4. FrameOK(g, startOk)
    BY <2>1, <2>2 DEF FrameOK
  <2>5. Called(f, g, startOk)
    BY <1>3, <2>2, <2>3 DEF Called
  <2> QED BY <2>1, <2>2, <2>4, <2>5
<1> HIDE DEF c, m, f, g, mid, gone
<1>8. /\ StackOK(mid, startOk) /\ mid # << >> /\ Len(mid) = Len(stack) /\ Last(mid) = f
      /\ \A i \in 1..Len(stack) : mid[i] = IF i = Len(stack) THEN f ELSE stack[i]
      /\ \A x : Has(mid, x) <=> Has(stack, x)
      /\ \A x, u : Kept(mid, x, u) <=> IF x = c THEN Keeps(f, u) ELSE Kept(stack, x, u)
  <2>1. TopChanged(stack, f, mid, startOk)
    BY <1>2, <1>3, <1>6, TopChanges
  <2> QED BY <1>3, <2>1 DEF TopChanged
<1>9. ~gone => stack' = mid
  BY <1>1, <1>3
<1>10. ASSUME gone
       PROVE  /\ StackOK(stack', startOk) /\ Len(stack') = Len(mid) + 1 /\ stack' # << >>
              /\ \A i \in 1..Len(stack') : stack'[i] = IF i = Len(stack') THEN g ELSE mid[i]
              /\ \A x : Has(stack', x) <=> Has(mid, x) \/ x = m
              /\ \A x, u : Kept(stack', x, u) <=> IF x = m THEN Keeps(g, u) ELSE Kept(mid, x, u)
  <2>1. stack' = Append(mid, g)
    BY <1>1, <1>3, <1>7, <1>10
  <2>2. Called(Last(mid), g, startOk)
    BY <1>7, <1>8
  <2>3. Pushed(mid, g, stack', startOk)
    BY <1>7, <1>8, <2>1, <2>2, CallPushes
  <2> QED BY <1>7, <2>3 DEF Pushed
<1>11. StackOK(stack', startOk') /\ stack' # << >>
  BY <1>1, <1>8, <1>9, <1>10
<1>12. \A x : Has(stack', x) <=> Has(stack, x) \/ (x = m /\ gone)
  BY <1>8, <1>9, <1>10
<1>13. Len(stack) \in Nat
  BY <1>2, FrameParts
<1>14. \A i \in 1..Len(stack) :
         /\ i \in 1..Len(stack') /\ stack'[i].mod = stack[i].mod
         /\ stack'[i].op = "down" /\ stack'[i].own = stack[i].own
         /\ i # Len(stack) => stack'[i] = stack[i]
  <2>1. \A i \in 1..Len(stack) : /\ mid[i].mod = stack[i].mod /\ mid[i].op = "down" /\ mid[i].own = stack[i].own
                                 /\ i # Len(stack) => mid[i] = stack[i]
    BY <1>2, <1>3, <1>6, <1>8
  <2>2. CASE gone
    BY <1>8, <1>10, <1>13, <2>1, <2>2
  <2>3. CASE ~gone
    BY <1>8, <1>9, <2>1, <2>3
  <2> QED BY <2>2, <2>3
<1>15. \A i \in 1..Len(stack') : i \in 1..Len(stack) \/ (stack'[i] = g /\ gone)
  BY <1>8, <1>9, <1>10, <1>13
<1>16. /\ refs \in [Module -> Int] /\ refs' \in [Module -> Int] /\ inited \in [Module -> BOOLEAN]
       /\ \A x \in Module : refs'[x] = IF x = m THEN refs[m] - 1 ELSE refs[x]
  BY <1>1, <1>4 DEF IInv, TypeInv
<1>17. m = "Driver" => refs[m] = 1
  <2>1. SUFFICES ASSUME m = "Driver" PROVE refs["Driver"] = 1
    BY <1>4
  <2>2. Keeps(Last(stack), "Driver") /\ c = "DriverMgr" /\ main = "ended"
    BY <1>1, <1>3, <1>4, <2>1 DEF Keeps, InFrame
  <2>3. Kept(stack, "DriverMgr", "Driver")
    BY <1>2, <2>2
  <2> QED BY <2>2, <2>3 DEF IInv, TopInv, DriverCounted
<1>18. /\ refs[m] > 0 => inited[m]
       /\ inited[m] /\ m # "Log" => refs[m] > 0
  <2>1. m \in {"Debugger", "Driver"} => ~Failed
    BY <1>4 DEF Failed
  <2>2. refs[m] > 0 => inited[m]
    BY <1>4, <2>1 DEF IInv, RestInv
  <2>3. CASE m = "Driver"
    BY <1>17, <2>2, <2>3
  <2>4. CASE m # "Driver"
    BY <1>4, <2>2, <2>4 DEF IInv, RestInv, Top
  <2> QED BY <2>3, <2>4
<1>19. ASSUME NEW u \in Module, NEW x \in Module, u \in ToSet(Uses[x])
       PROVE  Holds(stack', refs', inited', x, u) <=>
                Holds(stack, refs, inited, x, u) /\ ~(x = c /\ u = m)
  <2>1. CASE x = c
    <3>1. Has(stack', x) /\ Has(stack, x) /\ x # m
      BY <1>2, <1>4, <1>12, <2>1
    <3>2. Kept(stack', x, u) <=> Keeps(f, u)
      BY <1>8, <1>9, <1>10, <2>1, <3>1
    <3>3. Kept(stack, x, u) <=> Keeps(Last(stack), u)
      BY <1>2, <2>1
    <3>4. Keeps(f, u) <=> Keeps(Last(stack), u) /\ u # m
      BY <1>1, <1>3 DEF Keeps, InFrame
    <3> QED BY <2>1, <3>1, <3>2, <3>3, <3>4 DEF Holds
  <2>2. CASE x = m /\ gone
    <3>1. m # "Log" /\ m # "DriverMgr"
      BY <1>4, <1>19, <2>2, Graph DEF Top
    <3>2. Kept(stack', x, u) /\ Has(stack', x) /\ ~Has(stack, x)
      BY <1>4, <1>7, <1>10, <1>12, <2>2 DEF Keeps
    <3>3. refs[m] > 0
      BY <1>6, <1>18, <2>2, <3>1
    <3> QED BY <1>4, <2>2, <3>1, <3>2, <3>3 DEF Holds, Alive
  <2>3. CASE x = m /\ ~gone
    <3>1. ~Has(stack', x) /\ ~Has(stack, x)
      BY <1>4, <1>12, <2>3
    <3>2. refs[m] - 1 > 0 <=> refs[m] > 0
      BY <1>4, <1>6, <1>16, <1>18, <2>3
    <3> QED BY <1>4, <1>16, <2>3, <3>1, <3>2 DEF Holds, Alive
  <2>4. CASE x # c /\ x # m
    <3>1. Has(stack', x) <=> Has(stack, x)
      BY <1>12, <2>4
    <3>2. Kept(stack', x, u) <=> Kept(stack, x, u)
      BY <1>8, <1>9, <1>10, <2>4
    <3>3. Alive(refs', inited', x) <=> Alive(refs, inited, x)
      BY <1>1, <1>16, <2>4 DEF Alive
    <3> QED BY <2>4, <3>1, <3>2, <3>3 DEF Holds
  <2> QED BY <2>1, <2>2, <2>3, <2>4
<1>20. stack'[1].mod = stack[1].mod
  BY <1>2, <1>14
<1>21. CountInv'
  <2>1. SUFFICES ASSUME NEW u \in Module \ Top
                 PROVE  LET n == Cardinality(Clients(stack', refs', inited', u)) + Extra(u)
                        IN  IF main' = "static" THEN refs'[u] >= n - Stolen(stack', built', u)
                                                ELSE refs'[u] = n
    BY DEF CountInv
  <2>2. LET n == Cardinality(Clients(stack, refs, inited, u)) + Extra(u)
        IN  IF main = "static" THEN refs[u] >= n - Stolen(stack, built, u) ELSE refs[u] = n
    BY DEF IInv, CountInv
  <2>3. Extra(u) \in {0, 1}
    BY <1>1 DEF Extra
  <2>4. Stolen(stack', built', u) = Stolen(stack, built, u) /\ Stolen(stack, built, u) \in {0, 1}
    BY <1>1, <1>2, <1>11, <1>20 DEF Stolen
  <2>5. CASE u = m
    <3>1. Holds(stack, refs, inited, c, u)
      BY <1>1, <1>2, <1>3, <2>5 DEF Holds, Keeps, InFrame
    <3>2. u \in ToSet(Uses[c])
      BY <1>4, <2>5 DEF Top
    <3>3. Cardinality(Clients(stack', refs', inited', u)) = Cardinality(Clients(stack, refs, inited, u)) - 1
      BY <1>2, <1>4, <1>19, <2>5, <3>1, <3>2, ClientsLose
    <3> QED BY <1>1, <1>16, <2>2, <2>3, <2>4, <2>5, <3>3, FiniteClients
  <2>6. CASE u # m
    <3>1. Clients(stack', refs', inited', u) = Clients(stack, refs, inited, u)
      BY <1>19, <2>6, ClientsSame
    <3> QED BY <1>1, <1>16, <2>2, <2>3, <2>4, <2>6, <3>1
  <2> QED BY <2>5, <2>6
<1>22. MainInv'
  <2>1. \A i \in 1..Len(stack') : stack'[i].op = "down"
    BY <1>7, <1>14, <1>15
  <2>2. main = "ended" => ghosts' = {}
    BY <1>1, <1>2 DEF Destroyed
  <2> QED BY <1>1, <1>2, <1>11, <1>20, <2>1, <2>2 DEF IInv, MainInv, Bottom
<1>23. TopInv'
  <2>1. "Driver" \in Module /\ "DriverMgr" # m
    BY <1>4 DEF Module
  <2>2. Kept(stack', "DriverMgr", "Driver") <=>
          IF c = "DriverMgr" THEN Keeps(f, "Driver") ELSE Kept(stack, "DriverMgr", "Driver")
    BY <1>8, <1>9, <1>10, <2>1
  <2>3. CASE m = "Driver"
    <3>1. ~Keeps(f, "Driver")
      BY <1>1, <1>3, <2>3 DEF Keeps, InFrame
    <3>2. ~Kept(stack', "DriverMgr", "Driver") /\ main = "ended" /\ startOk
      BY <1>4, <2>2, <2>3, <3>1
    <3>3. refs'["Driver"] = 0
      BY <1>16, <1>17, <2>1, <2>3
    <3>4. ~DriverCounted'
      BY <1>1, <3>2 DEF DriverCounted
    <3> QED BY <1>1, <1>2, <1>11, <3>2, <3>3, <3>4 DEF IInv, TopInv
  <2>4. CASE m # "Driver"
    <3>1. Keeps(f, "Driver") <=> Keeps(Last(stack), "Driver")
      BY <1>1, <1>3, <2>4 DEF Keeps, InFrame
    <3>2. Kept(stack', "DriverMgr", "Driver") <=> Kept(stack, "DriverMgr", "Driver")
      BY <1>2, <2>2, <3>1
    <3>3. refs'["Driver"] = refs["Driver"]
      BY <1>16, <2>1, <2>4
    <3>4. DriverCounted' <=> DriverCounted
      BY <1>1, <3>2 DEF DriverCounted
    <3> QED BY <1>1, <1>2, <1>11, <3>3, <3>4 DEF IInv, TopInv
  <2> QED BY <2>3, <2>4
<1>24. FrameInv'
  <2>1. SUFFICES ASSUME NEW i \in 1..Len(stack')
                 PROVE  LET x == stack'[i].mod
                        IN  /\ stack'[i].op = "down"
                            /\ x # "DriverMgr" => refs'[x] <= 0
                            /\ stack'[i].own => ~inited[x] \/ x \in {"Log", "Driver"}
    BY <1>1 DEF FrameInv
  <2>2. CASE i \in 1..Len(stack)
    <3>1. stack[i].mod \in Module /\ stack[i].mod # m
      BY <1>2, <1>4, <2>2, FrameParts DEF Has
    <3>2. LET x == stack[i].mod
          IN  /\ x # "DriverMgr" => refs[x] <= 0
              /\ stack[i].own => ~inited[x] \/ x \in {"Log", "Driver"}
      BY <1>2, <2>2 DEF IInv, FrameInv
    <3> QED BY <1>14, <1>16, <2>2, <3>1, <3>2
  <2>3. CASE i \notin 1..Len(stack)
    <3>1. stack'[i] = g /\ gone
      BY <1>15, <2>3
    <3> QED BY <1>4, <1>6, <1>7, <1>16, <3>1
  <2> QED BY <2>2, <2>3
<1>25. Failed' <=> Failed
  BY <1>1, <1>2 DEF Failed
<1>26. RestInv'
  <2>1. SUFFICES ASSUME NEW x \in Module, ~Has(stack', x)
                 PROVE  /\ refs'[x] > 0 => \/ inited[x] \/ x = "DriverMgr"
                                           \/ (x \in {"Debugger", "Driver"} /\ Failed)
                        /\ inited[x] /\ x \notin Top \cup {"Log"} => refs'[x] > 0
    BY <1>1, <1>25 DEF RestInv
  <2>2. ~Has(stack, x) /\ (x = m => ~gone)
    BY <1>12, <2>1
  <2>3. CASE x = m
    BY <1>6, <1>16, <1>18, <2>2, <2>3
  <2>4. CASE x # m
    BY <1>16, <2>2, <2>4 DEF IInv, RestInv
  <2> QED BY <2>3, <2>4
<1>27. EarlyInv'
  BY <1>1, <1>2 DEF EarlyInv
<1>28. DebuggerInv'
  BY <1>1, <1>25 DEF IInv, DebuggerInv
<1>29. MediumInv'
  <2>1. ASSUME NEW i \in 1..Len(stack), stack[i].mod = "Log", stack[i].op = "down", ~stack[i].own
        PROVE  \E j \in 1..Len(stack') : stack'[j].mod = "Log" /\ stack'[j].op = "down" /\ ~stack'[j].own
    BY <1>14, <2>1
  <2>2. ASSUME m = "Log", refs[m] - 1 <= 0
        PROVE  \E j \in 1..Len(stack') : stack'[j].mod = "Log" /\ stack'[j].op = "down" /\ ~stack'[j].own
    <3>1. gone
      BY <1>2, <1>6, <2>2
    <3>2. Len(stack') \in 1..Len(stack')
      BY <1>8, <1>10, <1>13, <3>1
    <3> QED BY <1>7, <1>10, <2>2, <3>1, <3>2
  <2>3. "Log" \in Module
    BY DEF Module
  <2>4. medium => \/ main = "static" \/ refs["Log"] > 0
                  \/ \E i \in 1..Len(stack) : stack[i].mod = "Log" /\ stack[i].op = "down" /\ ~stack[i].own
    BY DEF IInv, MediumInv
  <2>5. refs["Log"] > 0 => refs'["Log"] > 0 \/ (m = "Log" /\ refs[m] - 1 <= 0)
    BY <1>16, <2>3
  <2> QED BY <1>1, <2>1, <2>2, <2>4, <2>5 DEF MediumInv
<1>30. BuiltInv'
  <2>1. refs'["CmdMgr"] <= refs["CmdMgr"] /\ refs["CmdMgr"] \in Int /\ refs'["CmdMgr"] \in Int
    BY <1>4, <1>16 DEF Module
  <2> QED BY <1>1, <2>1 DEF IInv, BuiltInv
<1>31. LeftInv'
  BY <1>1, <1>5 DEF LeftInv
<1>32. TypeInv'
  <2>1. ghosts' \subseteq Singleton
    BY <1>1, <1>4 DEF IInv, TypeInv, Singleton
  <2> QED BY <1>1, <1>16, <2>1 DEF IInv, TypeInv
<1> QED BY <1>11, <1>21, <1>22, <1>23, <1>24, <1>26, <1>27, <1>28, <1>29, <1>30, <1>31, <1>32 DEF IInv

\* A module that returns from Shutdown holds nothing any more.
LEMMA ShutReturnsKeeps ==
  ASSUME IInv, ShutReturns
  PROVE  IInv'
<1> DEFINE c == Last(stack).mod
<1>1. /\ InFrame("down") /\ Last(stack).own /\ Last(stack).left = << >>
      /\ stack' = Front(stack)
      /\ built' = IF main = "static" /\ Len(stack) = 1 THEN Front(built) ELSE built
      /\ UNCHANGED <<main, refs, inited, startOk, medium, lldb, thread, ghosts>>
  BY DEF ShutReturns, Return
<1>2. /\ main \in {"ended", "static"} /\ thread # "active"
      /\ stack # << >> /\ StackOK(stack, startOk) /\ 1 \in 1..Len(stack)
      /\ Len(stack) \in 1..Len(stack) /\ Last(stack) = stack[Len(stack)]
      /\ \A i \in 1..Len(stack) : stack[i].op = "down"
      /\ c \in Module /\ Has(stack, c) /\ FrameOK(Last(stack), startOk)
      /\ \A u : Kept(stack, c, u) <=> Keeps(Last(stack), u)
      /\ \A i \in 1..Len(stack) : stack[i].mod = c => i = Len(stack)
      /\ inited["Log"]
      /\ main = "static" => stack[1].mod \notin Top /\ built # << >> /\ stack[1].mod = built[Len(built)]
                              /\ Counting(stack[1].mod)
      /\ main = "ended" => ghosts = {}
      /\ c # "DriverMgr" => refs[c] <= 0
  BY <1>1, DuringShutdown
<1>3. Popped(stack, stack', startOk)
  BY <1>1, <1>2, CallReturns
<1>4. c = Last(stack).mod
  OBVIOUS
<1> HIDE DEF c
<1>5. /\ StackOK(stack', startOk') /\ Len(stack') = Len(stack) - 1
      /\ \A i \in 1..Len(stack') : i \in 1..Len(stack) /\ stack'[i] = stack[i]
      /\ \A x : Has(stack', x) <=> Has(stack, x) /\ x # c
      /\ \A x, u : Kept(stack', x, u) <=> Kept(stack, x, u) /\ x # c
  BY <1>1, <1>3, <1>4 DEF Popped
<1>6. ~inited[c] \/ c \in {"Log", "Driver"}
  BY <1>1, <1>2, <1>4 DEF IInv, FrameInv
<1>7. \A u : ~Kept(stack, c, u)
  <2>1. ToSet(<< >>) = {}
    BY DEF ToSet
  <2> QED BY <1>1, <1>2, <2>1 DEF Keeps, InFrame
<1>8. Len(stack) \in Nat /\ (stack' = << >> <=> Len(stack) = 1)
  <2>1. Len(stack) \in Nat
    BY <1>2, FrameParts
  <2>2. stack' # << >> => Len(stack') \in Nat \ {0}
    BY <1>5, TopParts
  <2>3. stack' = << >> => Len(stack') = 0
    BY Empty
  <2> QED BY <1>5, <2>1, <2>2, <2>3
<1>9. stack' # << >> => stack'[1] = stack[1]
  <2>1. stack' # << >> => 1 \in 1..Len(stack')
    BY <1>2, <1>5, <1>8
  <2> QED BY <1>5, <2>1
<1>10. refs \in [Module -> Int] /\ inited \in [Module -> BOOLEAN]
  BY DEF IInv, TypeInv
<1>11. \A u \in Module : Clients(stack', refs', inited', u) = Clients(stack, refs, inited, u)
  <2>1. ASSUME NEW u \in Module, NEW x \in Module, u \in ToSet(Uses[x])
        PROVE  Holds(stack', refs', inited', x, u) <=> Holds(stack, refs, inited, x, u)
    <3>1. CASE x = c
      BY <1>1, <1>2, <1>5, <1>6, <1>7, <1>10, <3>1 DEF Holds, Alive
    <3>2. CASE x # c
      BY <1>1, <1>5, <3>2 DEF Holds, Alive
    <3> QED BY <3>1, <3>2
  <2> QED BY <2>1, ClientsSame
<1>12. /\ main = "static" /\ Len(stack) = 1 =>
             /\ BuiltOK(built') /\ c = built[Len(built)]
             /\ \A y : Contains(built', y) <=> Contains(built, y) /\ y # c
       /\ ~(main = "static" /\ Len(stack) = 1) => built' = built
  <2>1. BuiltOK(built)
    BY DEF IInv, BuiltInv
  <2>2. main = "static" /\ Len(stack) = 1 => c = built[Len(built)] /\ built # << >> /\ built' = Front(built)
    BY <1>1, <1>2, <1>4
  <2> QED BY <1>1, <2>1, <2>2, LastDestroyed
<1>13. CountInv'
  <2>1. SUFFICES ASSUME NEW u \in Module \ Top
                 PROVE  LET n == Cardinality(Clients(stack', refs', inited', u)) + Extra(u)
                        IN  IF main' = "static" THEN refs'[u] >= n - Stolen(stack', built', u)
                                                ELSE refs'[u] = n
    BY DEF CountInv
  <2>2. LET n == Cardinality(Clients(stack, refs, inited, u)) + Extra(u)
        IN  IF main = "static" THEN refs[u] >= n - Stolen(stack, built, u) ELSE refs[u] = n
    BY DEF IInv, CountInv
  <2>3. ASSUME main = "static" PROVE Stolen(stack', built', u) = Stolen(stack, built, u)
    <3>1. CASE Len(stack) = 1
      <4>1. stack' = << >> /\ stack[1].mod = c
        BY <1>2, <1>4, <1>8, <3>1
      <4> QED BY <1>2, <1>12, <2>3, <3>1, <4>1 DEF Stolen
    <3>2. CASE Len(stack) # 1
      BY <1>2, <1>8, <1>9, <1>12, <3>2 DEF Stolen
    <3> QED BY <3>1, <3>2
  <2> QED BY <1>1, <1>11, <2>2, <2>3
<1>14. MainInv'
  <2>1. \A i \in 1..Len(stack') : stack'[i].op = "down"
    BY <1>2, <1>5
  <2>2. stack' # << >> => built' = built
    BY <1>8, <1>12
  <2> QED BY <1>1, <1>2, <1>9, <2>1, <2>2 DEF IInv, MainInv, Bottom
<1>15. TopInv'
  <2>1. Kept(stack', "DriverMgr", "Driver") <=> Kept(stack, "DriverMgr", "Driver")
    BY <1>5, <1>7
  <2>2. DriverCounted' <=> DriverCounted
    BY <1>1, <2>1 DEF DriverCounted
  <2>3. main = "ended" /\ stack' = << >> => ~inited["DriverMgr"]
    <3>1. main = "ended" /\ stack' = << >> => c = "DriverMgr"
      BY <1>2, <1>4, <1>8 DEF IInv, MainInv, Bottom
    <3> QED BY <1>6, <3>1
  <2> QED BY <1>1, <1>2, <2>2, <2>3 DEF IInv, TopInv
<1>16. FrameInv'
  BY <1>1, <1>5 DEF IInv, FrameInv
<1>17. Failed' <=> Failed
  BY <1>1, <1>2 DEF Failed
<1>18. RestInv'
  <2>1. SUFFICES ASSUME NEW x \in Module, ~Has(stack', x)
                 PROVE  /\ refs[x] > 0 => \/ inited[x] \/ x = "DriverMgr"
                                          \/ (x \in {"Debugger", "Driver"} /\ Failed)
                        /\ inited[x] /\ x \notin Top \cup {"Log"} => refs[x] > 0
    BY <1>1, <1>17 DEF RestInv
  <2>2. CASE x = c
    BY <1>2, <1>6, <1>10, <2>2 DEF Top
  <2>3. CASE x # c
    BY <1>5, <2>1, <2>3 DEF IInv, RestInv
  <2> QED BY <2>2, <2>3
<1>19. EarlyInv'
  BY <1>1, <1>2 DEF EarlyInv
<1>20. DebuggerInv'
  BY <1>1, <1>17 DEF IInv, DebuggerInv
<1>21. MediumInv'
  <2>1. ASSUME NEW i \in 1..Len(stack), stack[i].mod = "Log", stack[i].op = "down", ~stack[i].own
        PROVE  \E j \in 1..Len(stack') : stack'[j].mod = "Log" /\ stack'[j].op = "down" /\ ~stack'[j].own
    <3>1. i # Len(stack)
      BY <1>1, <1>2, <2>1
    <3>2. i \in 1..Len(stack')
      BY <1>5, <1>8, <3>1
    <3> QED BY <1>5, <2>1, <3>2
  <2> QED BY <1>1, <2>1 DEF IInv, MediumInv
<1>22. BuiltInv'
  <2>1. refs["CmdMgr"] > 0 => c # "CmdMgr"
    BY <1>2, <1>10 DEF Module
  <2> QED BY <1>1, <1>12, <2>1 DEF IInv, BuiltInv
<1>23. LeftInv'
  <2>1. main = "static" /\ startOk => stack' = << >>
    BY <1>2, <1>8 DEF IInv, LeftInv
  <2> QED BY <1>1, <2>1 DEF IInv, LeftInv
<1>24. TypeInv'
  BY <1>1 DEF IInv, TypeInv
<1> QED BY <1>5, <1>13, <1>14, <1>15, <1>16, <1>18, <1>19, <1>20, <1>21, <1>22, <1>23, <1>24 DEF IInv

\* main() makes a call.
LEMMA MainCalls ==
  ASSUME NEW st, NEW g \in FrameType, FrameOK(g, st), NEW t, t = <<g>>
  PROVE  /\ StackOK(t, st) /\ t # << >> /\ Len(t) = 1 /\ t[1] = g
         /\ \A x : Has(t, x) <=> x = g.mod
         /\ \A x, u : Kept(t, x, u) <=> x = g.mod /\ Keeps(g, u)
<1>1. t = Append(<< >>, g)
  OBVIOUS
<1>2. StackOK(<< >>, st) /\ Len(<< >>) = 0 /\ (\A m : ~Has(<< >>, m)) /\ \A m, u : ~Kept(<< >>, m, u)
  BY Empty
<1> DEFINE e == << >>
<1>3. StackOK(e, st) /\ e = << >> /\ t = Append(e, g)
  BY <1>1, <1>2
<1>4. Len(e) = 0 /\ (\A m : ~Has(e, m)) /\ \A m, u : ~Kept(e, m, u)
  BY <1>2
<1> HIDE DEF e
<1>5. Pushed(e, g, t, st)
  BY <1>3, CallPushes
<1>6. Len(t) = 1
  BY <1>4, <1>5 DEF Pushed
<1>7. t[1] = g
  BY <1>6, <1>5 DEF Pushed
<1> QED BY <1>4, <1>5, <1>6, <1>7 DEF Pushed

\* The frames main() pushes.
LEMMA MainFrames ==
  ASSUME NEW m \in Module, NEW g
  PROVE  /\ ~startOk /\ g = Frame(m, "init", Uses[m]) =>
              /\ g \in FrameType /\ FrameOK(g, startOk) /\ g.mod = m /\ g.op = "init"
              /\ g.left = Uses[m] /\ g.ok
              /\ \A u \in ToSet(Uses[m]) : ~Keeps(g, u)
         /\ g = Frame(m, "down", Releases(m)) =>
              /\ g \in FrameType /\ FrameOK(g, startOk) /\ g.mod = m /\ g.op = "down"
              /\ g.left = Releases(m) /\ ~g.own /\ ToSet(g.left) = Needs(m, startOk)
              /\ \A u : Keeps(g, u)
<1>1. ASSUME ~startOk, g = Frame(m, "init", Uses[m])
      PROVE  /\ g \in FrameType /\ FrameOK(g, startOk) /\ g.mod = m /\ g.op = "init"
             /\ g.left = Uses[m] /\ g.ok
             /\ \A u \in ToSet(Uses[m]) : ~Keeps(g, u)
  <2>1. Uses[m] \in Seq(Module) /\ Distinct(Uses[m])
    BY UsesAreSeqs
  <2>2. /\ g \in FrameType /\ g.mod = m /\ g.op = "init" /\ g.left = Uses[m]
        /\ g.own = FALSE /\ g.ok = TRUE
    BY <1>1, <2>1 DEF Frame, FrameType
  <2>3. FrameOK(g, startOk)
    BY <1>1, <2>1, <2>2, UsesBelow DEF FrameOK, Needs
  <2> QED BY <2>2, <2>3 DEF Keeps
<1>2. ASSUME g = Frame(m, "down", Releases(m))
      PROVE  /\ g \in FrameType /\ FrameOK(g, startOk) /\ g.mod = m /\ g.op = "down"
             /\ g.left = Releases(m) /\ ~g.own /\ ToSet(g.left) = Needs(m, startOk)
             /\ \A u : Keeps(g, u)
  <2>1. Releases(m) \in Seq(Module) /\ Distinct(Releases(m)) /\ ToSet(Releases(m)) = Needs(m, startOk)
    BY ReleasesAll
  <2>2. /\ g \in FrameType /\ g.mod = m /\ g.op = "down" /\ g.left = Releases(m)
        /\ g.own = FALSE /\ g.ok = TRUE
    BY <1>2, <2>1 DEF Frame, FrameType
  <2>3. FrameOK(g, startOk)
    BY <2>1, <2>2 DEF FrameOK
  <2> QED BY <2>1, <2>2, <2>3 DEF Keeps
<1> QED BY <1>1, <1>2

\* Between the calls of main().
LEMMA AtRest ==
  ASSUME IInv, stack = << >>
  PROVE  /\ (\A x : ~Has(stack, x)) /\ \A x, u : ~Kept(stack, x, u)
         /\ \A x, u : Holds(stack, refs, inited, x, u) <=> Alive(refs, inited, x)
         /\ refs \in [Module -> Int] /\ inited \in [Module -> BOOLEAN]
         /\ Len(stack) = 0
         /\ main # "static" /\ medium => refs["Log"] > 0
         /\ main \in {"start", "register", "registered"} => startOk = FALSE
         /\ main # "start" => inited["Log"]
<1>1. (\A x : ~Has(stack, x)) /\ (\A x, u : ~Kept(stack, x, u)) /\ Len(stack) = 0
  BY Empty
<1>2. refs \in [Module -> Int] /\ inited \in [Module -> BOOLEAN] /\ startOk \in BOOLEAN
  BY DEF IInv, TypeInv
<1>3. main # "static" /\ medium => refs["Log"] > 0
  BY <1>1 DEF IInv, MediumInv
<1>4. main \in {"start", "register", "registered"} => startOk = FALSE
  BY <1>2 DEF IInv, MainInv
<1>5. main # "start" => inited["Log"]
  BY <1>1 DEF IInv, EarlyInv
<1> QED BY <1>1, <1>2, <1>3, <1>4, <1>5 DEF Holds

\* The manager's frame holds nothing, as the manager did at rest.
LEMMA StartManagerKeeps ==
  ASSUME IInv, StartManager
  PROVE  IInv'
<1> DEFINE g == Frame("DriverMgr", "init", Uses["DriverMgr"])
<1>1. /\ main = "start" /\ stack = << >> /\ main' = "register"
      /\ built' = Instance(Instance(built, "Driver"), "DriverMgr")
      /\ refs' = [refs EXCEPT !["DriverMgr"] = @ + 1]
      /\ stack' = <<g>>
      /\ UNCHANGED <<inited, startOk, medium, lldb, thread, ghosts>>
  BY DEF StartManager, Main
<1>2. /\ \A x : ~Has(stack, x)
      /\ \A x, u : Holds(stack, refs, inited, x, u) <=> Alive(refs, inited, x)
      /\ refs \in [Module -> Int] /\ inited \in [Module -> BOOLEAN] /\ startOk = FALSE
      /\ medium => refs["Log"] > 0
  BY <1>1, AtRest
<1>3. "DriverMgr" \in Module /\ "Driver" \in Module
  BY DEF Module
<1>4. /\ g \in FrameType /\ FrameOK(g, startOk) /\ g.mod = "DriverMgr" /\ g.op = "init"
      /\ g.left = Uses["DriverMgr"] /\ g.ok
      /\ \A u \in ToSet(Uses["DriverMgr"]) : ~Keeps(g, u)
  <2>1. ~startOk /\ g = Frame("DriverMgr", "init", Uses["DriverMgr"])
    BY <1>2
  <2> HIDE DEF g
  <2> QED BY <1>3, <2>1, MainFrames
<1> HIDE DEF g
<1>5. /\ StackOK(stack', startOk') /\ stack' # << >> /\ Len(stack') = 1 /\ stack'[1] = g
      /\ \A x : Has(stack', x) <=> x = "DriverMgr"
      /\ \A x, u : Kept(stack', x, u) <=> x = "DriverMgr" /\ Keeps(g, u)
  BY <1>1, <1>4, MainCalls
<1>6. /\ refs' \in [Module -> Int]
      /\ \A x \in Module : x # "DriverMgr" => refs'[x] = refs[x]
  BY <1>1, <1>2, <1>3
<1>7. ~inited["DriverMgr"] /\ ~inited["Driver"] /\ refs["Driver"] = 0
  BY <1>1, <1>2 DEF IInv, TopInv, DriverCounted
<1>8. \A u \in Module : Clients(stack', refs', inited', u) = Clients(stack, refs, inited, u)
  <2>1. ASSUME NEW u \in Module, NEW x \in Module, u \in ToSet(Uses[x])
        PROVE  Holds(stack', refs', inited', x, u) <=> Holds(stack, refs, inited, x, u)
    <3>1. CASE x = "DriverMgr"
      BY <1>2, <1>4, <1>5, <1>7, <2>1, <3>1 DEF Holds, Alive
    <3>2. CASE x # "DriverMgr"
      BY <1>1, <1>2, <1>5, <1>6, <3>2 DEF Holds, Alive
    <3> QED BY <3>1, <3>2
  <2> QED BY <2>1, ClientsSame
<1>9. CountInv'
  <2>1. SUFFICES ASSUME NEW u \in Module \ Top
                 PROVE  refs'[u] = Cardinality(Clients(stack', refs', inited', u)) + Extra(u)
    BY <1>1 DEF CountInv
  <2>2. refs[u] = Cardinality(Clients(stack, refs, inited, u)) + Extra(u)
    BY <1>1 DEF IInv, CountInv
  <2> QED BY <1>1, <1>6, <1>8, <2>2 DEF Extra, Top
<1>10. ~Failed' /\ ~Failed
  BY <1>1 DEF Failed
<1>11. MainInv'
  BY <1>1, <1>2, <1>4, <1>5 DEF IInv, MainInv, Bottom
<1>12. TopInv'
  BY <1>1, <1>2, <1>3, <1>5, <1>6, <1>7 DEF TopInv, DriverCounted
<1>13. FrameInv'
  BY <1>1, <1>4, <1>5, <1>7 DEF FrameInv
<1>14. RestInv'
  BY <1>1, <1>2, <1>5, <1>6, <1>10 DEF IInv, RestInv
<1>15. EarlyInv'
  <2>1. Uses["DriverMgr"] = <<"Log", "Resources">>
    BY <1>3 DEF Uses
  <2> QED BY <1>1, <1>4, <1>5, <1>6, <2>1 DEF IInv, EarlyInv, Module
<1>16. DebuggerInv' /\ MediumInv' /\ LeftInv'
  BY <1>1, <1>2, <1>6, <1>10 DEF IInv, DebuggerInv, MediumInv, LeftInv, Module
<1>17. BuiltInv'
  <2> DEFINE b == Instance(built, "Driver")
  <2>1. "Driver" \in Singleton /\ "DriverMgr" \in Singleton
    BY <1>3 DEF Singleton
  <2>2. BuiltOK(b) /\ \A y : Contains(built, y) => Contains(b, y)
    BY <2>1, InstanceBuilds DEF IInv, BuiltInv
  <2>3. built' = Instance(b, "DriverMgr")
    BY <1>1
  <2> HIDE DEF b
  <2>4. BuiltOK(built') /\ \A y : Contains(b, y) => Contains(built', y)
    BY <2>1, <2>2, <2>3, InstanceBuilds
  <2> QED BY <1>6, <2>2, <2>4 DEF IInv, BuiltInv, Module
<1>18. TypeInv'
  BY <1>1, <1>6 DEF IInv, TypeInv
<1> QED BY <1>5, <1>9, <1>11, <1>12, <1>13, <1>14, <1>15, <1>16, <1>17, <1>18 DEF IInv

\* So does the driver's; main() counts as its client.
LEMMA RegisterDriverKeeps ==
  ASSUME IInv, RegisterDriver
  PROVE  IInv'
<1> DEFINE g == Frame("Driver", "init", Uses["Driver"])
<1>1. /\ main = "register" /\ stack = << >> /\ main' = "registered"
      /\ refs' = [refs EXCEPT !["Driver"] = @ + 1]
      /\ stack' = <<g>>
      /\ UNCHANGED <<inited, built, startOk, medium, lldb, thread, ghosts>>
  BY DEF RegisterDriver, Main
<1>2. /\ \A x : ~Has(stack, x)
      /\ \A x, u : Holds(stack, refs, inited, x, u) <=> Alive(refs, inited, x)
      /\ refs \in [Module -> Int] /\ inited \in [Module -> BOOLEAN] /\ startOk = FALSE
      /\ medium => refs["Log"] > 0
      /\ inited["Log"]
  BY <1>1, AtRest
<1>3. "DriverMgr" \in Module /\ "Driver" \in Module
  BY DEF Module
<1>4. /\ g \in FrameType /\ FrameOK(g, startOk) /\ g.mod = "Driver" /\ g.op = "init"
      /\ g.left = Uses["Driver"] /\ g.ok
      /\ \A u \in ToSet(Uses["Driver"]) : ~Keeps(g, u)
  <2>1. ~startOk /\ g = Frame("Driver", "init", Uses["Driver"])
    BY <1>2
  <2> HIDE DEF g
  <2> QED BY <1>3, <2>1, MainFrames
<1> HIDE DEF g
<1>5. /\ StackOK(stack', startOk') /\ stack' # << >> /\ Len(stack') = 1 /\ stack'[1] = g
      /\ \A x : Has(stack', x) <=> x = "Driver"
      /\ \A x, u : Kept(stack', x, u) <=> x = "Driver" /\ Keeps(g, u)
  BY <1>1, <1>4, MainCalls
<1>6. /\ refs' \in [Module -> Int]
      /\ \A x \in Module : refs'[x] = IF x = "Driver" THEN refs[x] + 1 ELSE refs[x]
  BY <1>1, <1>2, <1>3
<1>7. inited["DriverMgr"] /\ ~inited["Driver"] /\ refs["Driver"] = 0
  BY <1>1, <1>2 DEF IInv, TopInv, DriverCounted
<1>8. \A u \in Module : Clients(stack', refs', inited', u) = Clients(stack, refs, inited, u)
  <2>1. ASSUME NEW u \in Module, NEW x \in Module, u \in ToSet(Uses[x])
        PROVE  Holds(stack', refs', inited', x, u) <=> Holds(stack, refs, inited, x, u)
    <3>1. CASE x = "Driver"
      BY <1>2, <1>4, <1>5, <1>7, <2>1, <3>1 DEF Holds, Alive
    <3>2. CASE x # "Driver"
      BY <1>1, <1>2, <1>5, <1>6, <3>2 DEF Holds, Alive
    <3> QED BY <3>1, <3>2
  <2> QED BY <2>1, ClientsSame
<1>9. CountInv'
  <2>1. SUFFICES ASSUME NEW u \in Module \ Top
                 PROVE  refs'[u] = Cardinality(Clients(stack', refs', inited', u)) + Extra(u)
    BY <1>1 DEF CountInv
  <2>2. refs[u] = Cardinality(Clients(stack, refs, inited, u)) + Extra(u)
    BY <1>1 DEF IInv, CountInv
  <2> QED BY <1>1, <1>6, <1>8, <2>2 DEF Extra, Top
<1>10. ~Failed' /\ ~Failed
  BY <1>1, <1>4, <1>5 DEF Failed
<1>11. MainInv'
  BY <1>1, <1>2, <1>4, <1>5 DEF IInv, MainInv, Bottom
<1>12. TopInv'
  BY <1>1, <1>2, <1>3, <1>5, <1>6, <1>7 DEF TopInv, DriverCounted
<1>13. FrameInv'
  BY <1>1, <1>4, <1>5, <1>7 DEF FrameInv
<1>14. RestInv'
  BY <1>1, <1>2, <1>5, <1>6, <1>10 DEF IInv, RestInv
<1>15. EarlyInv'
  BY <1>1, <1>2 DEF EarlyInv
<1>16. DebuggerInv' /\ MediumInv' /\ LeftInv'
  BY <1>1, <1>2, <1>6, <1>10 DEF IInv, DebuggerInv, MediumInv, LeftInv, Module
<1>17. BuiltInv'
  BY <1>1, <1>6 DEF IInv, BuiltInv, Module
<1>18. TypeInv'
  BY <1>1, <1>6 DEF IInv, TypeInv
<1> QED BY <1>5, <1>9, <1>11, <1>12, <1>13, <1>14, <1>15, <1>16, <1>17, <1>18 DEF IInv

\* Clients are counted.
LEMMA ClientsSome ==
  ASSUME NEW s, NEW r, NEW d, NEW u, NEW a \in Clients(s, r, d, u)
  PROVE  /\ Cardinality(Clients(s, r, d, u)) >= 1
         /\ \A b \in Clients(s, r, d, u) : b # a => Cardinality(Clients(s, r, d, u)) >= 2
<1> DEFINE C == Clients(s, r, d, u)
<1>1. IsFiniteSet(C) /\ Cardinality(C) \in Nat
  BY FiniteClients
<1> HIDE DEF C
<1>2. a \in C
  BY DEF C
<1>3. /\ IsFiniteSet(C \ {a}) /\ Cardinality(C \ {a}) = Cardinality(C) - 1
      /\ Cardinality(C \ {a}) \in Nat
  BY <1>1, <1>2, FS_RemoveElement, FS_CardinalityType
<1>4. Cardinality(C) >= 1
  BY <1>1, <1>3
<1>5. ASSUME NEW b \in C, b # a PROVE Cardinality(C) >= 2
  <2>1. C \ {a} # {}
    BY <1>5
  <2>2. Cardinality(C \ {a}) # 0
    BY <1>3, <2>1, FS_EmptySet
  <2> QED BY <1>1, <1>3, <2>2
<1> QED BY <1>4, <1>5 DEF C

\* A driver that is initialised is a client of the debugger, which is then
\* initialised unless the start has failed.
LEMMA DriverRegisteredKeeps ==
  ASSUME IInv, DriverRegistered
  PROVE  IInv'
<1>1. /\ main = "registered" /\ stack = << >>
      /\ startOk' = inited["Driver"]
      /\ main' = IF startOk' THEN "parse" ELSE "down"
      /\ UNCHANGED <<stack, refs, inited, built, medium, lldb, thread, ghosts>>
  BY DEF DriverRegistered, Main
<1>2. /\ \A x : ~Has(stack, x)
      /\ \A x, u : Holds(stack, refs, inited, x, u) <=> Alive(refs, inited, x)
      /\ refs \in [Module -> Int] /\ inited \in [Module -> BOOLEAN] /\ startOk = FALSE
      /\ medium => refs["Log"] > 0
      /\ inited["Log"]
  BY <1>1, AtRest
<1>3. startOk' \in BOOLEAN /\ (startOk' <=> inited["Driver"]) /\ "Driver" \in Module
  BY <1>1, <1>2 DEF Module
<1>4. Failed' <=> Failed
  BY <1>1, <1>2, <1>3 DEF Failed
<1>5. refs["Driver"] = 1 /\ inited["DriverMgr"]
  BY <1>1 DEF IInv, TopInv, DriverCounted
<1>6. inited["Driver"] => inited["Debugger"]
  <2>1. SUFFICES ASSUME inited["Driver"] PROVE inited["Debugger"]
    OBVIOUS
  <2>2. ~Failed
    BY <1>1, <2>1 DEF Failed
  <2>3. "Debugger" \in Module \ Top /\ "Debugger" \in ToSet(Uses["Driver"])
    BY Graph DEF Module, Top
  <2>4. "Driver" \in Clients(stack, refs, inited, "Debugger")
    BY <1>2, <1>3, <1>5, <2>3 DEF Clients, Alive
  <2>5. refs["Debugger"] >= 1
    BY <1>1, <2>3, <2>4, ClientsSome, FiniteClients DEF IInv, CountInv, Extra
  <2> QED BY <1>2, <2>2, <2>3, <2>5 DEF IInv, RestInv
<1>7. StackOK(stack', startOk')
  BY <1>1, Empty
<1>8. CountInv'
  <2>1. SUFFICES ASSUME NEW u \in Module \ Top
                 PROVE  refs'[u] = Cardinality(Clients(stack', refs', inited', u)) + Extra(u)
    BY <1>1 DEF CountInv
  <2> QED BY <1>1 DEF IInv, CountInv
<1>9. MainInv'
  BY <1>1, <1>2, <1>3, AtRest DEF IInv, MainInv, Bottom
<1>10. TopInv'
  BY <1>1, <1>3, <1>5 DEF TopInv, DriverCounted
<1>11. FrameInv' /\ RestInv' /\ EarlyInv' /\ BuiltInv'
  BY <1>1, <1>2, <1>4 DEF IInv, FrameInv, RestInv, EarlyInv, BuiltInv
<1>12. DebuggerInv'
  BY <1>1, <1>3, <1>4, <1>6 DEF IInv, DebuggerInv
<1>13. MediumInv' /\ LeftInv'
  BY <1>1, <1>2 DEF MediumInv, LeftInv
<1>14. TypeInv'
  BY <1>1, <1>3 DEF IInv, TypeInv
<1> QED BY <1>7, <1>8, <1>9, <1>10, <1>11, <1>12, <1>13, <1>14 DEF IInv

\* The main loop, or none.
LEMMA RunsKeeps ==
  ASSUME IInv, ArgumentsExit \/ MainLoopBegins \/ MainLoopEnds
  PROVE  IInv'
<1>1. /\ main \in {"parse", "loop"} /\ stack = << >> /\ main' \in {"loop", "down"}
      /\ thread' \in {"none", "active", "joined"} /\ (thread' = "active" <=> main' = "loop")
      /\ UNCHANGED <<stack, refs, inited, built, startOk, medium, lldb, ghosts>>
  <2>1. thread \in {"none", "active", "joined"} /\ (thread = "active" <=> main = "loop")
    BY DEF IInv, TypeInv, MainInv
  <2> QED BY <2>1 DEF ArgumentsExit, MainLoopBegins, MainLoopEnds, Main
<1>2. (\A x : ~Has(stack, x)) /\ Len(stack) = 0 /\ inited["Log"] /\ (medium => refs["Log"] > 0)
  BY <1>1, AtRest
<1>3. startOk /\ ~Failed /\ ~Failed' /\ inited["Debugger"]
  BY <1>1 DEF IInv, MainInv, Failed, DebuggerInv
<1>4. StackOK(stack', startOk')
  BY <1>1, Empty
<1>5. CountInv'
  <2>1. SUFFICES ASSUME NEW u \in Module \ Top
                 PROVE  refs'[u] = Cardinality(Clients(stack', refs', inited', u)) + Extra(u)
    BY <1>1 DEF CountInv
  <2> QED BY <1>1 DEF IInv, CountInv
<1>6. MainInv'
  BY <1>1, <1>2, <1>3 DEF IInv, MainInv, Bottom
<1>7. TopInv'
  BY <1>1, <1>3 DEF IInv, TopInv, DriverCounted
<1>8. FrameInv' /\ RestInv' /\ EarlyInv' /\ BuiltInv'
  BY <1>1, <1>2, <1>3 DEF IInv, FrameInv, RestInv, EarlyInv, BuiltInv
<1>9. DebuggerInv' /\ MediumInv' /\ LeftInv'
  BY <1>1, <1>2, <1>3 DEF IInv, DebuggerInv, MediumInv, LeftInv
<1>10. TypeInv'
  BY <1>1 DEF IInv, TypeInv
<1> QED BY <1>4, <1>5, <1>6, <1>7, <1>8, <1>9, <1>10 DEF IInv

\* The manager's frame holds all, as the manager did at rest.
LEMMA ShutManagerKeeps ==
  ASSUME IInv, ShutManager
  PROVE  IInv'
<1> DEFINE g == Frame("DriverMgr", "down", Releases("DriverMgr"))
<1>1. /\ main = "down" /\ stack = << >> /\ main' = "ended"
      /\ stack' = <<g>>
      /\ UNCHANGED <<refs, inited, built, startOk, medium, lldb, thread, ghosts>>
  BY DEF ShutManager, Main
<1>2. /\ \A x : ~Has(stack, x)
      /\ \A x, u : Holds(stack, refs, inited, x, u) <=> Alive(refs, inited, x)
      /\ refs \in [Module -> Int] /\ inited \in [Module -> BOOLEAN]
      /\ medium => refs["Log"] > 0
      /\ inited["Log"]
  BY <1>1, AtRest
<1>3. "DriverMgr" \in Module
  BY DEF Module
<1>4. /\ g \in FrameType /\ FrameOK(g, startOk) /\ g.mod = "DriverMgr" /\ g.op = "down"
      /\ ~g.own /\ \A u : Keeps(g, u)
  BY <1>3, MainFrames
<1> HIDE DEF g
<1>5. /\ StackOK(stack', startOk') /\ stack' # << >> /\ Len(stack') = 1 /\ stack'[1] = g
      /\ \A x : Has(stack', x) <=> x = "DriverMgr"
      /\ \A x, u : Kept(stack', x, u) <=> x = "DriverMgr" /\ Keeps(g, u)
  BY <1>1, <1>4, MainCalls
<1>6. inited["DriverMgr"] /\ refs["Driver"] = 1
  BY <1>1 DEF IInv, TopInv, DriverCounted
<1>7. \A u \in Module : Clients(stack', refs', inited', u) = Clients(stack, refs, inited, u)
  <2>1. ASSUME NEW u \in Module, NEW x \in Module, u \in ToSet(Uses[x])
        PROVE  Holds(stack', refs', inited', x, u) <=> Holds(stack, refs, inited, x, u)
    <3>1. CASE x = "DriverMgr"
      BY <1>2, <1>4, <1>5, <1>6, <3>1 DEF Holds, Alive
    <3>2. CASE x # "DriverMgr"
      BY <1>1, <1>2, <1>5, <3>2 DEF Holds, Alive
    <3> QED BY <3>1, <3>2
  <2> QED BY <2>1, ClientsSame
<1>8. CountInv'
  <2>1. SUFFICES ASSUME NEW u \in Module \ Top
                 PROVE  refs'[u] = Cardinality(Clients(stack', refs', inited', u)) + Extra(u)
    BY <1>1 DEF CountInv
  <2>2. refs[u] = Cardinality(Clients(stack, refs, inited, u)) + Extra(u)
    BY <1>1 DEF IInv, CountInv
  <2> QED BY <1>1, <1>7, <2>2 DEF Extra
<1>9. Failed' <=> Failed
  BY <1>1 DEF Failed
<1>10. MainInv'
  BY <1>1, <1>4, <1>5 DEF IInv, MainInv, Bottom
<1>11. TopInv'
  BY <1>1, <1>4, <1>5, <1>6 DEF IInv, TopInv, DriverCounted
<1>12. FrameInv'
  BY <1>1, <1>4, <1>5 DEF FrameInv
<1>13. RestInv'
  BY <1>1, <1>2, <1>5, <1>9 DEF IInv, RestInv
<1>14. EarlyInv'
  BY <1>1, <1>2 DEF EarlyInv
<1>15. DebuggerInv' /\ MediumInv' /\ LeftInv'
  BY <1>1, <1>2, <1>9 DEF IInv, DebuggerInv, MediumInv, LeftInv
<1>16. BuiltInv' /\ TypeInv'
  BY <1>1 DEF IInv, BuiltInv, TypeInv
<1> QED BY <1>5, <1>8, <1>10, <1>11, <1>12, <1>13, <1>14, <1>15, <1>16 DEF IInv

\* The driver manager of a run that has started has been shut down: the
\* modules that use others have no clients, those of the highest rank first,
\* and so the modules they use have none.
LEMMA Settled ==
  ASSUME IInv, main = "ended", stack = << >>, startOk
  PROVE  /\ \A m \in Module \ {"DriverMgr"} : refs[m] = (IF m = "Resources" THEN 1 ELSE 0)
         /\ \A m \in Module \ {"Log", "Driver", "Resources"} : ~inited[m]
         /\ ~medium /\ lldb = "gone" /\ thread # "active"
<1>1. /\ \A x, u : Holds(stack, refs, inited, x, u) <=> Alive(refs, inited, x)
      /\ (\A x : ~Has(stack, x)) /\ \A x, u : ~Kept(stack, x, u)
      /\ refs \in [Module -> Int] /\ inited \in [Module -> BOOLEAN] /\ inited["Log"]
      /\ medium => refs["Log"] > 0
  BY AtRest
<1>2. ~inited["DriverMgr"] /\ refs["Driver"] = 0
  BY <1>1 DEF IInv, TopInv, DriverCounted
<1>3. ASSUME NEW u \in Module \ Top, \A x \in Module : u \in ToSet(Uses[x]) => ~Alive(refs, inited, x)
      PROVE  refs[u] = Extra(u)
  <2>1. Clients(stack, refs, inited, u) = {}
    BY <1>1, <1>3 DEF Clients
  <2>2. Cardinality(Clients(stack, refs, inited, u)) = 0
    BY <2>1, FS_EmptySet
  <2>3. refs[u] = Cardinality(Clients(stack, refs, inited, u)) + Extra(u)
    BY DEF IInv, CountInv
  <2> QED BY <2>2, <2>3 DEF Extra
<1>4. ~Alive(refs, inited, "Driver") /\ ~Alive(refs, inited, "DriverMgr")
  BY <1>2 DEF Alive
<1>5. \A u : Extra(u) = IF u = "Resources" THEN 1 ELSE 0
  BY DEF Extra
<1>6. \A x \in Module : "CmdMgr" \in ToSet(Uses[x]) \/ "Debugger" \in ToSet(Uses[x]) => x = "Driver"
  BY Graph
<1>7. refs["CmdMgr"] = 0 /\ refs["Debugger"] = 0
  <2>1. "CmdMgr" \in Module \ Top /\ "Debugger" \in Module \ Top
    BY DEF Module, Top
  <2> QED BY <1>3, <1>4, <1>5, <1>6, <2>1
<1>8. ~Alive(refs, inited, "CmdMgr") /\ ~Alive(refs, inited, "Debugger")
  BY <1>7 DEF Alive
<1>9. \A x \in Module, u \in Module \ {"Log", "Resources"} :
        u \in ToSet(Uses[x]) => x \in {"Driver", "CmdMgr", "Debugger"}
  BY Graph
<1>10. \A u \in Module \ (Top \cup {"Log", "Resources"}) : refs[u] = 0
  BY <1>3, <1>4, <1>5, <1>8, <1>9
<1>11. \A x \in Module : Uses[x] # << >> => ~Alive(refs, inited, x)
  <2>1. ~Alive(refs, inited, "ThreadMgr") /\ ~Alive(refs, inited, "Stdin")
    BY <1>10 DEF Alive, Module, Top
  <2> QED BY <1>4, <1>8, <2>1, Graph
<1>12. \A x \in Module : \A u \in ToSet(Uses[x]) : Uses[x] # << >>
  BY UsesAreSeqs, SetOfSeq
<1>13. refs["Log"] = 0 /\ refs["Resources"] = 1
  <2>1. "Log" \in Module \ Top /\ "Resources" \in Module \ Top
    BY DEF Module, Top
  <2> QED BY <1>3, <1>5, <1>11, <1>12, <2>1
<1>14. \A m \in Module \ {"DriverMgr"} : refs[m] = (IF m = "Resources" THEN 1 ELSE 0)
  BY <1>2, <1>10, <1>13 DEF Top
<1>15. \A m \in Module \ {"Log", "Driver", "Resources"} : ~inited[m]
  BY <1>1, <1>2, <1>14 DEF IInv, RestInv, Top
<1>16. lldb = "gone"
  <2>1. ~inited["Debugger"]
    BY <1>15 DEF Module
  <2> QED BY <2>1 DEF IInv, DebuggerInv
<1>17. ~medium /\ thread # "active"
  BY <1>1, <1>13 DEF IInv, MainInv
<1> QED BY <1>14, <1>15, <1>16, <1>17

\* From here on a module may have fewer clients than modules that hold it.
LEMMA MainReturnsKeeps ==
  ASSUME IInv, MainReturns
  PROVE  IInv'
<1>1. /\ main = "ended" /\ stack = << >> /\ main' = "static"
      /\ UNCHANGED <<stack, refs, inited, built, startOk, medium, lldb, thread, ghosts>>
  BY DEF MainReturns, Main
<1>2. /\ (\A x : ~Has(stack, x)) /\ (\A x, u : ~Kept(stack, x, u)) /\ Len(stack) = 0
      /\ inited["Log"] /\ refs \in [Module -> Int]
  BY <1>1, AtRest
<1>3. Failed' <=> Failed
  BY <1>1 DEF Failed
<1>4. StackOK(stack', startOk')
  BY <1>1, Empty
<1>5. CountInv'
  <2>1. SUFFICES ASSUME NEW u \in Module \ Top
                 PROVE  refs[u] >= (Cardinality(Clients(stack, refs, inited, u)) + Extra(u))
                                     - Stolen(stack, built, u)
    BY <1>1 DEF CountInv
  <2>2. refs[u] = Cardinality(Clients(stack, refs, inited, u)) + Extra(u)
    BY <1>1 DEF IInv, CountInv
  <2>3. refs[u] \in Int /\ Stolen(stack, built, u) \in {0, 1}
    BY <1>2 DEF Stolen
  <2> HIDE DEF Stolen
  <2> QED BY <2>2, <2>3
<1>6. MainInv'
  BY <1>1, <1>2 DEF IInv, MainInv, Bottom
<1>7. TopInv'
  BY <1>1, <1>2 DEF IInv, TopInv, DriverCounted
<1>8. FrameInv' /\ RestInv' /\ EarlyInv' /\ BuiltInv'
  BY <1>1, <1>2, <1>3 DEF IInv, FrameInv, RestInv, EarlyInv, BuiltInv
<1>9. DebuggerInv' /\ MediumInv'
  BY <1>1, <1>3 DEF IInv, DebuggerInv, MediumInv
<1>10. LeftInv'
  <2>1. SUFFICES ASSUME startOk PROVE LeftInv'
    BY <1>1 DEF LeftInv
  <2>2. ghosts = {}
    BY <1>1 DEF IInv, MainInv
  <2>3. /\ \A m \in Module \ {"DriverMgr"} : refs[m] = (IF m = "Resources" THEN 1 ELSE 0)
        /\ \A m \in Module \ {"Log", "Driver", "Resources"} : ~inited[m]
        /\ ~medium
    BY <1>1, <2>1, Settled
  <2> QED BY <1>1, <2>2, <2>3 DEF LeftInv
<1>11. TypeInv'
  BY <1>1 DEF IInv, TypeInv
<1> QED BY <1>4, <1>5, <1>6, <1>7, <1>8, <1>9, <1>10, <1>11 DEF IInv

\* A destructor takes a client away, and shuts its module down if that was
\* the last.
LEMMA DestroyKeeps ==
  ASSUME IInv, Destroy
  PROVE  IInv'
<1> DEFINE m == Last(built)
           counts == m \notin {"Driver", "DriverMgr", "Resources", "LogFile"}
           works == counts /\ LastClientGone(m, refs[m] - 1)
           g == Frame(m, "down", Releases(m))
<1>1. /\ main = "static" /\ stack = << >> /\ built # << >>
      /\ refs' = IF counts THEN [refs EXCEPT ![m] = @ - 1] ELSE refs
      /\ stack' = IF works THEN <<g>> ELSE << >>
      /\ built' = IF works THEN built ELSE Front(built)
      /\ UNCHANGED <<main, inited, startOk, medium, lldb, thread, ghosts>>
  BY DEF Destroy, Main
<1>2. /\ (\A x : ~Has(stack, x)) /\ (\A x, u : ~Kept(stack, x, u)) /\ Len(stack) = 0
      /\ \A x, u : Holds(stack, refs, inited, x, u) <=> Alive(refs, inited, x)
      /\ refs \in [Module -> Int] /\ inited \in [Module -> BOOLEAN]
      /\ inited["Log"]
  BY <1>1, AtRest
<1>3. /\ BuiltOK(built) /\ m = built[Len(built)] /\ m \in Singleton /\ Contains(built, m)
      /\ BuiltOK(Front(built)) /\ \A y : Contains(Front(built), y) <=> Contains(built, y) /\ y # m
  BY <1>1, LastDestroyed DEF IInv, BuiltInv
<1>4. counts => m \in Module /\ m \notin Top /\ m # "Resources" /\ Counting(m)
  BY <1>3 DEF Singleton, Top, Counting
<1>5. ~counts => ~Counting(m)
  BY DEF Counting
<1>6. works => g \in FrameType /\ FrameOK(g, startOk) /\ g.mod = m /\ g.op = "down" /\ ~g.own
               /\ (\A u : Keeps(g, u)) /\ g.left \in Seq(Module) /\ ToSet(g.left) = Needs(m, startOk)
  <2>1. works => m \in Module
    BY <1>4
  <2>2. works => g \in FrameType /\ FrameOK(g, startOk) /\ g.mod = m /\ g.op = "down" /\ ~g.own
                 /\ (\A u : Keeps(g, u)) /\ g.left = Releases(m) /\ ToSet(g.left) = Needs(m, startOk)
    BY <2>1, MainFrames
  <2> QED BY <2>1, <2>2, ReleasesAll
<1>7. works <=> counts /\ refs[m] - 1 <= 0 /\ inited[m]
  BY DEF LastClientGone
<1> HIDE DEF m, counts, works, g
<1>8. ASSUME works
      PROVE  /\ StackOK(stack', startOk) /\ Len(stack') = 1 /\ stack'[1] = g /\ stack' # << >>
             /\ \A x : Has(stack', x) <=> x = m
             /\ \A x, u : Kept(stack', x, u) <=> x = m
  <2>1. stack' = <<g>>
    BY <1>1, <1>8
  <2> QED BY <1>6, <1>8, <2>1, MainCalls
<1>9. ASSUME ~works
      PROVE  /\ StackOK(stack', startOk) /\ stack' = << >> /\ Len(stack') = 0
             /\ (\A x : ~Has(stack', x)) /\ \A x, u : ~Kept(stack', x, u)
  BY <1>1, <1>9, Empty
<1>10. StackOK(stack', startOk')
  BY <1>1, <1>8, <1>9
<1>11. /\ refs' \in [Module -> Int]
       /\ \A x \in Module : refs'[x] = IF counts /\ x = m THEN refs[x] - 1 ELSE refs[x]
  <2>1. CASE counts
    BY <1>1, <1>2, <1>4, <2>1
  <2>2. CASE ~counts
    BY <1>1, <1>2, <2>2
  <2> QED BY <2>1, <2>2
<1>12. counts => (refs[m] > 0 => inited[m] \/ (m = "Debugger" /\ Failed))
                 /\ (inited[m] /\ m # "Log" => refs[m] > 0)
  BY <1>2, <1>4 DEF IInv, RestInv, Top
<1>13. ASSUME NEW u \in Module, NEW x \in Module, u \in ToSet(Uses[x]), Holds(stack', refs', inited', x, u)
       PROVE  Holds(stack, refs, inited, x, u)
  <2>1. CASE works /\ x = m
    <3>1. m # "Log" /\ m # "DriverMgr"
      BY <1>4, <1>7, <1>13, <2>1, Graph DEF Top
    <3> QED BY <1>2, <1>7, <1>12, <2>1, <3>1 DEF Alive
  <2>2. CASE ~(works /\ x = m)
    <3>1. ~Has(stack', x)
      BY <1>8, <1>9, <2>2
    <3>2. Alive(refs', inited', x)
      BY <1>13, <3>1 DEF Holds
    <3>3. refs'[x] \in Int /\ refs[x] \in Int /\ refs'[x] <= refs[x]
      BY <1>2, <1>11
    <3>4. Alive(refs, inited, x)
      BY <1>1, <3>2, <3>3 DEF Alive
    <3> QED BY <1>2, <3>4
  <2> QED BY <2>1, <2>2
<1>14. CountInv'
  <2>1. SUFFICES ASSUME NEW u \in Module \ Top
                 PROVE  refs'[u] >= (Cardinality(Clients(stack', refs', inited', u)) + Extra(u))
                                     - Stolen(stack', built', u)
    BY <1>1 DEF CountInv
  <2>2. refs[u] >= (Cardinality(Clients(stack, refs, inited, u)) + Extra(u))
                    - Stolen(stack, built, u)
    BY <1>1 DEF IInv, CountInv
  <2>3. Cardinality(Clients(stack', refs', inited', u)) <= Cardinality(Clients(stack, refs, inited, u))
    BY <1>13, ClientsFewer
  <2>4. Extra(u) \in Int
    BY <1>1 DEF Extra
  <2>5. u # m => Stolen(stack', built', u) = Stolen(stack, built, u)
    <3>1. CASE works
      BY <1>1, <1>6, <1>8, <3>1 DEF Stolen
    <3>2. CASE ~works
      BY <1>1, <1>3, <1>9, <3>2 DEF Stolen
    <3> QED BY <3>1, <3>2
  <2>6. u = m => Stolen(stack, built, u) = 0 /\ Stolen(stack', built', u) = IF counts THEN 1 ELSE 0
    <3>1. CASE works
      BY <1>1, <1>3, <1>4, <1>6, <1>7, <1>8, <3>1 DEF Stolen
    <3>2. CASE ~works
      BY <1>1, <1>3, <1>4, <1>5, <1>9, <3>2 DEF Stolen
    <3> QED BY <3>1, <3>2
  <2>7. /\ Cardinality(Clients(stack', refs', inited', u)) \in Int
        /\ Cardinality(Clients(stack, refs, inited, u)) \in Int
        /\ refs[u] \in Int
    BY <1>2, FiniteClients
  <2>8. Stolen(stack, built, u) \in {0, 1}
    BY DEF Stolen
  <2>9. CASE u = m
    BY <1>11, <2>2, <2>3, <2>4, <2>6, <2>7, <2>9
  <2>10. CASE u # m
    BY <1>11, <2>2, <2>3, <2>4, <2>5, <2>7, <2>8, <2>10
  <2> QED BY <2>9, <2>10
<1>15. MainInv'
  <2>1. CASE works
    BY <1>1, <1>3, <1>4, <1>6, <1>7, <1>8, <2>1 DEF IInv, MainInv, Bottom
  <2>2. CASE ~works
    BY <1>1, <1>9, <2>2 DEF IInv, MainInv, Bottom
  <2> QED BY <2>1, <2>2
<1>16. TopInv'
  <2>1. refs'["Driver"] = refs["Driver"]
    BY <1>4, <1>11 DEF Top, Module
  <2> QED BY <1>1, <2>1 DEF IInv, TopInv, DriverCounted
<1>17. FrameInv'
  <2>1. CASE works
    <3>1. refs'[m] <= 0
      BY <1>2, <1>4, <1>7, <1>11, <2>1
    <3>2. \A i \in 1..Len(stack') : i = 1 /\ stack'[i] = g
      <4>1. Len(stack') = 1 /\ stack'[1] = g
        BY <1>8, <2>1
      <4>2. \A i \in 1..1 : i = 1
        OBVIOUS
      <4> QED BY <4>1, <4>2
    <3>3. g.op = "down" /\ g.mod = m /\ ~g.own
      BY <1>6, <2>1
    <3>4. \A i \in 1..Len(stack') :
            /\ stack'[i].op # "init"
            /\ refs'[stack'[i].mod] <= 0 /\ ~stack'[i].own
      BY <3>1, <3>2, <3>3
    <3> QED BY <3>4 DEF FrameInv
  <2>2. CASE ~works
    BY <1>9, <2>2 DEF FrameInv
  <2> QED BY <2>1, <2>2
<1>18. Failed' <=> Failed
  BY <1>1 DEF Failed
<1>19. RestInv'
  <2>1. SUFFICES ASSUME NEW x \in Module, ~Has(stack', x)
                 PROVE  /\ refs'[x] > 0 => \/ inited[x] \/ x = "DriverMgr"
                                           \/ (x \in {"Debugger", "Driver"} /\ Failed)
                        /\ inited[x] /\ x \notin Top \cup {"Log"} => refs'[x] > 0
    BY <1>1, <1>18 DEF RestInv
  <2>2. CASE counts /\ x = m
    <3>1. ~works
      BY <1>8, <2>1, <2>2
    <3> QED BY <1>2, <1>7, <1>11, <1>12, <2>2, <3>1
  <2>3. CASE ~(counts /\ x = m)
    BY <1>2, <1>11, <2>3 DEF IInv, RestInv
  <2> QED BY <2>2, <2>3
<1>20. EarlyInv' /\ MediumInv'
  BY <1>1, <1>2 DEF EarlyInv, MediumInv
<1>21. DebuggerInv'
  BY <1>1, <1>18 DEF IInv, DebuggerInv
<1>22. BuiltInv'
  <2>1. BuiltOK(built')
    BY <1>1, <1>3
  <2>2. /\ refs["CmdMgr"] <= 1 /\ refs["CmdMgr"] \in Int /\ "CmdMgr" \in Module
        /\ refs["CmdMgr"] > 0 => Contains(built, "CmdMgr")
    BY <1>2 DEF IInv, BuiltInv, Module
  <2>3. refs'["CmdMgr"] <= 1 /\ (refs'["CmdMgr"] > 0 => refs["CmdMgr"] > 0 /\ (counts => "CmdMgr" # m))
    BY <1>11, <2>2
  <2>4. refs'["CmdMgr"] > 0 => m # "CmdMgr"
    BY <2>3 DEF counts
  <2> QED BY <1>1, <1>3, <2>1, <2>2, <2>3, <2>4 DEF BuiltInv
<1>23. LeftInv'
  <2>1. SUFFICES ASSUME startOk PROVE LeftInv'
    BY <1>1 DEF LeftInv
  <2>2. /\ ghosts = {} /\ ~medium
        /\ \A x \in Module \ {"Resources", "DriverMgr"} : refs[x] <= 0
        /\ \A x \in Module \ {"Log", "Driver", "Resources"} : ~inited[x]
    BY <1>1, <2>1 DEF IInv, LeftInv
  <2>3. \A x \in Module \ {"Resources", "DriverMgr"} : refs'[x] <= 0
    BY <1>2, <1>11, <2>2
  <2>4. ASSUME works PROVE Len(stack') = 1 /\ stack'[1].mod = "Log" /\ stack'[1].left = << >>
    <3>1. m = "Log"
      BY <1>4, <1>7, <2>2, <2>4 DEF Top
    <3>2. Needs(m, startOk) = {}
      BY <3>1, Graph DEF Needs, Module
    <3>3. g.left = << >>
      BY <1>6, <2>4, <3>2, SetOfSeq
    <3> QED BY <1>6, <1>8, <2>4, <3>1, <3>3
  <2> QED BY <1>1, <1>9, <2>2, <2>3, <2>4 DEF LeftInv
<1>24. TypeInv'
  BY <1>1, <1>11 DEF IInv, TypeInv
<1> QED BY <1>10, <1>14, <1>15, <1>16, <1>17, <1>19, <1>20, <1>21, <1>22, <1>23, <1>24 DEF IInv

\* Only the resources are initialised, and nothing holds anything.
LEMMA InitIInv ==
  ASSUME Init
  PROVE  IInv
<1>1. /\ main = "start" /\ stack = << >> /\ built = Instance(<< >>, "Resources")
      /\ refs = [m \in Module |-> IF m = "Resources" THEN 1 ELSE 0]
      /\ inited = [m \in Module |-> m = "Resources"] /\ startOk = FALSE
      /\ medium = FALSE /\ lldb = "none" /\ thread = "none" /\ ghosts = {}
  BY DEF Init
<1>2. /\ StackOK(stack, startOk) /\ Len(stack) = 0
      /\ (\A x : ~Has(stack, x)) /\ \A x, u : ~Kept(stack, x, u)
  BY <1>1, Empty
<1>3. /\ refs \in [Module -> Int] /\ inited \in [Module -> BOOLEAN]
      /\ \A x \in Module : /\ refs[x] = IF x = "Resources" THEN 1 ELSE 0
                           /\ inited[x] <=> x = "Resources"
      /\ {"Log", "Resources", "CmdMgr", "Debugger", "Driver", "DriverMgr"} \subseteq Module
  <2>1. refs \in [Module -> Int] /\ \A x \in Module : refs[x] = IF x = "Resources" THEN 1 ELSE 0
    BY <1>1
  <2>2. inited \in [Module -> BOOLEAN] /\ \A x \in Module : inited[x] <=> x = "Resources"
    BY Zenon, <1>1
  <2> QED BY <2>1, <2>2 DEF Module
<1>4. CountInv
  <2>1. SUFFICES ASSUME NEW u \in Module \ Top
                 PROVE  refs[u] = Cardinality(Clients(stack, refs, inited, u)) + Extra(u)
    BY <1>1 DEF CountInv
  <2>2. \A x \in Module : u \in ToSet(Uses[x]) => ~Holds(stack, refs, inited, x, u)
    BY <1>2, <1>3, Graph DEF Holds, Alive
  <2>3. Clients(stack, refs, inited, u) = {}
    BY <2>2 DEF Clients
  <2>4. Cardinality(Clients(stack, refs, inited, u)) = 0
    BY <2>3, FS_EmptySet
  <2> QED BY <1>3, <2>4 DEF Extra
<1>5. MainInv
  BY <1>1, <1>2 DEF MainInv, Bottom
<1>6. TopInv
  BY <1>1, <1>3 DEF TopInv, DriverCounted
<1>7. FrameInv /\ RestInv
  BY <1>2, <1>3 DEF FrameInv, RestInv
<1>8. EarlyInv /\ MediumInv /\ LeftInv
  BY <1>1, <1>3 DEF EarlyInv, MediumInv, LeftInv
<1>9. DebuggerInv
  BY <1>1, <1>3 DEF DebuggerInv, Failed
<1>10. BuiltInv
  <2>1. BuiltOK(<< >>) /\ "Resources" \in Singleton
    BY EmptySeq DEF BuiltOK, Distinct, Older, Singleton, Module
  <2>2. BuiltOK(built)
    BY <1>1, <2>1, InstanceBuilds
  <2> QED BY <1>3, <2>2 DEF BuiltInv
<1>11. TypeInv
  BY <1>1, <1>3 DEF TypeInv
<1> QED BY <1>2, <1>4, <1>5, <1>6, <1>7, <1>8, <1>9, <1>10, <1>11 DEF IInv

\* Every step of main(), Initialize and Shutdown.
LEMMA NextKeeps ==
  ASSUME IInv, [Next]_vars
  PROVE  IInv'
<1>1. CASE Initialize
  BY <1>1, InitCallKeeps, InitLogKeeps, InitDebuggerKeeps, InitModuleKeeps, InitFailsKeeps
  DEF Initialize
<1>2. CASE Shutdown
  BY <1>2, ShutOwnKeeps, ShutCallKeeps, ShutReturnsKeeps DEF Shutdown
<1>3. CASE StartManager \/ RegisterDriver \/ DriverRegistered
  BY <1>3, StartManagerKeeps, RegisterDriverKeeps, DriverRegisteredKeeps
<1>4. CASE ArgumentsExit \/ MainLoopBegins \/ MainLoopEnds
  BY <1>4, RunsKeeps
<1>5. CASE ShutManager \/ MainReturns \/ Destroy
  BY <1>5, ShutManagerKeeps, MainReturnsKeeps, DestroyKeeps
<1>6. CASE UNCHANGED vars
  BY <1>6 DEF vars, IInv, TypeInv, CountInv, MainInv, Bottom, TopInv, DriverCounted, FrameInv,
              RestInv, Failed, EarlyInv, DebuggerInv, MediumInv, BuiltInv, LeftInv
<1> QED BY <1>1, <1>2, <1>3, <1>4, <1>5, <1>6 DEF Next, MainStep, Ended

\* In every reachable state a module has as many clients as there are modules
\* that hold it, at rest or in a call, but for the one of the resources that
\* nobody gives back and, once main() has returned, for the client that a
\* destructor takes away (CMIUtilSingletonBase's count, MIDriverMain.cpp).
THEOREM Invariance == Spec => []IInv
<1>1. Init => IInv
  BY InitIInv
<1>2. IInv /\ [Next]_vars => IInv'
  BY NextKeeps
<1> QED BY <1>1, <1>2, PTL DEF Spec

(***************************************************************************)
(* What the invariant gives.                                               *)
(***************************************************************************)

\* Types of the variables (MIUtilSingletonBase.h, MIDriverMain.cpp).
THEOREM TypeCorrect == Spec => []TypeOK
<1>1. ASSUME IInv PROVE TypeOK
  <2>1. \A i \in DOMAIN stack : stack[i].mod \in Module /\ stack[i].op \in {"init", "down"}
    <3>1. stack \in Seq(FrameType)
      BY <1>1 DEF IInv, StackOK
    <3>2. \A i \in DOMAIN stack : stack[i] \in FrameType
      BY <3>1
    <3> QED BY <3>2 DEF FrameType
  <2>2. \A i \in DOMAIN built : built[i] \in Singleton
    BY <1>1 DEF IInv, BuiltInv, BuiltOK
  <2> QED BY <1>1, <2>1, <2>2 DEF IInv, TypeInv, TypeOK
<1> QED BY <1>1, Invariance, PTL

\* A module that is up is a client of each module it uses.
LEMMA UpHolds ==
  ASSUME IInv, NEW m \in Module, Up(m), NEW u \in ToSet(Uses[m])
  PROVE  /\ inited[m] /\ refs[m] > 0 /\ ~Has(stack, m)
         /\ u \in Module \ Top /\ m \in Clients(stack, refs, inited, u)
<1>1. StackOK(stack, startOk) /\ inited[m] /\ refs[m] > 0
  BY DEF IInv, Up
<1>2. ASSUME NEW i \in 1..Len(stack), stack[i].mod = m PROVE FALSE
  <2>1. stack[i].op \in {"init", "down"} /\ stack \in Seq(FrameType)
    BY <1>1, FrameParts
  <2>2. i \in DOMAIN stack
    BY <2>1
  <2>3. stack[i].op = "init"
    BY <1>2, <2>1, <2>2 DEF Up
  <2> QED BY <1>1, <1>2, <2>3 DEF IInv, FrameInv
<1>3. ~Has(stack, m)
  BY <1>2 DEF Has
<1> QED BY <1>1, <1>3, UsesBelow DEF Clients, Holds, Alive

\* A used module has a client.  After main() a destructor may have taken one
\* away, but then the driver, which is never shut down when the start has
\* failed, is another; what only the interpreter's manager uses is older than
\* it and so not destroyed before it.
LEMMA UsedIsCounted ==
  ASSUME IInv, NEW m \in Module, Up(m), NEW u \in ToSet(Uses[m])
  PROVE  refs[u] > 0
<1>1. /\ inited[m] /\ refs[m] > 0 /\ ~Has(stack, m)
      /\ u \in Module \ Top /\ m \in Clients(stack, refs, inited, u)
      /\ refs \in [Module -> Int]
  BY UpHolds DEF IInv, TypeInv
<1> DEFINE n == Cardinality(Clients(stack, refs, inited, u))
<1>2. n >= 1 /\ n \in Nat
  BY <1>1, ClientsSome, FiniteClients
<1>3. Extra(u) \in {0, 1} /\ Stolen(stack, built, u) \in {0, 1}
  BY DEF Extra, Stolen
<1>4. IF main = "static" THEN refs[u] >= (n + Extra(u)) - Stolen(stack, built, u)
                         ELSE refs[u] = n + Extra(u)
  BY <1>1 DEF IInv, CountInv
<1> HIDE DEF n
<1>5. CASE main # "static"
  BY <1>2, <1>3, <1>4, <1>5
<1>6. CASE main = "static" /\ startOk
  <2>1. m = "Resources" \/ m = "DriverMgr"
    BY <1>1, <1>6 DEF IInv, LeftInv
  <2>2. m # "DriverMgr"
    BY <1>1, <1>6 DEF IInv, TopInv
  <2> QED BY <2>1, <2>2, Graph DEF Module
<1>7. CASE main = "static" /\ ~startOk
  <2>1. m \notin {"Driver", "DriverMgr", "Debugger"} /\ refs["Driver"] = 1
    BY <1>1, <1>7 DEF IInv, TopInv, DebuggerInv, Failed, DriverCounted
  <2>2. ~Has(stack, "Driver")
    <3>1. ASSUME NEW i \in 1..Len(stack), stack[i].mod = "Driver" PROVE FALSE
      <4>1. StackOK(stack, startOk) /\ startOk = FALSE
        BY <1>7 DEF IInv, TypeInv
      <4>2. i = 1
        <5>1. stack[i].mod = "Driver" /\ i # 1 => startOk
          BY <4>1, TopFrames
        <5> QED BY <3>1, <4>1, <5>1
      <4>3. stack # << >>
        BY <3>1, Empty
      <4> QED BY <1>7, <3>1, <4>2, <4>3 DEF IInv, MainInv, Counting
    <3> QED BY <3>1 DEF Has
  <2>3. CASE u \in {"Log", "Resources"}
    <3>1. "Driver" \in Clients(stack, refs, inited, u)
      BY <2>1, <2>2, <2>3, Graph DEF Clients, Holds, Alive, Module
    <3>2. n >= 2
      BY <1>1, <2>1, <3>1, ClientsSome DEF n
    <3> QED BY <1>1, <1>2, <1>3, <1>4, <1>7, <3>2
  <2>4. CASE u \notin {"Log", "Resources"}
    <3>1. m = "CmdMgr" /\ u \in {"Factory", "Interpreter", "Invoker"}
      BY <2>1, <2>4, Graph
    <3>2. BuiltOK(built) /\ Contains(built, "CmdMgr")
      BY <1>1, <3>1 DEF IInv, BuiltInv
    <3>3. built \in Seq(Singleton) /\ Len(built) \in Nat
      BY <3>2 DEF BuiltOK
    <3>4. PICK i \in 1..Len(built) : built[i] = "CmdMgr"
      BY <3>2, <3>3 DEF Contains
    <3>5. PICK j \in 1..(i-1) : built[j] = u
      BY <3>1, <3>2, <3>4 DEF BuiltOK, Older
    <3>6. j \in 1..Len(built) /\ j # Len(built) /\ Len(built) \in 1..Len(built)
      BY <3>3
    <3>7. Contains(built, u) /\ built[Len(built)] # u
      BY <3>2, <3>3, <3>5, <3>6 DEF Contains, BuiltOK, Distinct
    <3>8. stack # << >> => stack[1].mod = built[Len(built)]
      BY <1>7 DEF IInv, MainInv
    <3>9. Stolen(stack, built, u) = 0
      BY <3>7, <3>8 DEF Stolen
    <3> QED BY <1>1, <1>2, <1>3, <1>4, <1>7, <3>9
  <2> QED BY <2>3, <2>4
<1>8. startOk \in BOOLEAN
  BY DEF IInv, TypeInv
<1> QED BY <1>5, <1>6, <1>7, <1>8

\* A used module is initialised: were it in its own Initialize, its caller
\* would be a second client of a module that has one.
LEMMA UsedIsInitialised ==
  ASSUME IInv, NEW m \in Module, Up(m), NEW u \in ToSet(Uses[m])
  PROVE  inited[u]
<1>1. /\ inited[m] /\ refs[m] > 0 /\ ~Has(stack, m)
      /\ u \in Module \ Top /\ m \in Clients(stack, refs, inited, u)
      /\ refs \in [Module -> Int] /\ StackOK(stack, startOk)
  BY UpHolds DEF IInv, TypeInv
<1>2. refs[u] > 0
  BY UsedIsCounted
<1>3. CASE ~Has(stack, u)
  <2>1. inited[u] \/ (u = "Debugger" /\ Failed)
    BY <1>1, <1>2, <1>3 DEF IInv, RestInv, Top
  <2>2. u = "Debugger" => m = "Driver"
    BY UsesBelow
  <2> QED BY <1>1, <2>1, <2>2 DEF IInv, DebuggerInv
<1>4. ASSUME NEW i \in 1..Len(stack), stack[i].mod = u PROVE FALSE
  <2>1. stack[i].op \in {"init", "down"} /\ stack # << >>
    BY <1>1, FrameParts, Empty
  <2>2. stack[i].op = "init"
    BY <1>1, <1>2, <1>4, <2>1 DEF IInv, FrameInv, Top
  <2>3. main \in {"register", "registered"}
    BY <1>4, <2>2 DEF IInv, MainInv
  <2>4. startOk = FALSE
    BY <2>3 DEF IInv, MainInv, TypeInv
  <2>5. i # 1
    BY <1>1, <1>4, <2>1, <2>3 DEF IInv, MainInv, Bottom, Top
  <2>6. refs[u] = 1
    BY <1>4, <2>2, <2>5 DEF IInv, FrameInv
  <2>7. i - 1 \in 1..Len(stack) /\ Called(stack[i-1], stack[i], startOk)
    BY <1>1, <2>5, TopFrames
  <2> DEFINE c == stack[i-1].mod
  <2>8. stack[i-1].op = "init" /\ u \in Needs(c, startOk) /\ u \notin ToSet(stack[i-1].left)
    BY <1>4, <2>2, <2>7 DEF Called
  <2>9. c \in Module /\ u \in ToSet(Uses[c]) /\ Has(stack, c) /\ c # m
    BY <1>1, <2>4, <2>7, <2>8, FrameParts DEF Needs, Has
  <2>10. Kept(stack, c, u)
    BY <2>7, <2>8 DEF Kept, Keeps
  <2> HIDE DEF c
  <2>11. c \in Clients(stack, refs, inited, u)
    BY <2>9, <2>10 DEF Clients, Holds
  <2>12. Cardinality(Clients(stack, refs, inited, u)) >= 2
    BY <1>1, <2>9, <2>11, ClientsSome
  <2>13. refs[u] = Cardinality(Clients(stack, refs, inited, u)) + Extra(u)
    BY <1>1, <2>3 DEF IInv, CountInv
  <2>14. Extra(u) \in {0, 1} /\ Cardinality(Clients(stack, refs, inited, u)) \in Nat
    BY FiniteClients DEF Extra
  <2> QED BY <2>6, <2>12, <2>13, <2>14
<1> QED BY <1>3, <1>4 DEF Has

\* While a module is up, the modules it uses are up too, and LLDB's debugger
\* is there for the module that wraps it and for the event thread, however
\* the start fails and in whatever order the modules are released
\* (Initialize and Shutdown of every CMICmn module).
THEOREM UsersGoFirstHolds == Spec => []UsersGoFirst
<1>1. ASSUME IInv PROVE UsersGoFirst
  <2>1. \A m \in Module : Up(m) => \A u \in ToSet(Uses[m]) : inited[u] /\ refs[u] > 0
    BY <1>1, UsedIsCounted, UsedIsInitialised
  <2>2. Up("Debugger") => lldb = "made"
    BY <1>1 DEF Up, IInv, DebuggerInv
  <2>3. thread = "active" => lldb = "made"
    BY <1>1 DEF IInv, MainInv, DebuggerInv
  <2> QED BY <2>1, <2>2, <2>3 DEF UsersGoFirst
<1> QED BY <1>1, Invariance, PTL

\* When the driver manager of a run that has started has been shut down, no
\* module is left with a client but the resources, the log file is closed,
\* the event thread joined and LLDB's debugger destroyed
\* (DriverSystemShutdown).
THEOREM TornDownHolds == Spec => []TornDown
<1>1. ASSUME IInv PROVE TornDown
  BY <1>1, Settled DEF TornDown, Main
<1> QED BY <1>1, Invariance, PTL

\* After a start that has succeeded no destructor of a singleton reaches one
\* that has been destroyed.
THEOREM DestroyedUnusedHolds == Spec => []DestroyedUnused
<1>1. ASSUME IInv PROVE DestroyedUnused
  BY <1>1 DEF DestroyedUnused, IInv, MainInv, LeftInv
<1> QED BY <1>1, Invariance, PTL

=============================================================================
