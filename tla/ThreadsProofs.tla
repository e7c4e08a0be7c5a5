---------------------------- MODULE ThreadsProofs ----------------------------
(***************************************************************************)
(* What Threads guarantees for any number of threads, frames, processes,   *)
(* stops and events: the records of threads alternate and are complete at  *)
(* a stop, the thread that stopped is named, the client knows which one is *)
(* selected, and lists of frames are those asked for.                      *)
(***************************************************************************)
EXTENDS Threads, NaturalsInduction, WellFoundedInduction, SequenceTheorems, TLAPS

\* Threads are numbered as they are made, and a number is not used again.
MadeInv ==
  /\ threads \subseteq 1..made
  /\ selected \in 0..made
  /\ state \in {"stopping", "stopped"} => threads # {}
  /\ state = "none" => made = 0 /\ threads = {}

\* The client and m_vecActiveThreadId agree, until an exit leaves threads behind.
KnownInv == ~leftover => known = active /\ confused \subseteq {"last"}

Queued(e)  == \E i \in DOMAIN queue : queue[i] = e
Pending(e) == taken = e \/ Queued(e)

\* The event of the last stop is on its way until the list is compared.
ListedInv == state = "stopped" => Pending("stopped") \/ active = threads

ExitsPrecedeStop ==
  /\ taken = "exited" => Queued("stopped")
  /\ \A i \in DOMAIN queue : queue[i] = "exited" =>
       \E j \in DOMAIN queue : i < j /\ queue[j] = "stopped"

\* The exit of an earlier process comes before the stop of this one.
OrderInv == state \in {"stopping", "stopped"} => ExitsPrecedeStop

\* Nothing is left of a process whose exit has been handled.
ExitedInv ==
  /\ state = "exiting" => Queued("exited")
  /\ state = "exited" /\ ~unsaid /\ ~leftover /\ ~Pending("exited") =>
       threads = {} /\ client = NoThread

\* A thread the client takes for selected is, or the next comparison with
\* m_currentSelectedThread tells it; but it may be a thread of an earlier process
\* whose exit is still to be handled.
FollowedInv ==
  ~unsaid /\ ~leftover /\ ~Pending("exited") =>
    /\ client \in 0..made
    /\ client \in threads => client \in {SelectedThread, current}

\* After the handler of the last stop it is.
SelectedInv ==
  state = "stopped" /\ ~unsaid /\ ~leftover /\ ~Pending("stopped") =>
    IF reasons[SelectedThread] \in Named
    THEN NamesThread(SelectedThread) => client = SelectedThread
    ELSE reasons[SelectedThread] # "trap" /\ client \in threads =>
           client = SelectedThread

IInv == /\ TypeOK /\ MadeInv /\ KnownInv /\ ListedInv /\ OrderInv
        /\ ExitedInv /\ FollowedInv /\ SelectedInv

(***************************************************************************)
(* The least of a set of numbers, and the constants.                       *)
(***************************************************************************)

LEMMA MinIsLeast ==
  ASSUME NEW S \in SUBSET Nat, S # {}
  PROVE  Min(S) \in S /\ \A x \in S : Min(S) <= x
  <1> DEFINE R == OpToRel(<, Nat)
  <1>1. \A x, y \in Nat : <<y, x>> \in R <=> y < x
    BY DEF OpToRel
  <1>2. IsWellFoundedOn(R, Nat)
    BY NatLessThanWellFounded
  <1> HIDE DEF R
  <1>3. \E x \in S : \A y \in S : ~(<<y, x>> \in R)
    BY <1>2, WFMin
  <1>4. PICK x \in S : \A y \in S : ~(<<y, x>> \in R)
    BY <1>3
  <1>5. \A y \in S : ~(y < x)
    BY <1>1, <1>4
  <1>6. \A y \in S : x <= y
    BY <1>5
  <1>7. QED
    BY <1>6 DEF Min

LEMMA Constants ==
  /\ Len(Depth) \in Nat \ {0} /\ Ids = 1..Len(Depth)
  /\ MaxUint \in Nat /\ \A t \in Ids : Depth[t] \in Nat /\ Depth[t] < MaxUint
  /\ Reasons \subseteq AllReasons /\ "none" \in Reasons /\ Modes \subseteq BOOLEAN
  <1>1. Depth \in Seq(Nat) /\ Depth # <<>>
    BY Zenon, ThreadsAssumption
  <1>2. MaxUint \in Nat /\ \A t \in Ids : Depth[t] < MaxUint
    BY Zenon, ThreadsAssumption
  <1>3. Reasons \subseteq AllReasons /\ "none" \in Reasons /\ Modes \subseteq BOOLEAN
    BY Zenon, ThreadsAssumption
  <1>4. QED
    BY <1>1, <1>2, <1>3 DEF Ids

\* A process that has threads has one selected.
LEMMA SelectedIsThread ==
  ASSUME threads \subseteq Ids, threads # {}
  PROVE  /\ SelectedThread \in threads /\ SelectedThread \in Ids
         /\ selected \notin threads => \A t \in threads : SelectedThread <= t
  <1>1. threads \in SUBSET Nat
    BY Constants
  <1>2. QED
    BY <1>1, MinIsLeast DEF SelectedThread

(***************************************************************************)
(* The queue.                                                              *)
(***************************************************************************)

LEMMA KeepsQueue ==
  ASSUME queue' = queue, taken' = taken
  PROVE  /\ \A e : Pending(e)' <=> Pending(e)
         /\ \A e : Queued(e)' <=> Queued(e)
         /\ ExitsPrecedeStop' <=> ExitsPrecedeStop
  BY DEF Pending, Queued, ExitsPrecedeStop

LEMMA SendsEvent ==
  ASSUME TypeOK, NEW k \in Kinds, queue' = Append(queue, k), taken' = taken
  PROVE  /\ \A e : Pending(e)' <=> Pending(e) \/ e = k
         /\ \A e : Queued(e)' <=> Queued(e) \/ e = k
         /\ k = "stopped" => ExitsPrecedeStop'
         /\ k # "exited" /\ ExitsPrecedeStop => ExitsPrecedeStop'
  <1>1. /\ Len(queue) \in Nat /\ DOMAIN queue = 1..Len(queue)
        /\ DOMAIN queue' = 1..(Len(queue) + 1)
        /\ \A i \in DOMAIN queue : queue'[i] = queue[i]
        /\ queue'[Len(queue) + 1] = k
    BY DEF TypeOK
  <1>2. /\ DOMAIN queue' = DOMAIN queue \cup {Len(queue) + 1}
        /\ \A i \in DOMAIN queue : i < Len(queue) + 1
    BY <1>1
  <1>3. \A e : Queued(e)' <=> Queued(e) \/ e = k
    BY <1>1, <1>2 DEF Queued
  <1>4. k = "stopped" => ExitsPrecedeStop'
    BY <1>1, <1>2, <1>3 DEF ExitsPrecedeStop
  <1>5. k # "exited" /\ ExitsPrecedeStop => ExitsPrecedeStop'
    BY <1>1, <1>2, <1>3 DEF ExitsPrecedeStop
  <1>6. QED
    BY <1>3, <1>4, <1>5 DEF Pending

LEMMA TakesEvent ==
  ASSUME TypeOK, queue # <<>>, taken = NoEvent, taken' = Head(queue), queue' = Tail(queue)
  PROVE  /\ taken' \in Kinds
         /\ \A e : Queued(e) <=> Queued(e)' \/ taken' = e
         /\ \A e \in Kinds : Pending(e)' <=> Pending(e)
         /\ \A e : taken' = e => Pending(e)'
         /\ ExitsPrecedeStop => ExitsPrecedeStop'
  <1>1. /\ Len(queue) \in Nat \ {0} /\ DOMAIN queue = 1..Len(queue)
        /\ DOMAIN queue' = 1..(Len(queue) - 1)
        /\ \A i \in DOMAIN queue' : queue'[i] = queue[i + 1]
        /\ taken' = queue[1] /\ queue[1] \in Kinds
    BY DEF TypeOK
  <1>2. \A i \in DOMAIN queue : i # 1 => i - 1 \in DOMAIN queue' /\ queue'[i - 1] = queue[i]
    BY <1>1
  <1>3. \A i \in DOMAIN queue' : i + 1 \in DOMAIN queue /\ i + 1 # 1
    BY <1>1
  <1>4. 1 \in DOMAIN queue
    BY <1>1
  <1>5. \A e : Queued(e) <=> Queued(e)' \/ taken' = e
    BY <1>1, <1>2, <1>3, <1>4 DEF Queued
  <1>6. ASSUME ExitsPrecedeStop
        PROVE  ExitsPrecedeStop'
    <2>1. ASSUME NEW i \in DOMAIN queue, queue[i] = "exited"
          PROVE  \E j \in DOMAIN queue : j # 1 /\ i < j /\ queue[j] = "stopped"
      BY <1>1, <1>6, <2>1 DEF ExitsPrecedeStop
    <2>2. taken' = "exited" => Queued("stopped")'
      BY <1>1, <1>2, <1>4, <2>1 DEF Queued
    <2>3. ASSUME NEW i \in DOMAIN queue', queue'[i] = "exited"
          PROVE  \E j \in DOMAIN queue' : i < j /\ queue'[j] = "stopped"
      <3>1. PICK j \in DOMAIN queue : j # 1 /\ i + 1 < j /\ queue[j] = "stopped"
        BY <1>1, <1>3, <2>1, <2>3
      <3>2. j - 1 \in DOMAIN queue' /\ i < j - 1 /\ queue'[j - 1] = "stopped"
        BY <1>1, <1>2, <3>1
      <3>3. QED
        BY <3>2
    <2>4. QED
      BY <2>2, <2>3 DEF ExitsPrecedeStop
  <1>7. QED
    BY <1>1, <1>5, <1>6 DEF Pending, NoEvent, Kinds

LEMMA HandlesEvent ==
  ASSUME queue' = queue, taken' = NoEvent
  PROVE  /\ \A e \in Kinds : Pending(e) <=> Pending(e)' \/ taken = e
         /\ \A e : Queued(e)' <=> Queued(e)
         /\ ExitsPrecedeStop => ExitsPrecedeStop'
  BY DEF Pending, Queued, ExitsPrecedeStop, NoEvent, Kinds

\* With no stop on its way there is no exit either, after a stop.
LEMMA NoExitLeft ==
  ExitsPrecedeStop /\ ~Pending("stopped") => ~Pending("exited")
  BY DEF ExitsPrecedeStop, Pending, Queued

(***************************************************************************)
(* Types.                                                                  *)
(***************************************************************************)

\* A comparison reports in turn if the client knew the list before.
LEMMA InTurn ==
  known = active => KnownNow = Valid /\ OutOfTurn = {}
  <1> HAVE known = active
  <1>1. KnownNow = Valid /\ Created \cap known = {}
    BY DEF KnownNow, Created, Exited
  <1>2. Exited \subseteq known
    BY DEF Created, Exited
  <1>3. QED
    BY <1>1, <1>2 DEF OutOfTurn

\* The comparison makes the list that of the valid threads, and tells the client
\* of each thread once if it knew the list before.
LEMMA CheckListValid ==
  ASSUME TypeOK, CheckList
  PROVE  /\ active' = Valid /\ Valid \subseteq Ids
         /\ known = active => KnownNow = Valid /\ confused' = confused
  <1>1. active' = Valid /\ Valid \subseteq Ids
    BY DEF CheckList, StillActive, Created, Valid, TypeOK
  <1>2. known = active => confused' = confused
    BY InTurn DEF CheckList
  <1>3. QED
    BY <1>1, <1>2, InTurn

\* So does the handler of an exit, whose last record may be out of turn.
LEMMA ExitListValid ==
  ASSUME TypeOK, HandleExited
  PROVE  /\ active' = Valid /\ Valid \subseteq Ids
         /\ known = active => KnownNow = Valid /\ confused' \subseteq confused \cup {"last"}
  <1>1. active' = Valid /\ Valid \subseteq Ids
    BY DEF HandleExited, StillActive, Created, Valid, TypeOK
  <1>2. known = active => confused' \subseteq confused \cup {"last"}
    BY InTurn DEF HandleExited, LastRecord
  <1>3. QED
    BY <1>1, <1>2, InTurn

LEMMA UpdateIsThread ==
  ASSUME TypeOK, threads # {}
  PROVE  UpdateSelectedThread \in threads
  <1>1. \A S \in SUBSET threads : S # {} => Min(S) \in threads
    <2>1. threads \subseteq Nat
      BY Constants DEF TypeOK
    <2>2. QED
      BY <2>1, MinIsLeast
  <1>2. SelectedThread \in threads
    BY SelectedIsThread DEF TypeOK
  <1>3. QED
    BY <1>1, <1>2 DEF UpdateSelectedThread, FirstWithReason

\* Nothing that a comparison computes leaves the threads there can be.
LEMMA CheckTypes ==
  ASSUME TypeOK
  PROVE  /\ SelectedThread \in Ids \cup {NoThread}
         /\ CurrentNow \in Ids \cup {NoThread} /\ ClientNow \in Ids \cup {NoThread}
         /\ KnownNow \subseteq Ids
  <1>1. SelectedThread \in Ids \cup {NoThread}
    <2>1. CASE threads = {}
      BY <2>1 DEF SelectedThread, TypeOK
    <2>2. CASE threads # {}
      BY <2>2, SelectedIsThread DEF TypeOK
    <2>3. QED
      BY <2>1, <2>2
  <1>2. CurrentNow \in Ids \cup {NoThread} /\ ClientNow \in Ids \cup {NoThread}
    BY <1>1 DEF CurrentNow, ClientNow, TypeOK
  <1>3. KnownNow \subseteq Ids
    BY DEF KnownNow, Created, Valid, TypeOK
  <1>4. QED
    BY <1>1, <1>2, <1>3

Flags == /\ reported \in BOOLEAN /\ confused \subseteq {"created", "exited", "last"}
         /\ leftover \in BOOLEAN /\ unsaid \in BOOLEAN

LEMMA NextFlags ==
  ASSUME Flags, [Next]_vars
  PROVE  Flags'
  <1> USE DEF OutOfTurn, LastRecord
  <1>1. CASE InferiorStops
    BY <1>1, Zenon DEF InferiorStops, CheckList, told, Flags
  <1>2. CASE InferiorExits
    BY <1>2, Zenon DEF InferiorExits, CheckList, told, Flags
  <1>3. CASE TargetChanges
    BY <1>3, Zenon DEF TargetChanges, CheckList, told, Flags
  <1>4. CASE Launch
    BY <1>4, Zenon DEF Launch, CheckList, told, Flags
  <1>5. CASE Resume
    BY <1>5, Zenon DEF Resume, CheckList, told, Flags
  <1>6. ASSUME NEW t \in Ids, ThreadSelect(t)
        PROVE  Flags'
    BY <1>6, Zenon DEF ThreadSelect, CheckList, told, Flags
  <1>7. ASSUME NEW t \in Ids, ConsoleThreadSelect(t)
        PROVE  Flags'
    BY <1>7, Zenon DEF ConsoleThreadSelect, CheckList, told, Flags
  <1>8. ASSUME NEW f \in 0..MaxUint, StackSelectFrame(f)
        PROVE  Flags'
    BY <1>8, Zenon DEF StackSelectFrame, CheckList, told, Flags
  <1>9. CASE Take
    BY <1>9, Zenon DEF Take, CheckList, told, Flags
  <1>10. CASE HandleTarget
    BY <1>10 DEF HandleTarget, Check, CheckList, told, Flags
  <1>11. CASE HandleThread
    BY <1>11 DEF HandleThread, Check, CheckList, told, Flags
  <1>12. CASE HandleRunning
    BY <1>12, Zenon DEF HandleRunning, CheckList, told, Flags
  <1>13. CASE HandleStopped
    <2>1. reported' = (reported \/ reasons[selected'] \in Named)
      BY Zenon, <1>13 DEF HandleStopped
    <2>2. confused' = confused \cup OutOfTurn /\ leftover' = leftover /\ unsaid' = unsaid
      BY Zenon, <1>13 DEF HandleStopped, CheckList
    <2>3. reported' \in BOOLEAN
      BY <2>1
    <2>4. QED
      BY <2>2, <2>3 DEF Flags
  <1>14. CASE HandleStaleStop
    BY <1>14 DEF HandleStaleStop, Check, CheckList, told, Flags
  <1>15. CASE HandleExited
    <2>1. leftover' = (leftover \/ active' # {})
      BY Zenon, <1>15 DEF HandleExited
    <2>2. /\ confused' = confused \cup OutOfTurn \cup LastRecord
          /\ reported' = reported /\ unsaid' = unsaid
      BY Zenon, <1>15 DEF HandleExited
    <2>3. leftover' \in BOOLEAN
      BY <2>1
    <2>4. QED
      BY <2>2, <2>3 DEF Flags
  <1>16. CASE UNCHANGED vars
    BY <1>16, Zenon DEF vars, CheckList, told, Flags
  <1>17. QED
    BY <1>1, <1>2, <1>3, <1>4, <1>5, <1>6, <1>7, <1>8, <1>9, <1>10, <1>11, <1>12,
       <1>13, <1>14, <1>15, <1>16 DEF Next

LEMMA NextTypeOK ==
  ASSUME TypeOK, MadeInv, [Next]_vars
  PROVE  TypeOK'
  <1> DEFINE Processes ==
        /\ async \in BOOLEAN
        /\ state \in {"none", "running", "stopping", "stopped", "exiting", "exited"}
        /\ threads \subseteq Ids /\ made \in 0..Len(Depth)
        /\ reasons \in [Ids -> Reasons]
        /\ frame \in [Ids -> 0..MaxUint]
  <1> DEFINE Clients ==
        /\ selected \in Ids \cup {NoThread}
        /\ active \subseteq Ids /\ current \in Ids \cup {NoThread}
        /\ known \subseteq Ids /\ client \in Ids \cup {NoThread}
  <1>1. Processes'
    <2>1. CASE InferiorStops
      BY <2>1, Constants DEF InferiorStops, TypeOK, lldb, NoReasons, FirstFrames
    <2>2. CASE InferiorExits
      BY <2>2, Constants DEF InferiorExits, TypeOK, lldb, NoReasons, FirstFrames
    <2>3. CASE TargetChanges
      BY <2>3, Constants DEF TargetChanges, TypeOK, lldb, NoReasons, FirstFrames
    <2>4. CASE Launch
      BY <2>4, Constants DEF Launch, TypeOK, lldb, NoReasons, FirstFrames
    <2>5. CASE Resume
      BY <2>5, Constants DEF Resume, TypeOK, lldb, NoReasons, FirstFrames
    <2>6. ASSUME NEW t \in Ids, ThreadSelect(t)
          PROVE  Processes'
      BY <2>6, Constants DEF ThreadSelect, TypeOK, lldb, NoReasons, FirstFrames
    <2>7. ASSUME NEW t \in Ids, ConsoleThreadSelect(t)
          PROVE  Processes'
      BY <2>7, Constants DEF ConsoleThreadSelect, TypeOK, lldb, NoReasons,
         FirstFrames
    <2>8. ASSUME NEW f \in 0..MaxUint, StackSelectFrame(f)
          PROVE  Processes'
      BY <2>8, Constants DEF StackSelectFrame, TypeOK, lldb, NoReasons,
         FirstFrames
    <2>9. CASE Take
      BY <2>9, Constants DEF Take, TypeOK, lldb, NoReasons, FirstFrames
    <2>10. CASE HandleTarget
      BY <2>10, Constants DEF HandleTarget, Check, TypeOK, lldb, NoReasons,
         FirstFrames
    <2>11. CASE HandleThread
      BY <2>11, Constants DEF HandleThread, Check, TypeOK, lldb, NoReasons,
         FirstFrames
    <2>12. CASE HandleRunning
      BY <2>12, Constants DEF HandleRunning, TypeOK, lldb, NoReasons, FirstFrames
    <2>13. CASE HandleStopped
      BY <2>13, Constants DEF HandleStopped, TypeOK, lldb, NoReasons, FirstFrames
    <2>14. CASE HandleStaleStop
      BY <2>14, Constants DEF HandleStaleStop, Check, TypeOK, lldb, NoReasons,
         FirstFrames
    <2>15. CASE HandleExited
      BY <2>15, Constants DEF HandleExited, TypeOK, lldb, NoReasons, FirstFrames
    <2>16. CASE UNCHANGED vars
      BY <2>16, Constants DEF vars, TypeOK, lldb, NoReasons, FirstFrames
    <2>17. QED
      BY <2>1, <2>2, <2>3, <2>4, <2>5, <2>6, <2>7, <2>8, <2>9, <2>10, <2>11,
         <2>12, <2>13, <2>14, <2>15, <2>16 DEF Next
  <1>2. queue' \in Seq(Kinds) /\ taken' \in Kinds \cup {NoEvent}
    <2>1. CASE InferiorStops
      BY <2>1 DEF InferiorStops, TypeOK, events, Kinds
    <2>2. CASE InferiorExits
      BY <2>2 DEF InferiorExits, TypeOK, events, Kinds
    <2>3. CASE TargetChanges
      BY <2>3 DEF TargetChanges, TypeOK, events, Kinds
    <2>4. CASE Launch
      BY <2>4 DEF Launch, TypeOK, events, Kinds
    <2>5. CASE Resume
      BY <2>5 DEF Resume, TypeOK, events, Kinds
    <2>6. ASSUME NEW t \in Ids, ThreadSelect(t)
          PROVE  queue' \in Seq(Kinds) /\ taken' \in Kinds \cup {NoEvent}
      BY <2>6 DEF ThreadSelect, TypeOK, events, Kinds
    <2>7. ASSUME NEW t \in Ids, ConsoleThreadSelect(t)
          PROVE  queue' \in Seq(Kinds) /\ taken' \in Kinds \cup {NoEvent}
      BY <2>7 DEF ConsoleThreadSelect, TypeOK, events, Kinds
    <2>8. ASSUME NEW f \in 0..MaxUint, StackSelectFrame(f)
          PROVE  queue' \in Seq(Kinds) /\ taken' \in Kinds \cup {NoEvent}
      BY <2>8 DEF StackSelectFrame, TypeOK, events, Kinds
    <2>9. CASE Take
      <3>1. queue \in Seq(Kinds) /\ queue # <<>>
        BY <2>9 DEF TypeOK, Take
      <3>2. QED
        BY <2>9, <3>1, HeadTailProperties DEF Take
    <2>10. CASE HandleTarget
      BY <2>10 DEF HandleTarget, Check, TypeOK, events, Kinds
    <2>11. CASE HandleThread
      BY <2>11 DEF HandleThread, Check, TypeOK, events, Kinds
    <2>12. CASE HandleRunning
      BY <2>12 DEF HandleRunning, TypeOK, events, Kinds
    <2>13. CASE HandleStopped
      BY <2>13 DEF HandleStopped, TypeOK, events, Kinds
    <2>14. CASE HandleStaleStop
      BY <2>14 DEF HandleStaleStop, Check, TypeOK, events, Kinds
    <2>15. CASE HandleExited
      BY <2>15 DEF HandleExited, TypeOK, events, Kinds
    <2>16. CASE UNCHANGED vars
      BY <2>16 DEF vars, TypeOK, events, Kinds
    <2>17. QED
      BY <2>1, <2>2, <2>3, <2>4, <2>5, <2>6, <2>7, <2>8, <2>9, <2>10, <2>11,
         <2>12, <2>13, <2>14, <2>15, <2>16 DEF Next
  <1>3. Clients'
    <2>1. CASE InferiorStops
      BY <2>1, CheckTypes, CheckListValid DEF InferiorStops, TypeOK, lldb, told,
         NoThread
    <2>2. CASE InferiorExits
      BY <2>2, CheckTypes, CheckListValid DEF InferiorExits, TypeOK, lldb, told,
         NoThread
    <2>3. CASE TargetChanges
      BY <2>3, CheckTypes, CheckListValid DEF TargetChanges, TypeOK, lldb, told,
         NoThread
    <2>4. CASE Launch
      BY <2>4, Constants DEF Launch, TypeOK, lldb, told, NoThread
    <2>5. CASE Resume
      BY <2>5, CheckTypes, CheckListValid DEF Resume, TypeOK, lldb, told, NoThread
    <2>6. ASSUME NEW t \in Ids, ThreadSelect(t)
          PROVE  Clients'
      BY <2>6, CheckTypes, CheckListValid DEF ThreadSelect, TypeOK, lldb, told,
         NoThread
    <2>7. ASSUME NEW t \in Ids, ConsoleThreadSelect(t)
          PROVE  Clients'
      BY <2>7, CheckTypes, CheckListValid DEF ConsoleThreadSelect, TypeOK, lldb,
         told, NoThread
    <2>8. ASSUME NEW f \in 0..MaxUint, StackSelectFrame(f)
          PROVE  Clients'
      BY <2>8, CheckTypes, CheckListValid DEF StackSelectFrame, TypeOK, lldb,
         told, NoThread
    <2>9. CASE Take
      BY <2>9, CheckTypes, CheckListValid DEF Take, TypeOK, lldb, told, NoThread
    <2>10. CASE HandleTarget
      BY <2>10, CheckTypes, CheckListValid DEF HandleTarget, Check, TypeOK, lldb,
         told, NoThread
    <2>11. CASE HandleThread
      BY <2>11, CheckTypes, CheckListValid DEF HandleThread, Check, TypeOK, lldb,
         told, NoThread
    <2>12. CASE HandleRunning
      BY <2>12, CheckTypes, CheckListValid DEF HandleRunning, TypeOK, lldb, told,
         NoThread
    <2>13. CASE HandleStopped
      <3>1. selected' \in Ids
        BY <2>13, UpdateIsThread, Constants DEF HandleStopped, MadeInv, TypeOK
      <3>2. QED
        BY <2>13, <3>1, CheckTypes, CheckListValid DEF HandleStopped, TypeOK
    <2>14. CASE HandleStaleStop
      BY <2>14, CheckTypes, CheckListValid DEF HandleStaleStop, Check, TypeOK,
         lldb, told, NoThread
    <2>15. CASE HandleExited
      BY <2>15, CheckTypes, ExitListValid DEF HandleExited, TypeOK, lldb, told,
         NoThread
    <2>16. CASE UNCHANGED vars
      BY <2>16, CheckTypes, CheckListValid DEF vars, TypeOK, lldb, told, NoThread
    <2>17. QED
      BY <2>1, <2>2, <2>3, <2>4, <2>5, <2>6, <2>7, <2>8, <2>9, <2>10, <2>11,
         <2>12, <2>13, <2>14, <2>15, <2>16 DEF Next
  <1>4. Flags'
    BY NextFlags DEF TypeOK, Flags
  <1>5. QED
    BY <1>1, <1>2, <1>3, <1>4 DEF TypeOK, Flags

(***************************************************************************)
(* The invariants, one at a time.                                          *)
(***************************************************************************)

LEMMA NextMadeInv ==
  ASSUME TypeOK, MadeInv, [Next]_vars
  PROVE  MadeInv'
  <1>1. CASE InferiorStops
    <2>1. PICK n \in made..Len(Depth) :
            made' = n /\ threads' \in (SUBSET (threads \cup (made + 1)..n)) \ {{}}
      BY <1>1 DEF InferiorStops
    <2>2. made \in Nat /\ n \in Nat /\ made <= n /\ made' = n
      BY <2>1, Constants DEF TypeOK
    <2>3. threads' \subseteq 1..made' /\ threads' # {}
      <3>1. threads' # {} /\ \A t \in threads' : t \in threads \/ t \in (made + 1)..n
        BY <2>1
      <3>2. \A t \in threads : t \in 1..made
        BY DEF MadeInv
      <3>3. QED
        BY <2>2, <3>1, <3>2
    <2>4. selected' \in 0..made'
      BY <1>1, <2>2 DEF InferiorStops, MadeInv
    <2>5. QED
      BY <1>1, <2>3, <2>4 DEF InferiorStops, MadeInv
  <1>2. CASE InferiorExits
    BY <1>2 DEF InferiorExits, MadeInv, TypeOK, lldb, NoThread
  <1>3. CASE TargetChanges
    BY <1>3 DEF TargetChanges, MadeInv, TypeOK, lldb, NoThread
  <1>4. CASE Launch
    BY <1>4 DEF Launch, MadeInv, TypeOK, lldb, NoThread
  <1>5. CASE Resume
    BY <1>5 DEF Resume, MadeInv, TypeOK, lldb, NoThread
  <1>6. ASSUME NEW t \in Ids, ThreadSelect(t)
        PROVE  MadeInv'
    BY <1>6 DEF ThreadSelect, MadeInv, TypeOK, lldb, NoThread
  <1>7. ASSUME NEW t \in Ids, ConsoleThreadSelect(t)
        PROVE  MadeInv'
    BY <1>7 DEF ConsoleThreadSelect, MadeInv, TypeOK, lldb, NoThread
  <1>8. ASSUME NEW f \in 0..MaxUint, StackSelectFrame(f)
        PROVE  MadeInv'
    BY <1>8 DEF StackSelectFrame, MadeInv, TypeOK, lldb, NoThread
  <1>9. CASE Take
    BY <1>9 DEF Take, MadeInv, TypeOK, lldb, NoThread
  <1>10. CASE HandleTarget
    BY <1>10 DEF HandleTarget, Check, MadeInv, TypeOK, lldb, NoThread
  <1>11. CASE HandleThread
    BY <1>11 DEF HandleThread, Check, MadeInv, TypeOK, lldb, NoThread
  <1>12. CASE HandleRunning
    BY <1>12 DEF HandleRunning, MadeInv, TypeOK, lldb, NoThread
  <1>13. CASE HandleStopped
    <2>1. selected' \in threads
      BY <1>13, UpdateIsThread DEF HandleStopped, MadeInv
    <2>2. QED
      BY <1>13, <2>1 DEF HandleStopped, MadeInv
  <1>14. CASE HandleStaleStop
    BY <1>14 DEF HandleStaleStop, Check, MadeInv, TypeOK, lldb, NoThread
  <1>15. CASE HandleExited
    BY <1>15 DEF HandleExited, MadeInv, TypeOK, lldb, NoThread
  <1>16. CASE UNCHANGED vars
    BY <1>16 DEF vars, MadeInv, TypeOK, lldb, NoThread
  <1>17. QED
    BY <1>1, <1>2, <1>3, <1>4, <1>5, <1>6, <1>7, <1>8, <1>9, <1>10, <1>11, <1>12,
       <1>13, <1>14, <1>15, <1>16 DEF Next

LEMMA NextKnownInv ==
  ASSUME TypeOK, KnownInv, [Next]_vars
  PROVE  KnownInv'
  <1>1. CASE InferiorStops
    BY <1>1 DEF InferiorStops, KnownInv, TypeOK, told
  <1>2. CASE InferiorExits
    BY <1>2 DEF InferiorExits, KnownInv, TypeOK, told
  <1>3. CASE TargetChanges
    BY <1>3 DEF TargetChanges, KnownInv, TypeOK, told
  <1>4. CASE Launch
    BY <1>4 DEF Launch, KnownInv, TypeOK, told
  <1>5. CASE Resume
    BY <1>5 DEF Resume, KnownInv, TypeOK, told
  <1>6. ASSUME NEW t \in Ids, ThreadSelect(t)
        PROVE  KnownInv'
    BY <1>6 DEF ThreadSelect, KnownInv, TypeOK, told
  <1>7. ASSUME NEW t \in Ids, ConsoleThreadSelect(t)
        PROVE  KnownInv'
    BY <1>7 DEF ConsoleThreadSelect, KnownInv, TypeOK, told
  <1>8. ASSUME NEW f \in 0..MaxUint, StackSelectFrame(f)
        PROVE  KnownInv'
    BY <1>8 DEF StackSelectFrame, KnownInv, TypeOK, told
  <1>9. CASE Take
    BY <1>9 DEF Take, KnownInv, TypeOK, told
  <1>10. CASE HandleTarget
    BY <1>10, CheckListValid DEF HandleTarget, Check, KnownInv, TypeOK, told
  <1>11. CASE HandleThread
    BY <1>11, CheckListValid DEF HandleThread, Check, KnownInv, TypeOK, told
  <1>12. CASE HandleRunning
    BY <1>12 DEF HandleRunning, KnownInv, TypeOK, told
  <1>13. CASE HandleStopped
    BY <1>13, CheckListValid DEF HandleStopped, KnownInv, TypeOK, told
  <1>14. CASE HandleStaleStop
    BY <1>14, CheckListValid DEF HandleStaleStop, Check, KnownInv, TypeOK, told
  <1>15. CASE HandleExited
    BY <1>15, ExitListValid DEF HandleExited, KnownInv, TypeOK, told
  <1>16. CASE UNCHANGED vars
    BY <1>16 DEF vars, KnownInv, TypeOK, told
  <1>17. QED
    BY <1>1, <1>2, <1>3, <1>4, <1>5, <1>6, <1>7, <1>8, <1>9, <1>10, <1>11, <1>12,
       <1>13, <1>14, <1>15, <1>16 DEF Next

LEMMA NextListedInv ==
  ASSUME TypeOK, ListedInv, [Next]_vars
  PROVE  ListedInv'
  <1>1. CASE InferiorStops
    BY <1>1, SendsEvent DEF InferiorStops, ListedInv, lldb, events, Kinds, Valid
  <1>2. CASE InferiorExits
    BY <1>2, SendsEvent DEF InferiorExits, ListedInv, lldb, events, Kinds, Valid
  <1>3. CASE TargetChanges
    BY <1>3, SendsEvent DEF TargetChanges, ListedInv, lldb, events, Kinds, Valid
  <1>4. CASE Launch
    BY <1>4, KeepsQueue, SendsEvent DEF Launch, ListedInv, lldb, events, Kinds,
       Valid
  <1>5. CASE Resume
    BY <1>5, KeepsQueue, SendsEvent DEF Resume, ListedInv, lldb, events, Kinds,
       Valid
  <1>6. ASSUME NEW t \in Ids, ThreadSelect(t)
        PROVE  ListedInv'
    BY <1>6, KeepsQueue DEF ThreadSelect, ListedInv, lldb, events, Kinds, Valid
  <1>7. ASSUME NEW t \in Ids, ConsoleThreadSelect(t)
        PROVE  ListedInv'
    BY <1>7, SendsEvent DEF ConsoleThreadSelect, ListedInv, lldb, events, Kinds,
       Valid
  <1>8. ASSUME NEW f \in 0..MaxUint, StackSelectFrame(f)
        PROVE  ListedInv'
    BY <1>8, KeepsQueue DEF StackSelectFrame, ListedInv, lldb, events, Kinds,
       Valid
  <1>9. CASE Take
    BY <1>9, TakesEvent DEF Take, ListedInv, lldb, events, Kinds, Valid
  <1>10. CASE HandleTarget
    BY <1>10, HandlesEvent, CheckListValid DEF HandleTarget, Check, ListedInv,
       lldb, events, Kinds, Valid
  <1>11. CASE HandleThread
    BY <1>11, HandlesEvent, CheckListValid DEF HandleThread, Check, ListedInv,
       lldb, events, Kinds, Valid
  <1>12. CASE HandleRunning
    BY <1>12, HandlesEvent, CheckListValid DEF HandleRunning, ListedInv, lldb,
       events, Kinds, Valid
  <1>13. CASE HandleStopped
    BY <1>13, HandlesEvent, CheckListValid DEF HandleStopped, ListedInv, lldb,
       events, Kinds, Valid
  <1>14. CASE HandleStaleStop
    BY <1>14, HandlesEvent, CheckListValid DEF HandleStaleStop, Check, ListedInv,
       lldb, events, Kinds, Valid
  <1>15. CASE HandleExited
    BY <1>15, HandlesEvent, ExitListValid DEF HandleExited, ListedInv, lldb,
       events, Kinds, Valid
  <1>16. CASE UNCHANGED vars
    BY <1>16, KeepsQueue DEF vars, ListedInv, lldb, events, Kinds, Valid
  <1>17. QED
    BY <1>1, <1>2, <1>3, <1>4, <1>5, <1>6, <1>7, <1>8, <1>9, <1>10, <1>11, <1>12,
       <1>13, <1>14, <1>15, <1>16 DEF Next

LEMMA NextOrderInv ==
  ASSUME TypeOK, OrderInv, [Next]_vars
  PROVE  OrderInv'
  <1>1. CASE InferiorStops
    BY <1>1, SendsEvent DEF InferiorStops, OrderInv, lldb, events, Kinds
  <1>2. CASE InferiorExits
    BY <1>2, SendsEvent DEF InferiorExits, OrderInv, lldb, events, Kinds
  <1>3. CASE TargetChanges
    BY <1>3, SendsEvent DEF TargetChanges, OrderInv, lldb, events, Kinds
  <1>4. CASE Launch
    BY <1>4, KeepsQueue, SendsEvent DEF Launch, OrderInv, lldb, events, Kinds
  <1>5. CASE Resume
    BY <1>5, KeepsQueue, SendsEvent DEF Resume, OrderInv, lldb, events, Kinds
  <1>6. ASSUME NEW t \in Ids, ThreadSelect(t)
        PROVE  OrderInv'
    BY <1>6, KeepsQueue DEF ThreadSelect, OrderInv, lldb, events, Kinds
  <1>7. ASSUME NEW t \in Ids, ConsoleThreadSelect(t)
        PROVE  OrderInv'
    BY <1>7, SendsEvent DEF ConsoleThreadSelect, OrderInv, lldb, events, Kinds
  <1>8. ASSUME NEW f \in 0..MaxUint, StackSelectFrame(f)
        PROVE  OrderInv'
    BY <1>8, KeepsQueue DEF StackSelectFrame, OrderInv, lldb, events, Kinds
  <1>9. CASE Take
    BY <1>9, TakesEvent DEF Take, OrderInv, lldb, events, Kinds
  <1>10. CASE HandleTarget
    BY <1>10, HandlesEvent, CheckListValid DEF HandleTarget, Check, OrderInv,
       lldb, events, Kinds
  <1>11. CASE HandleThread
    BY <1>11, HandlesEvent, CheckListValid DEF HandleThread, Check, OrderInv,
       lldb, events, Kinds
  <1>12. CASE HandleRunning
    BY <1>12, HandlesEvent, CheckListValid DEF HandleRunning, OrderInv, lldb,
       events, Kinds
  <1>13. CASE HandleStopped
    BY <1>13, HandlesEvent, CheckListValid DEF HandleStopped, OrderInv, lldb,
       events, Kinds
  <1>14. CASE HandleStaleStop
    BY <1>14, HandlesEvent, CheckListValid DEF HandleStaleStop, Check, OrderInv,
       lldb, events, Kinds
  <1>15. CASE HandleExited
    BY <1>15, HandlesEvent, ExitListValid DEF HandleExited, OrderInv, lldb,
       events, Kinds
  <1>16. CASE UNCHANGED vars
    BY <1>16, KeepsQueue DEF vars, OrderInv, lldb, events, Kinds
  <1>17. QED
    BY <1>1, <1>2, <1>3, <1>4, <1>5, <1>6, <1>7, <1>8, <1>9, <1>10, <1>11, <1>12,
       <1>13, <1>14, <1>15, <1>16 DEF Next

LEMMA NextExitedInv ==
  ASSUME TypeOK, MadeInv, ExitedInv, [Next]_vars
  PROVE  ExitedInv'
  <1>1. CASE InferiorStops
    BY <1>1, SendsEvent DEF InferiorStops, ExitedInv, lldb, events, Kinds, told,
       Valid, CurrentNow, ClientNow
  <1>2. CASE InferiorExits
    BY <1>2, SendsEvent DEF InferiorExits, ExitedInv, lldb, events, Kinds, told,
       Valid, CurrentNow, ClientNow
  <1>3. CASE TargetChanges
    BY <1>3, SendsEvent DEF TargetChanges, ExitedInv, lldb, events, Kinds, told,
       Valid, CurrentNow, ClientNow
  <1>4. CASE Launch
    BY <1>4, KeepsQueue, SendsEvent DEF Launch, ExitedInv, lldb, events, Kinds,
       told, Valid, CurrentNow, ClientNow
  <1>5. CASE Resume
    BY <1>5, KeepsQueue, SendsEvent DEF Resume, ExitedInv, lldb, events, Kinds,
       told, Valid, CurrentNow, ClientNow
  <1>6. ASSUME NEW t \in Ids, ThreadSelect(t)
        PROVE  ExitedInv'
    BY <1>6, KeepsQueue DEF ThreadSelect, ExitedInv, lldb, events, Kinds, told,
       Valid, CurrentNow, ClientNow
  <1>7. ASSUME NEW t \in Ids, ConsoleThreadSelect(t)
        PROVE  ExitedInv'
    BY <1>7, SendsEvent DEF ConsoleThreadSelect, ExitedInv, lldb, events, Kinds,
       told, Valid, CurrentNow, ClientNow
  <1>8. ASSUME NEW f \in 0..MaxUint, StackSelectFrame(f)
        PROVE  ExitedInv'
    BY <1>8, KeepsQueue DEF StackSelectFrame, ExitedInv, lldb, events, Kinds,
       told, Valid, CurrentNow, ClientNow
  <1>9. CASE Take
    BY <1>9, TakesEvent DEF Take, ExitedInv, lldb, events, Kinds, told, Valid,
       CurrentNow, ClientNow
  <1>10. CASE HandleTarget
    BY <1>10, HandlesEvent, CheckListValid DEF HandleTarget, Check, ExitedInv,
       lldb, events, Kinds, told, Valid, CurrentNow, ClientNow
  <1>11. CASE HandleThread
    BY <1>11, HandlesEvent, CheckListValid DEF HandleThread, Check, ExitedInv,
       lldb, events, Kinds, told, Valid, CurrentNow, ClientNow
  <1>12. CASE HandleRunning
    BY <1>12, HandlesEvent, CheckListValid DEF HandleRunning, ExitedInv, lldb,
       events, Kinds, told, Valid, CurrentNow, ClientNow
  <1>13. CASE HandleStopped
    BY <1>13, HandlesEvent, CheckListValid DEF HandleStopped, ExitedInv, lldb,
       events, Kinds, told, Valid, CurrentNow, ClientNow
  <1>14. CASE HandleStaleStop
    BY <1>14, HandlesEvent, CheckListValid DEF HandleStaleStop, Check, ExitedInv,
       lldb, events, Kinds, told, Valid, CurrentNow, ClientNow
  <1>15. CASE HandleExited
    BY <1>15, HandlesEvent, ExitListValid DEF HandleExited, ExitedInv, lldb,
       events, Kinds, told, Valid, CurrentNow, ClientNow
  <1>16. CASE UNCHANGED vars
    BY <1>16, KeepsQueue DEF vars, ExitedInv, lldb, events, Kinds, told, Valid,
       CurrentNow, ClientNow
  <1>17. QED
    BY <1>1, <1>2, <1>3, <1>4, <1>5, <1>6, <1>7, <1>8, <1>9, <1>10, <1>11, <1>12,
       <1>13, <1>14, <1>15, <1>16 DEF Next

\* What a comparison leaves the client with.
LEMMA ClientFollows ==
  ASSUME TypeOK, MadeInv, NEW c, c = ClientNow, c \in threads, Valid = threads,
         client \in threads => client \in {SelectedThread, current}
  PROVE  c = SelectedThread /\ CurrentNow = SelectedThread
  <1>1. SelectedThread \in threads
    BY SelectedIsThread DEF TypeOK
  <1>2. QED
    BY <1>1 DEF ClientNow, CurrentNow

\* A comparison moves the selection of the client only to the thread selected.
LEMMA CheckFollows ==
  ASSUME TypeOK, MadeInv, selected' = selected, threads' = threads, made' = made,
         current' = CurrentNow, client' = ClientNow,
         client \in 0..made, client \in threads => client \in {SelectedThread, current}
  PROVE  client' \in 0..made' /\ (client' \in threads' => client' \in {SelectedThread', current'})
  <1>1. SelectedThread' = SelectedThread /\ threads \subseteq 1..made /\ Valid \subseteq threads
    BY DEF SelectedThread, MadeInv, Valid
  <1>2. CASE SelectedThread \in Valid /\ SelectedThread # current
    BY <1>1, <1>2, Constants DEF ClientNow, CurrentNow, TypeOK
  <1>3. CASE ~(SelectedThread \in Valid /\ SelectedThread # current)
    BY <1>1, <1>3 DEF ClientNow, CurrentNow
  <1>4. QED
    BY <1>2, <1>3

LEMMA NextFollowedInv ==
  ASSUME TypeOK, MadeInv, OrderInv, ExitedInv, FollowedInv, [Next]_vars
  PROVE  FollowedInv'
  <1>1. CASE InferiorStops
    <2> SUFFICES ASSUME ~unsaid', ~leftover', ~Pending("exited")'
                 PROVE  /\ client' \in 0..made'
                        /\ client' \in threads' => client' \in {SelectedThread', current'}
      BY DEF FollowedInv
    <2>1. PICK n \in made..Len(Depth) :
            made' = n /\ threads' \in (SUBSET (threads \cup (made + 1)..n)) \ {{}}
      BY <1>1 DEF InferiorStops
    <2>2. made \in Nat /\ n \in Nat /\ made <= n /\ made' = n
      BY <2>1, Constants DEF TypeOK
    <2>3. threads' # {} /\ \A t \in threads' : t \in threads \/ t \in (made + 1)..n
      BY <2>1
    <2>4. threads \subseteq 1..made /\ selected \in 0..made
      BY DEF MadeInv
    <2>5. UNCHANGED <<selected, current, client>>
      BY <1>1 DEF InferiorStops, told
    <2>6. /\ client \in 0..made
          /\ client \in threads => client \in {SelectedThread, current}
      BY <1>1, SendsEvent DEF InferiorStops, FollowedInv, told, Kinds
    <2>7. ASSUME client \in threads', client # current
          PROVE  client = SelectedThread'
      <3>1. client \in threads /\ client = SelectedThread
        BY <2>2, <2>3, <2>6, <2>7
      <3>2. CASE selected \in threads
        BY <2>5, <2>7, <3>1, <3>2 DEF SelectedThread
      <3>3. CASE selected \notin threads
        <4>1. selected' \notin threads'
          BY <2>2, <2>3, <2>4, <2>5, <3>3
        <4>2. \A t \in threads' : client <= t
          <5>1. \A t \in threads : client <= t
            BY <3>1, <3>3, SelectedIsThread DEF TypeOK
          <5>2. QED
            BY <2>2, <2>3, <2>6, <5>1
        <4>3. threads' \in SUBSET Nat
          <5>1. (\A t \in threads : t \in Nat) /\ (\A t \in (made + 1)..n : t \in Nat)
            BY <2>2, <2>4
          <5>2. QED
            BY <2>3, <5>1
        <4>4. SelectedThread' = Min(threads')
          BY <2>3, <4>1 DEF SelectedThread
        <4>5. SelectedThread' \in threads' /\ SelectedThread' <= client
          BY <2>3, <2>7, <4>3, <4>4, MinIsLeast
        <4>6. client <= SelectedThread' /\ client \in Nat /\ SelectedThread' \in Nat
          BY <2>7, <4>2, <4>3, <4>5
        <4>7. QED
          BY <4>5, <4>6
      <3>4. QED
        BY <3>2, <3>3
    <2>8. client \in 0..made'
      BY <2>2, <2>6
    <2>9. QED
      BY <2>5, <2>7, <2>8
  <1>2. CASE InferiorExits
    BY <1>2, SendsEvent DEF InferiorExits, FollowedInv, Kinds
  <1>3. CASE TargetChanges
    <2>1. UNCHANGED <<threads, selected, made, current>>
      BY <1>3 DEF TargetChanges, lldb
    <2>2. SelectedThread' = SelectedThread
      BY <2>1 DEF SelectedThread
    <2>3. QED
      BY <1>3, <2>1, <2>2, SendsEvent DEF TargetChanges, FollowedInv, events, lldb, told, Kinds
  <1>4. CASE Launch
    <2>1. ~unsaid /\ ~leftover /\ ~Pending("exited") => client = 0
      <3>1. CASE state = "none"
        BY <3>1 DEF FollowedInv, MadeInv
      <3>2. CASE state = "exited"
        BY <3>2 DEF ExitedInv, NoThread
      <3>3. QED
        BY <1>4, <3>1, <3>2 DEF Launch
    <2>2. ~Pending("exited")' => ~Pending("exited")
      BY <1>4, KeepsQueue, SendsEvent DEF Launch, Kinds
    <2>3. UNCHANGED <<client, unsaid, leftover>> /\ made' = 1 /\ threads' = {1}
      BY <1>4 DEF Launch
    <2>4. QED
      BY <2>1, <2>2, <2>3 DEF FollowedInv
  <1>5. CASE Resume
    <2>1. UNCHANGED <<threads, selected, made, current>>
      BY <1>5 DEF Resume, lldb
    <2>2. SelectedThread' = SelectedThread
      BY <2>1 DEF SelectedThread
    <2>3. QED
      BY <1>5, <2>1, <2>2, KeepsQueue, SendsEvent DEF Resume, FollowedInv, events, lldb, told, Kinds
  <1>6. ASSUME NEW t \in Ids, ThreadSelect(t)
        PROVE  FollowedInv'
    <2>1. CASE t \notin threads
      BY <1>6, <2>1 DEF ThreadSelect, FollowedInv
    <2>2. CASE t \in threads
      <3>1. /\ client' = t /\ t \in threads' /\ SelectedThread' = t
            /\ UNCHANGED <<unsaid, leftover, made>>
        BY <1>6, <2>2 DEF ThreadSelect, SelectedThread
      <3>2. client' \in 0..made'
        BY <2>2, <3>1, Constants DEF MadeInv, TypeOK
      <3>3. QED
        BY <3>1, <3>2 DEF FollowedInv
    <2>3. QED
      BY <2>1, <2>2
  <1>7. ASSUME NEW t \in Ids, ConsoleThreadSelect(t)
        PROVE  FollowedInv'
    BY <1>7 DEF ConsoleThreadSelect, FollowedInv
  <1>8. ASSUME NEW f \in 0..MaxUint, StackSelectFrame(f)
        PROVE  FollowedInv'
    <2>1. UNCHANGED <<threads, selected, made, current>>
      BY <1>8 DEF StackSelectFrame, lldb
    <2>2. SelectedThread' = SelectedThread
      BY <2>1 DEF SelectedThread
    <2>3. QED
      BY <1>8, <2>1, <2>2, KeepsQueue DEF StackSelectFrame, FollowedInv, events, lldb, told, Kinds
  <1>9. CASE Take
    <2>1. UNCHANGED <<threads, selected, made, current>>
      BY <1>9 DEF Take, lldb
    <2>2. SelectedThread' = SelectedThread
      BY <2>1 DEF SelectedThread
    <2>3. QED
      BY <1>9, <2>1, <2>2, TakesEvent DEF Take, FollowedInv, events, lldb, told, Kinds
  <1>10. CASE HandleTarget
    <2>1. UNCHANGED <<threads, selected, made, leftover, unsaid>> /\ Check
      BY <1>10 DEF HandleTarget, lldb
    <2>2. QED
      BY <1>10, <2>1, CheckFollows, HandlesEvent DEF HandleTarget, Check, FollowedInv, Kinds
  <1>11. CASE HandleThread
    <2>1. UNCHANGED <<threads, selected, made, leftover, unsaid>> /\ Check
      BY <1>11 DEF HandleThread, lldb
    <2>2. QED
      BY <1>11, <2>1, CheckFollows, HandlesEvent DEF HandleThread, Check, FollowedInv, Kinds
  <1>12. CASE HandleRunning
    <2>1. UNCHANGED <<threads, selected, made, current>>
      BY <1>12 DEF HandleRunning, lldb
    <2>2. SelectedThread' = SelectedThread
      BY <2>1 DEF SelectedThread
    <2>3. QED
      BY <1>12, <2>1, <2>2, HandlesEvent DEF HandleRunning, FollowedInv, events, lldb, told, Kinds
  <1>13. CASE HandleStopped
    <2>1. /\ UNCHANGED <<threads, made, leftover, unsaid>> /\ state = "stopped"
          /\ selected' = UpdateSelectedThread /\ current' = CurrentNow
          /\ client' = selected' \/ client' = ClientNow
      BY <1>13 DEF HandleStopped
    <2>2. Valid = threads /\ threads # {} /\ threads \subseteq 1..made /\ made \in Nat
      BY <2>1, Constants DEF Valid, MadeInv, TypeOK
    <2>3. selected' \in threads /\ SelectedThread' = selected'
      BY <2>1, <2>2, UpdateIsThread DEF SelectedThread
    <2>4. ~Pending("exited")' => ~Pending("exited")
      BY <1>13, HandlesEvent DEF HandleStopped, Kinds
    <2>5. CASE client' = selected'
      BY <2>1, <2>2, <2>3, <2>5 DEF FollowedInv
    <2>6. CASE client' = ClientNow
      <3>1. SelectedThread \in threads
        BY <2>2, SelectedIsThread DEF TypeOK
      <3>2. CurrentNow = SelectedThread
        BY <2>2, <3>1 DEF CurrentNow
      <3>3. ClientNow \in {client, SelectedThread}
        BY <3>2 DEF ClientNow
      <3>4. ASSUME ~unsaid, ~leftover, ~Pending("exited")
            PROVE  /\ ClientNow \in 0..made
                   /\ ClientNow \in threads => ClientNow = SelectedThread
        <4>1. /\ client \in 0..made
              /\ client \in threads => client \in {SelectedThread, current}
          BY <3>4 DEF FollowedInv
        <4>2. ClientNow \in 0..made
          BY <2>2, <3>1, <3>3, <4>1
        <4>3. QED
          BY <2>2, <4>1, <4>2, ClientFollows
      <3>5. QED
        BY <2>1, <2>4, <2>6, <3>2, <3>4 DEF FollowedInv
    <2>7. QED
      BY <2>1, <2>5, <2>6
  <1>14. CASE HandleStaleStop
    <2>1. UNCHANGED <<threads, selected, made, leftover, unsaid>> /\ Check
      BY <1>14 DEF HandleStaleStop, lldb
    <2>2. QED
      BY <1>14, <2>1, CheckFollows, HandlesEvent DEF HandleStaleStop, Check, FollowedInv, Kinds
  <1>15. CASE HandleExited
    <2>1. client' = 0 /\ UNCHANGED <<threads, made>>
      BY <1>15 DEF HandleExited, lldb, NoThread
    <2>2. 0 \in 0..made /\ 0 \notin threads
      BY Constants DEF MadeInv, TypeOK
    <2>3. QED
      BY <2>1, <2>2 DEF FollowedInv
  <1>16. CASE UNCHANGED vars
    <2>1. UNCHANGED <<threads, selected, made, current, client, unsaid, leftover>>
      BY <1>16 DEF vars, lldb, told
    <2>2. SelectedThread' = SelectedThread
      BY <2>1 DEF SelectedThread
    <2>3. QED
      BY <1>16, <2>1, <2>2, KeepsQueue DEF FollowedInv, vars, events
  <1>17. QED
    BY <1>1, <1>2, <1>3, <1>4, <1>5, <1>6, <1>7, <1>8, <1>9, <1>10, <1>11, <1>12,
       <1>13, <1>14, <1>15, <1>16 DEF Next

\* The handler of a stop leaves the selected thread alone, or takes one with a reason.
LEMMA UpdateGivesReason ==
  ASSUME TypeOK, threads # {}
  PROVE  /\ UpdateSelectedThread = SelectedThread
              \/ reasons[UpdateSelectedThread] \in {"plan", "break", "signal", "trap"}
         /\ (\E t \in threads : reasons[t] \in Named) =>
              reasons[UpdateSelectedThread] # "none"
  <1>1. \A S \in SUBSET threads : S # {} => Min(S) \in S
    <2>1. threads \subseteq Nat
      BY Constants DEF TypeOK
    <2>2. QED
      BY <2>1, MinIsLeast
  <1> DEFINE With(rs) == {t \in threads : reasons[t] \in rs}
  <1>2. \A rs : With(rs) # {} => reasons[Min(With(rs))] \in rs
    BY <1>1
  <1>3. FirstWithReason =
          IF With({"plan"}) # {} THEN Min(With({"plan"}))
          ELSE IF With({"break", "signal", "trap"}) # {}
               THEN Min(With({"break", "signal", "trap"})) ELSE SelectedThread
    BY DEF FirstWithReason
  <1>4. /\ \A t \in threads : reasons[t] = "plan" => With({"plan"}) # {}
        /\ \A t \in threads : reasons[t] \in {"break", "signal"} =>
             With({"break", "signal", "trap"}) # {}
    OBVIOUS
  <1> HIDE DEF With
  <1>5. CASE With({"plan"}) # {}
    BY <1>2, <1>3, <1>5 DEF UpdateSelectedThread
  <1>6. CASE With({"plan"}) = {} /\ With({"break", "signal", "trap"}) # {}
    BY <1>2, <1>3, <1>6 DEF UpdateSelectedThread
  <1>7. CASE With({"plan"}) = {} /\ With({"break", "signal", "trap"}) = {}
    BY <1>3, <1>4, <1>7 DEF UpdateSelectedThread, Named
  <1>8. QED
    BY <1>5, <1>6, <1>7

LEMMA NextSelectedInv ==
  ASSUME TypeOK, MadeInv, OrderInv, FollowedInv, SelectedInv, [Next]_vars
  PROVE  SelectedInv'
  <1>1. CASE InferiorStops
    <2>1. Pending("stopped")'
      BY <1>1, SendsEvent DEF InferiorStops, Kinds
    <2>2. QED
      BY <2>1 DEF SelectedInv
  <1>2. CASE InferiorExits
    BY <1>2 DEF InferiorExits, SelectedInv
  <1>3. CASE TargetChanges
    <2>1. UNCHANGED <<state, threads, selected, reasons, client, leftover, unsaid>>
      BY <1>3 DEF TargetChanges, told, lldb
    <2>2. Pending("stopped")' <=> Pending("stopped")
      BY <1>3, SendsEvent DEF TargetChanges, events, Kinds
    <2>3. SelectedThread' = SelectedThread
      BY <2>1 DEF SelectedThread
    <2>4. NamesThread(SelectedThread)' <=> NamesThread(SelectedThread)
      BY <2>1, <2>3 DEF NamesThread, TraceNames, BreakpointNames
    <2>5. QED
      BY <2>1, <2>2, <2>3, <2>4 DEF SelectedInv
  <1>4. CASE Launch
    BY <1>4 DEF Launch, SelectedInv
  <1>5. CASE Resume
    BY <1>5 DEF Resume, SelectedInv
  <1>6. ASSUME NEW t \in Ids, ThreadSelect(t)
        PROVE  SelectedInv'
    <2>1. CASE t \notin threads
      BY <1>6, <2>1 DEF ThreadSelect, SelectedInv
    <2>2. CASE t \in threads
      <3>1. client' = t /\ SelectedThread' = t
        BY <1>6, <2>2 DEF ThreadSelect, SelectedThread
      <3>2. QED
        BY <3>1 DEF SelectedInv
    <2>3. QED
      BY <2>1, <2>2
  <1>7. ASSUME NEW t \in Ids, ConsoleThreadSelect(t)
        PROVE  SelectedInv'
    BY <1>7 DEF ConsoleThreadSelect, SelectedInv
  <1>8. ASSUME NEW f \in 0..MaxUint, StackSelectFrame(f)
        PROVE  SelectedInv'
    <2>1. UNCHANGED <<state, threads, selected, reasons, client, leftover, unsaid>>
      BY <1>8 DEF StackSelectFrame, told, lldb
    <2>2. Pending("stopped")' <=> Pending("stopped")
      BY <1>8, KeepsQueue DEF StackSelectFrame, events, Kinds
    <2>3. SelectedThread' = SelectedThread
      BY <2>1 DEF SelectedThread
    <2>4. NamesThread(SelectedThread)' <=> NamesThread(SelectedThread)
      BY <2>1, <2>3 DEF NamesThread, TraceNames, BreakpointNames
    <2>5. QED
      BY <2>1, <2>2, <2>3, <2>4 DEF SelectedInv
  <1>9. CASE Take
    <2>1. CASE state' = "stopped" /\ state # "stopped"
      <3>1. taken' = "stopped"
        BY <1>9, <2>1 DEF Take
      <3>2. Pending("stopped")'
        BY <3>1 DEF Pending
      <3>3. QED
        BY <3>2 DEF SelectedInv
    <2>2. CASE state' = "stopped" /\ state = "stopped"
      <3>1. UNCHANGED <<threads, selected, reasons, client, leftover, unsaid>>
        BY <1>9 DEF Take, told
      <3>2. Pending("stopped")' <=> Pending("stopped")
        BY <1>9, TakesEvent DEF Take, Kinds
      <3>3. SelectedThread' = SelectedThread
        BY <3>1 DEF SelectedThread
      <3>4. NamesThread(SelectedThread)' <=> NamesThread(SelectedThread)
        BY <3>1, <3>3 DEF NamesThread, TraceNames, BreakpointNames
      <3>5. QED
        BY <2>2, <3>1, <3>2, <3>3, <3>4 DEF SelectedInv
    <2>3. CASE state' # "stopped"
      BY <2>3 DEF SelectedInv
    <2>4. QED
      BY <2>1, <2>2, <2>3
  <1>10. CASE HandleTarget
    <2>1. UNCHANGED <<state, threads, selected, reasons, leftover, unsaid>> /\ client' = ClientNow
      BY <1>10 DEF HandleTarget, Check, lldb
    <2>2. Pending("stopped") <=> Pending("stopped")'
      BY <1>10, HandlesEvent DEF HandleTarget, Kinds
    <2>3. state = "stopped" => SelectedThread \in Valid /\ Valid = threads
      BY SelectedIsThread DEF Valid, MadeInv, TypeOK
    <2>4. SelectedThread' = SelectedThread
      BY <2>1 DEF SelectedThread
    <2>5. state = "stopped" => client' = SelectedThread \/ client' = client
      BY <2>1, <2>3 DEF ClientNow, CurrentNow
    <2>6. QED
      BY <2>1, <2>2, <2>4, <2>5 DEF SelectedInv, NamesThread, TraceNames, BreakpointNames
  <1>11. CASE HandleThread
    <2>1. UNCHANGED <<state, threads, selected, reasons, leftover, unsaid>> /\ client' = ClientNow
      BY <1>11 DEF HandleThread, Check, lldb
    <2>2. Pending("stopped") <=> Pending("stopped")'
      BY <1>11, HandlesEvent DEF HandleThread, Kinds
    <2>3. state = "stopped" => SelectedThread \in Valid /\ Valid = threads
      BY SelectedIsThread DEF Valid, MadeInv, TypeOK
    <2>4. SelectedThread' = SelectedThread
      BY <2>1 DEF SelectedThread
    <2>5. state = "stopped" => client' = SelectedThread \/ client' = client
      BY <2>1, <2>3 DEF ClientNow, CurrentNow
    <2>6. QED
      BY <2>1, <2>2, <2>4, <2>5 DEF SelectedInv, NamesThread, TraceNames, BreakpointNames
  <1>12. CASE HandleRunning
    <2>1. UNCHANGED <<state, threads, selected, reasons, client, leftover, unsaid>>
      BY <1>12 DEF HandleRunning, told, lldb
    <2>2. Pending("stopped")' <=> Pending("stopped")
      BY <1>12, HandlesEvent DEF HandleRunning, events, Kinds
    <2>3. SelectedThread' = SelectedThread
      BY <2>1 DEF SelectedThread
    <2>4. NamesThread(SelectedThread)' <=> NamesThread(SelectedThread)
      BY <2>1, <2>3 DEF NamesThread, TraceNames, BreakpointNames
    <2>5. QED
      BY <2>1, <2>2, <2>3, <2>4 DEF SelectedInv
  <1>13. CASE HandleStopped
    <2> SUFFICES ASSUME ~unsaid', ~leftover', ~Pending("stopped")'
                 PROVE  IF reasons'[SelectedThread'] \in Named
                        THEN NamesThread(SelectedThread)' => client' = SelectedThread'
                        ELSE reasons'[SelectedThread'] # "trap" /\ client' \in threads' =>
                               client' = SelectedThread'
      BY DEF SelectedInv
    <2>1. /\ UNCHANGED <<threads, reasons, leftover, unsaid>> /\ state = "stopped"
          /\ selected' = UpdateSelectedThread
          /\ client' = IF NamesThread(selected') THEN selected' ELSE ClientNow
      BY <1>13 DEF HandleStopped
    <2>2. Valid = threads /\ threads # {}
      BY <2>1 DEF Valid, MadeInv
    <2>3. SelectedThread' = selected' /\ SelectedThread \in threads
      BY <2>1, <2>2, UpdateIsThread, SelectedIsThread DEF SelectedThread, TypeOK
    <2>4. NamesThread(SelectedThread)' <=> NamesThread(selected')
      BY <2>1, <2>3 DEF NamesThread, TraceNames, BreakpointNames
    <2>5. CASE NamesThread(selected')
      BY <2>1, <2>3, <2>5
    <2>6. CASE ~NamesThread(selected') /\ reasons[selected'] \in Named
      BY <2>1, <2>3, <2>4, <2>6
    <2>7. CASE ~NamesThread(selected') /\ reasons[selected'] \notin Named
      <3>1. reasons[selected'] # "trap" => selected' = SelectedThread
        BY <2>1, <2>2, <2>7, UpdateGivesReason DEF Named
      <3>2. ~Pending("exited")
        <4>1. ExitsPrecedeStop /\ taken = "stopped" /\ queue' = queue
          BY <1>13, <2>1 DEF HandleStopped, OrderInv
        <4>2. ~Queued("stopped")
          BY <4>1 DEF Pending, Queued
        <4>3. QED
          BY <4>1, <4>2 DEF Pending, Queued, ExitsPrecedeStop
      <3>3. client \in threads => client \in {SelectedThread, current}
        BY <2>1, <3>2 DEF FollowedInv
      <3>4. client' = ClientNow
        BY <2>1, <2>7
      <3>5. client' \in threads => client' = SelectedThread
        BY <2>2, <3>3, <3>4, ClientFollows
      <3>6. QED
        BY <2>1, <2>3, <2>7, <3>1, <3>5
    <2>8. QED
      BY <2>5, <2>6, <2>7
  <1>14. CASE HandleStaleStop
    BY <1>14 DEF HandleStaleStop, SelectedInv, lldb
  <1>15. CASE HandleExited
    <2>1. state = "stopped" => leftover'
      BY <1>15, ExitListValid DEF HandleExited, Valid, MadeInv
    <2>2. QED
      BY <1>15, <2>1 DEF HandleExited, SelectedInv, lldb
  <1>16. CASE UNCHANGED vars
    <2>1. UNCHANGED <<state, threads, selected, reasons, client, leftover, unsaid>>
      BY <1>16 DEF vars, told, lldb
    <2>2. Pending("stopped")' <=> Pending("stopped")
      BY <1>16, KeepsQueue DEF vars, events, Kinds
    <2>3. SelectedThread' = SelectedThread
      BY <2>1 DEF SelectedThread
    <2>4. NamesThread(SelectedThread)' <=> NamesThread(SelectedThread)
      BY <2>1, <2>3 DEF NamesThread, TraceNames, BreakpointNames
    <2>5. QED
      BY <2>1, <2>2, <2>3, <2>4 DEF SelectedInv
  <1>17. QED
    BY <1>1, <1>2, <1>3, <1>4, <1>5, <1>6, <1>7, <1>8, <1>9, <1>10, <1>11, <1>12,
       <1>13, <1>14, <1>15, <1>16 DEF Next

(***************************************************************************)
(* The theorems.                                                           *)
(***************************************************************************)

LEMMA InitIInv == Init => IInv
  <1> SUFFICES ASSUME Init
               PROVE  IInv
    OBVIOUS
  <1> USE DEF Init, NoThread, NoEvent
  <1>1. Flags
    BY Zenon DEF Flags
  <1>2. TypeOK
    BY <1>1, Constants DEF TypeOK, Flags, NoReasons, FirstFrames
  <1>3. MadeInv /\ KnownInv /\ ListedInv /\ OrderInv /\ ExitedInv /\ SelectedInv
    BY Constants DEF MadeInv, KnownInv, ListedInv, OrderInv, ExitedInv, SelectedInv
  <1>4. FollowedInv
    BY DEF FollowedInv
  <1>5. QED
    BY <1>2, <1>3, <1>4 DEF IInv

LEMMA NextIInv == IInv /\ [Next]_vars => IInv'
  <1> SUFFICES ASSUME IInv, [Next]_vars
               PROVE  IInv'
    OBVIOUS
  <1>1. /\ TypeOK /\ MadeInv /\ KnownInv /\ ListedInv /\ OrderInv
        /\ ExitedInv /\ FollowedInv /\ SelectedInv
    BY DEF IInv
  <1>2. TypeOK' /\ MadeInv' /\ KnownInv' /\ ListedInv' /\ OrderInv'
    BY <1>1, NextTypeOK, NextMadeInv, NextKnownInv, NextListedInv, NextOrderInv
  <1>3. ExitedInv' /\ FollowedInv' /\ SelectedInv'
    BY <1>1, NextExitedInv, NextFollowedInv, NextSelectedInv
  <1>4. QED
    BY <1>2, <1>3 DEF IInv

\* The invariant is inductive, so every state has it.
THEOREM SpecIInv == Spec => []IInv
  <1>1. QED
    BY InitIInv, NextIInv, PTL DEF Spec

\* Every variable has its type: no thread there is none of becomes known or selected.
THEOREM ThreadsTypeOK == Spec => []TypeOK
  <1>1. IInv => TypeOK
    BY DEF IInv
  <1>2. QED
    BY <1>1, SpecIInv, PTL

\* ChkForStateChanges reports a thread created only to a client that does not know it,
\* and exited only to one that does, whatever becomes of the process between two
\* events, unless LLDB goes on listing threads after an exit.  A record out of turn is
\* only ever the exit of thread 1 that HandleProcessEventStateExited always prints.
THEOREM CreationsAndExitsAlternate == Spec => []RecordsAlternate
  <1>1. IInv => RecordsAlternate
    BY DEF IInv, KnownInv, RecordsAlternate
  <1>2. QED
    BY <1>1, SpecIInv, PTL

\* Once the events of a stop are handled the client knows exactly the threads of the
\* process, and -thread-info and -list-thread-groups name the same ones.
THEOREM ThreadsAreKnown == Spec => []ThreadsKnownAtStop
  <1>1. ASSUME IInv, Settled, ~leftover
        PROVE  known = threads /\ ThreadInfo(NoNumber) = known /\ ListThreadGroups = known
    <2>1. ~Pending("stopped") /\ state = "stopped"
      BY <1>1 DEF Settled, Pending, Queued, NoEvent
    <2>2. known = threads /\ Valid = threads
      BY <1>1, <2>1 DEF IInv, KnownInv, ListedInv, Valid
    <2>3. QED
      BY <2>2 DEF ThreadInfo, ListThreadGroups
  <1>2. IInv => ThreadsKnownAtStop
    BY <1>1 DEF ThreadsKnownAtStop
  <1>3. QED
    BY <1>2, SpecIInv, PTL

\* While the process is stopped the thread the client takes for selected is the one
\* its commands work on.
THEOREM SelectionIsKnown == Spec => []ClientKnowsSelected
  <1>1. ASSUME IInv, Settled, ~unsaid, ~leftover,
               IF reasons[SelectedThread] \in Named THEN NamesThread(SelectedThread)
               ELSE reasons[SelectedThread] # "trap" /\ client \in threads
        PROVE  /\ client = SelectedThread
               /\ StackListVariables(client, NoNumber) = StackInfoFrame
    <2>1. ~Pending("stopped") /\ state = "stopped"
      BY <1>1 DEF Settled, Pending, Queued, NoEvent
    <2>2. client = SelectedThread
      BY <1>1, <2>1 DEF IInv, SelectedInv
    <2>3. SelectedThread \in Valid
      BY <1>1, <2>1, SelectedIsThread DEF IInv, TypeOK, MadeInv, Valid
    <2>4. QED
      BY <2>1, <2>2, <2>3 DEF StackListVariables, StackInfoFrame, Paused, Thread
  <1>2. IInv => ClientKnowsSelected
    BY <1>1 DEF ClientKnowsSelected
  <1>3. QED
    BY <1>2, SpecIInv, PTL

\* The handler of a stop finds a thread that has a reason to report, names it as
\* selected, and calls it stopped.
THEOREM CulpritIsNamed == Spec => CulpritNamed
  <1> DEFINE Found ==
        /\ reported'
        /\ NamesThread(selected') =>
             /\ client' = selected' /\ reasons[client'] \in Named
             /\ ThreadState(client)' = "stopped"
             /\ (StackListLocals(client, 0) = StackListVariables(client, 0))'
  <1>1. ASSUME IInv, HandleStopped, \E t \in threads : reasons[t] \in Named,
               reasons[selected'] \notin {"trap", "silent"}
        PROVE  Found
    <2>1. TypeOK /\ threads # {}
      BY <1>1 DEF IInv
    <2>2. /\ selected' = UpdateSelectedThread /\ UNCHANGED <<threads, reasons>>
          /\ client' = IF NamesThread(selected') THEN selected' ELSE ClientNow
      BY <1>1 DEF HandleStopped
    <2>3. selected' \in threads /\ reasons[selected'] # "none"
      BY <1>1, <2>1, <2>2, UpdateIsThread, UpdateGivesReason
    <2>4. reasons[selected'] \in Named
      BY <1>1, <2>1, <2>3, Constants DEF TypeOK, AllReasons
    <2>5. reported'
      BY <1>1, <2>4 DEF HandleStopped
    <2>6. ASSUME NamesThread(selected')
          PROVE  /\ client' = selected' /\ reasons[client'] \in Named
                 /\ ThreadState(client)' = "stopped"
                 /\ (StackListLocals(client, 0) = StackListVariables(client, 0))'
      <3>1. client' = selected' /\ reasons'[client'] \in Named
        BY <2>2, <2>4, <2>6
      <3>2. SelectedThread' = selected'
        BY <2>2, <2>3 DEF SelectedThread
      <3>3. Thread(client)' = client'
        BY <3>1, <3>2 DEF Thread
      <3>4. (StackListLocals(client, 0) = StackListVariables(client, 0))'
        BY <3>1, <3>3 DEF StackListLocals, Named
      <3>5. ThreadState(client)' = "stopped"
        BY <3>1 DEF ThreadState, Named
      <3>6. QED
        BY <2>2, <3>1, <3>4, <3>5
    <2>7. QED
      BY <2>5, <2>6
  <1>2. IInv /\ [Next]_vars =>
          [HandleStopped /\ (\E t \in threads : reasons[t] \in Named)
                         /\ reasons[selected'] \notin {"trap", "silent"} => Found]_vars
    BY <1>1
  <1> HIDE DEF Found
  <1>3. Spec => [][HandleStopped /\ (\E t \in threads : reasons[t] \in Named)
                     /\ reasons[selected'] \notin {"trap", "silent"} => Found]_vars
    BY <1>2, SpecIInv, PTL DEF Spec
  <1>4. QED
    BY <1>3 DEF CulpritNamed, Found

(***************************************************************************)
(* Levels of frames.                                                       *)
(***************************************************************************)

\* Numbers below the modulus do not wrap.
LEMMA SmallRemainder ==
  ASSUME NEW n \in Nat, NEW m \in Nat, n < m
  PROVE  n % m = n
  OBVIOUS

LEMMA FramesType ==
  ASSUME TypeOK, NEW t
  PROVE  Frames(t) \in 0..MaxUint
  <1>1. MaxUint \in Nat /\ \A u \in threads : Depth[u] \in 0..MaxUint
    BY Constants DEF TypeOK
  <1>2. QED
    BY <1>1 DEF Frames

\* -stack-list-frames and -stack-list-arguments list the levels asked for and no others.
THEOREM FramesAreInRange == Spec => []FramesInRange
  <1>1. ASSUME TypeOK, NEW t \in Ids \cup {NoNumber}
        PROVE  StackListFrames(t, NoNumber, NoNumber) = {l \in Numbers : l < StackInfoDepth(t)}
    <2>1. Frames(Thread(t)) \in 0..MaxUint /\ MaxUint \in Nat
      BY <1>1, FramesType, Constants
    <2>2. FrameEnd(MaxUint, Frames(Thread(t))) = Frames(Thread(t))
      BY <2>1 DEF FrameEnd
    <2>3. QED
      BY <2>1, <2>2 DEF StackListFrames, StackInfoDepth, Numbers
  <1>2. ASSUME TypeOK, NEW t \in Ids \cup {NoNumber}, NEW low \in Numbers, NEW high \in Numbers
        PROVE  LET asked == {l \in Numbers : low <= l /\ l <= high /\ l < StackInfoDepth(t)}
               IN /\ StackListFrames(t, low, high) = asked
                  /\ high # MaxUint =>
                       StackListArguments(t, low, high)
                         \in {asked} \cup (IF asked = {} THEN {Refused} ELSE {})
    <2> DEFINE n     == Frames(Thread(t))
               asked == {l \in Numbers : low <= l /\ l <= high /\ l < n}
    <2>1. n \in 0..MaxUint /\ MaxUint \in Nat /\ low \in 0..MaxUint /\ high \in 0..MaxUint
      BY <1>2, FramesType, Constants DEF Numbers
    <2>2. low # NoNumber /\ high # NoNumber
      BY <2>1 DEF NoNumber
    <2>3. n > 0 => Paused(Thread(t))
      BY DEF Frames, Paused, Valid
    <2> HIDE DEF n
    <2>4. StackListFrames(t, low, high) = {l \in Numbers : low <= l /\ l < FrameEnd(high, n)}
      BY <2>2 DEF StackListFrames, n
    <2>5. \A l \in Numbers : l < FrameEnd(high, n) <=> l <= high /\ l < n
      BY <2>1 DEF FrameEnd, Numbers
    <2>6. StackListFrames(t, low, high) = asked
      BY <2>4, <2>5
    <2>7. ASSUME high # MaxUint
          PROVE  StackListArguments(t, low, high)
                   \in {asked} \cup (IF asked = {} THEN {Refused} ELSE {})
      <3>1. (high + 1) % (MaxUint + 1) = high + 1
        <4>1. high + 1 \in Nat /\ MaxUint + 1 \in Nat /\ high + 1 < MaxUint + 1
          BY <2>1, <2>7
        <4>2. QED
          BY <4>1, SmallRemainder
      <3>2. StackListArguments(t, low, high) =
              IF ~Paused(Thread(t)) THEN {}
              ELSE IF low >= n THEN Refused
              ELSE {l \in Numbers : low <= l /\ l < high + 1 /\ l < n}
        BY <2>2, <3>1 DEF StackListArguments, n
      <3>3. low >= n => asked = {}
        BY <2>1 DEF Numbers
      <3>4. ~Paused(Thread(t)) => asked = {}
        BY <2>1, <2>3 DEF Numbers
      <3>5. {l \in Numbers : low <= l /\ l < high + 1 /\ l < n} = asked
        BY <2>1 DEF Numbers
      <3> HIDE DEF asked
      <3>6. QED
        BY <3>2, <3>3, <3>4, <3>5
    <2>8. QED
      BY <2>6, <2>7 DEF StackInfoDepth, n
  <1>3. IInv => FramesInRange
    BY <1>1, <1>2 DEF IInv, FramesInRange
  <1>4. QED
    BY <1>3, SpecIInv, PTL
=============================================================================
