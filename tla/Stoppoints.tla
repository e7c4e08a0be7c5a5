----------------------------- MODULE Stoppoints -----------------------------
(***************************************************************************)
(* The breakpoints and watchpoints of a session: LLDB's own, the records   *)
(* CMICmnLLDBDebugSessionInfo keeps of them, and the numbers the MI client *)
(* knows them by.                                                          *)
(*                                                                         *)
(* The break-* commands (main thread) and the handlers of LLDB's stoppoint *)
(* events (event thread) both read and write the records.  Each runs under *)
(* the session mutex, so each is one action here; module EventLoop shows   *)
(* that they exclude each other.  LLDB itself is under no such lock: it    *)
(* may delete a one-shot breakpoint, or obey a console command, between    *)
(* any two of them, and its events are handled later, in order.            *)
(***************************************************************************)
EXTENDS Integers, Sequences, FiniteSets

CONSTANTS
  MaxTargets,   \* bound: targets selected one after the other
  MaxPoints,    \* bound: stoppoints LLDB creates
  MaxQueue,     \* bound: events pending at once
  CntMax,       \* m_nBreakpointCntMax
  IgnoreCounts, \* ignore counts considered
  Conditions,   \* condition expressions considered; "" is no condition
  HandleOutlives \* types whose SB handle in an event stays valid after deletion

Types == {"bp", "wp"}

ASSUME StoppointsAssumption ==
  /\ MaxTargets \in Nat \ {0}
  /\ MaxPoints \in Nat
  /\ MaxQueue \in Nat
  /\ CntMax \in Nat
  /\ IgnoreCounts \subseteq Nat /\ 0 \in IgnoreCounts
  /\ Conditions \subseteq STRING /\ "" \in Conditions
  /\ HandleOutlives \subseteq Types

VARIABLES
  selected,  \* the selected target
  settings,  \* LLDB: the settings of every stoppoint ever created
  live,      \* LLDB: the stoppoints that exist
  queue,     \* LLDB: stoppoint events not handled yet, oldest first
  nextMiId,  \* m_nNextMiStoppointId
  ids,       \* m_mapLldbStoppointIdToMiStoppointId
  records,   \* m_mapMiStoppointIdToStoppointInfo
  \* History, read by properties only:
  told,      \* the pairs <<number, stoppoint>> printed to the client
  shown,     \* what the client was last shown of each number
  failed,    \* the stoppoints whose break-insert answered ^error
  lastStop   \* the stop report of the last step, if it made one

lldb    == <<selected, settings, live, queue>>
session == <<nextMiId, ids, records>>
client  == <<told, shown, failed>>
vars    == <<lldb, session, client, lastStop>>

Points == [target : 1..MaxTargets, type : Types, id : 1..MaxPoints]

\* LLDB's id of an invalid SBWatchpoint.
NoId == 0

\* (LLDB id, type): the target is not part of the key.
KeySet == [type : Types, id : {NoId} \cup 1..MaxPoints]

KeyOf(p) == [type |-> p.type, id |-> p.id]

Settings == [enabled : BOOLEAN, ignore : IgnoreCounts, cond : Conditions]
Default  == [enabled |-> TRUE, ignore |-> 0, cond |-> ""]

\* The fields of SStoppointInfo that differ between stoppoints over time.
Info == [key : KeySet, enabled : BOOLEAN, ignore : IgnoreCounts,
         cond : Conditions, hasCond : BOOLEAN]

Kinds  == {"Added", "Changed", "Removed", "Hit"}
Events == [kind : Kinds, point : Points]
Event(k, p) == [kind |-> k, point |-> p]

NoStop == [number |-> -1]

(***************************************************************************)
(* std::map.                                                               *)
(***************************************************************************)

\* The empty map.
Empty == [x \in {} |-> x]

\* map::insert and map::emplace: a key that is there keeps its value.
Insert(map, k, v) ==
  IF k \in DOMAIN map THEN map
  ELSE [x \in DOMAIN map \cup {k} |-> IF x = k THEN v ELSE map[x]]

\* operator[] =, on the client's side only.
Put(map, k, v) ==
  [x \in DOMAIN map \cup {k} |-> IF x = k THEN v ELSE map[x]]

Erase(map, k) == [x \in DOMAIN map \ {k} |-> map[x]]

TypeOK ==
  /\ selected \in 1..MaxTargets
  /\ DOMAIN settings \subseteq Points
  /\ settings \in [DOMAIN settings -> Settings]
  /\ live \subseteq DOMAIN settings
  /\ queue \in Seq([kind : Kinds, point : DOMAIN settings])
  /\ nextMiId \in Nat \ {0}
  /\ DOMAIN ids \subseteq KeySet
  /\ ids \in [DOMAIN ids -> 1..(nextMiId - 1)]
  /\ DOMAIN records \subseteq 1..(nextMiId - 1)
  /\ records \in [DOMAIN records -> Info]
  /\ told \subseteq (1..(nextMiId - 1)) \X DOMAIN settings
  /\ DOMAIN shown \subseteq 1..(nextMiId - 1)
  /\ shown \in [DOMAIN shown -> Settings]
  /\ failed \subseteq DOMAIN settings
  /\ lastStop \in {NoStop} \cup
       [number : Nat, point : DOMAIN settings, alive : BOOLEAN]

Init ==
  /\ selected = 1
  /\ settings = Empty /\ live = {} /\ queue = <<>>
  /\ nextMiId = 1 /\ ids = Empty /\ records = Empty
  /\ told = {} /\ shown = Empty /\ failed = {} /\ lastStop = NoStop

(***************************************************************************)
(* The numbers.                                                            *)
(***************************************************************************)

\* Faulty NumberOf: numbers follow the size of the map of records.
NumberOfBySize(key) ==
  IF key \in DOMAIN ids THEN ids[key] ELSE Cardinality(DOMAIN records) + 1

\* The number GetOrCreateMiStoppointId returns for a key.
NumberOf(key) == IF key \in DOMAIN ids THEN ids[key] ELSE nextMiId

\* What GetOrCreateMiStoppointId does to the map and the counter.
Numbered(key) == Insert(ids, key, NumberOf(key))

\* Faulty Counted: the number is not used up.
CountedNot(key) == nextMiId

Counted(key) == IF key \in DOMAIN ids THEN nextMiId ELSE nextMiId + 1

(***************************************************************************)
(* What the client reads.                                                  *)
(***************************************************************************)

\* MIResponseFormBreakpointInfo: the condition only if m_bCondition.
Form(info) == [enabled |-> info.enabled, ignore |-> info.ignore,
               cond |-> IF info.hasCond THEN info.cond ELSE ""]

\* A record about number n, the number of p, is printed.
Tell(n, p, info) ==
  /\ told' = told \cup {<<n, p>>}
  /\ shown' = Put(shown, n, Form(info))
  /\ UNCHANGED failed

NoReport == lastStop' = NoStop

(***************************************************************************)
(* LLDB, outside lldb-mi: it numbers the stoppoints of each type in each   *)
(* target from 1 and broadcasts what happens to them.                      *)
(***************************************************************************)

IsNext(p, type) ==
  /\ Cardinality(DOMAIN settings) < MaxPoints
  /\ p.target = selected /\ p.type = type /\ p \notin DOMAIN settings
  /\ \A i \in 1..(p.id - 1) : [p EXCEPT !.id = i] \in DOMAIN settings

Broadcast(events) ==
  /\ Len(queue) + Len(events) <= MaxQueue
  /\ queue' = queue \o events

\* One Changed event stands for the events of the single settings.
Created(p, s) ==
  /\ settings' = Put(settings, p, s)
  /\ Broadcast(<<Event("Added", p)>> \o
               (IF s = Default THEN <<>> ELSE <<Event("Changed", p)>>))

Altered(p, s) ==
  /\ settings' = [settings EXCEPT ![p] = s]
  /\ \/ s = settings[p] /\ queue' = queue
     \/ s # settings[p] /\ Broadcast(<<Event("Changed", p)>>)
  /\ UNCHANGED <<selected, live>>

Deleted(p) ==
  /\ live' = live \ {p}
  /\ Broadcast(<<Event("Removed", p)>>)
  /\ UNCHANGED <<selected, settings>>

\* "b main" or "watchpoint set" typed at the console.
ConsoleCreates ==
  /\ \E p \in Points, s \in Settings :
       /\ s.enabled /\ s.ignore = 0
       /\ \E t \in Types : IsNext(p, t)
       /\ settings' = Put(settings, p, s)
       /\ live' = live \cup {p}
       /\ Broadcast(<<Event("Added", p)>>)
  /\ NoReport
  /\ UNCHANGED <<selected, session, client>>

\* "breakpoint modify" and the like.
ConsoleAlters ==
  /\ \E p \in live, s \in Settings : s # settings[p] /\ Altered(p, s)
  /\ NoReport
  /\ UNCHANGED <<session, client>>

\* "breakpoint delete", a one-shot breakpoint hit, a watched frame left.
LldbDeletes ==
  /\ \E p \in live : Deleted(p)
  /\ NoReport
  /\ UNCHANGED <<session, client>>

\* A thread stops at a live stoppoint of the selected target.
LldbHits ==
  /\ \E p \in live : p.target = selected /\ Broadcast(<<Event("Hit", p)>>)
  /\ NoReport
  /\ UNCHANGED <<selected, settings, live, session, client>>

\* -file-exec-and-symbols: LLDB creates and selects another target.
FileExecAndSymbols ==
  /\ selected < MaxTargets
  /\ selected' = selected + 1
  /\ NoReport
  /\ UNCHANGED <<settings, live, queue, session, client>>

(***************************************************************************)
(* The break-* commands.  The ones that name no record, and break-watch    *)
(* when LLDB sets no watchpoint, answer ^error and change nothing: they    *)
(* are stuttering steps.                                                   *)
(***************************************************************************)

\* break-insert of a location that does not exist: LLDB's breakpoint is deleted
\* at once, before it has a number.
BreakInsertFails ==
  /\ \E p \in Points :
       /\ IsNext(p, "bp")
       /\ settings' = Put(settings, p, Default)
       /\ Broadcast(<<Event("Added", p), Event("Removed", p)>>)
       /\ failed' = failed \cup {p}
  /\ NoReport
  /\ UNCHANGED <<selected, live, session, told, shown>>

\* break-insert: the breakpoint gets its options, then a number and a record;
\* Acknowledge prints the record.
BreakInsert ==
  /\ \E p \in Points, s \in Settings :
       /\ IsNext(p, "bp")
       /\ Created(p, s)
       /\ live' = live \cup {p}
       /\ LET n == NumberOf(KeyOf(p)) IN
          /\ records' = Insert(records, n,
               [key |-> KeyOf(p), enabled |-> s.enabled, ignore |-> s.ignore,
                cond |-> s.cond, hasCond |-> s.cond # ""])
          /\ \/ n <= CntMax /\ Tell(n, p, records'[n])
             \/ /\ n > CntMax
                /\ failed' = failed \cup {p}
                /\ UNCHANGED <<told, shown>>
       /\ ids' = Numbered(KeyOf(p))
       /\ nextMiId' = Counted(KeyOf(p))
  /\ NoReport
  /\ UNCHANGED selected

\* break-watch.  For an address watched already LLDB returns the watchpoint it
\* has.  Acknowledge prints the number and the expression only.
BreakWatch ==
  /\ \E p \in Points :
       /\ \/ /\ IsNext(p, "wp")
             /\ Created(p, Default)
             /\ live' = live \cup {p}
             /\ UNCHANGED selected
          \/ /\ p \in live /\ p.type = "wp" /\ p.target = selected
             /\ Altered(p, [settings[p] EXCEPT !.enabled = TRUE])
       /\ LET n == NumberOf(KeyOf(p))
              s == settings'[p]
              info == [key |-> KeyOf(p), enabled |-> s.enabled,
                       ignore |-> s.ignore, cond |-> s.cond,
                       hasCond |-> s.cond # ""]
          IN  /\ records' = Insert(records, n, info)
              /\ told' = told \cup {<<n, p>>}
       /\ ids' = Numbered(KeyOf(p))
       /\ nextMiId' = Counted(KeyOf(p))
  /\ NoReport
  /\ UNCHANGED <<shown, failed>>

\* The stoppoint the commands below act on: found by the record's LLDB id in the
\* selected target.
Found(n, p) ==
  /\ n \in DOMAIN records
  /\ p \in live /\ p.target = selected
  /\ KeyOf(p) = records[n].key

\* break-delete: LLDB deletes; the record stays until the Removed event.
BreakDelete ==
  /\ \E n \in DOMAIN records, p \in live : Found(n, p) /\ Deleted(p)
  /\ NoReport
  /\ UNCHANGED <<session, client>>

\* break-disable: LLDB is told, the record is left alone.
BreakDisable ==
  /\ \E n \in DOMAIN records, p \in live :
       /\ Found(n, p)
       /\ Altered(p, [settings[p] EXCEPT !.enabled = FALSE])
  /\ NoReport
  /\ UNCHANGED <<session, client>>

\* break-enable.
BreakEnable ==
  /\ \E n \in DOMAIN records, p \in live :
       /\ Found(n, p)
       /\ Altered(p, [settings[p] EXCEPT !.enabled = TRUE])
  /\ NoReport
  /\ UNCHANGED <<session, client>>

\* break-after: LLDB's ignore count, then UpdateStoppointInfo.
BreakAfter ==
  /\ \E n \in DOMAIN records, p \in live, count \in IgnoreCounts :
       /\ Found(n, p)
       /\ Altered(p, [settings[p] EXCEPT !.ignore = count])
       /\ records' = Insert(records, n, [records[n] EXCEPT !.ignore = count])
  /\ NoReport
  /\ UNCHANGED <<nextMiId, ids, client>>

\* break-condition: LLDB's condition, then UpdateStoppointInfo.
BreakCondition ==
  /\ \E n \in DOMAIN records, p \in live, expr \in Conditions :
       /\ Found(n, p)
       /\ Altered(p, [settings[p] EXCEPT !.cond = expr])
       /\ records' = Insert(records, n, [records[n] EXCEPT !.cond = expr])
  /\ NoReport
  /\ UNCHANGED <<nextMiId, ids, client>>

(***************************************************************************)
(* The event handlers.                                                     *)
(***************************************************************************)

\* SBBreakpoint::IsValid / SBWatchpoint::IsValid of an event's stoppoint.
Valid(p) == p \in live \/ p.type \in HandleOutlives

\* Faulty Refreshed: the record as it was made.
RefreshedNot(n, p) == records[n]

\* The record as LLDB has it now, but with the recorded ignore count and
\* condition.
Refreshed(n, p) == [records[n] EXCEPT !.enabled = settings[p].enabled]

\* HandleEventStoppointAdded.
HandleAdded(p) ==
  LET key == KeyOf(p)
      n   == NumberOf(key)
      s   == settings[p]
      new == [key |-> key, enabled |-> s.enabled, ignore |-> s.ignore,
              cond |-> s.cond, hasCond |-> s.cond # ""]
  IN  \/ /\ ~Valid(p)
         /\ UNCHANGED <<session, client>>
      \/ /\ Valid(p)
         /\ ids' = Numbered(key) /\ nextMiId' = Counted(key)
         /\ \/ /\ n \in DOMAIN records
               /\ Tell(n, p, Refreshed(n, p))
               /\ UNCHANGED records
            \/ /\ n \notin DOMAIN records /\ n <= CntMax
               /\ records' = Insert(records, n, new)
               /\ Tell(n, p, new)
            \/ /\ n \notin DOMAIN records /\ n > CntMax
               /\ UNCHANGED <<records, client>>

\* HandleEventStoppointCmn: breakpoint-modified, if there is a record.
HandleChanged(p) ==
  LET n == NumberOf(KeyOf(p))
  IN  \/ /\ ~Valid(p)
         /\ UNCHANGED <<session, client>>
      \/ /\ Valid(p)
         /\ ids' = Numbered(KeyOf(p)) /\ nextMiId' = Counted(KeyOf(p))
         /\ \/ n \in DOMAIN records /\ Tell(n, p, Refreshed(n, p))
            \/ n \notin DOMAIN records /\ UNCHANGED client
         /\ UNCHANGED records

\* Faulty HandleRemoved: an invalid handle ends the handler.
HandleRemovedIfValid(p) ==
  LET key == KeyOf(p)
      n   == NumberOf(key)
  IN  \/ ~Valid(p) /\ UNCHANGED <<session, client>>
      \/ /\ Valid(p) /\ n \in DOMAIN records
         /\ Tell(n, p, Refreshed(n, p))
         /\ records' = Erase(records, n)
         /\ ids' = Erase(ids, key)
         /\ UNCHANGED nextMiId

\* HandleEventStoppointCmn, then RemoveStoppointInfo, whatever the first said.
HandleRemoved(p) ==
  LET key == KeyOf(p)
      n   == NumberOf(key)
  IN  /\ nextMiId' = Counted(key)
      /\ \/ /\ n \in DOMAIN records
            /\ \/ Valid(p) /\ Tell(n, p, Refreshed(n, p))
               \/ ~Valid(p) /\ UNCHANGED client
            /\ records' = Erase(records, n)
            /\ ids' = Erase(ids, key)
         \/ /\ n \notin DOMAIN records
            /\ ids' = Numbered(key)
            /\ UNCHANGED <<records, client>>

\* Faulty HandleHit: a watchpoint too is reported under LLDB's id.
HandleHitLldbId(p) ==
  /\ lastStop' = [number |-> p.id, point |-> p, alive |-> p \in live]
  /\ UNCHANGED <<session, told, shown, failed>>

\* HandleProcessEventStopReasonBreakpoint prints the id of the stop reason as
\* bkptno; HandleProcessEventStopReasonWatchpoint looks the watchpoint up again,
\* prints its record's number, and prints nothing when there is no record.
HandleHit(p) ==
  \/ /\ p.type = "bp"
     /\ lastStop' = [number |-> p.id, point |-> p, alive |-> p \in live]
     /\ UNCHANGED <<session, told, shown, failed>>
  \/ /\ p.type = "wp"
     /\ LET there == [p EXCEPT !.target = selected] \in live
            key   == [type |-> "wp", id |-> IF there THEN p.id ELSE NoId]
            n     == NumberOf(key)
        IN  /\ ids' = Numbered(key) /\ nextMiId' = Counted(key)
            /\ lastStop' = [number |-> IF n \in DOMAIN records THEN n ELSE 0,
                            point |-> p, alive |-> p \in live]
     /\ UNCHANGED <<records, told, shown, failed>>

\* HandleEventSBBreakPoint, HandleEventSBWatchpoint, HandleEventSBProcess.
HandleEvent ==
  /\ queue # <<>>
  /\ queue' = Tail(queue)
  /\ LET e == Head(queue) IN
       \/ e.kind = "Added"   /\ HandleAdded(e.point) /\ NoReport
       \/ e.kind = "Changed" /\ HandleChanged(e.point) /\ NoReport
       \/ e.kind = "Removed" /\ HandleRemoved(e.point) /\ NoReport
       \/ e.kind = "Hit"     /\ HandleHit(e.point)
  /\ UNCHANGED <<selected, settings, live>>

Command ==
  \/ BreakInsertFails \/ BreakInsert \/ BreakWatch \/ BreakDelete
  \/ BreakDisable \/ BreakEnable \/ BreakAfter \/ BreakCondition

Lldb == ConsoleCreates \/ ConsoleAlters \/ LldbDeletes \/ LldbHits

Next == Command \/ Lldb \/ HandleEvent

\* A session with one target, which is what lldb-mi's client asks for when it
\* names one executable.
Spec == Init /\ [][Next]_vars

\* Every event is handled: EveryEventHandled of module EventLoop.
FairSpec == Spec /\ WF_vars(HandleEvent)

\* A session that goes on to further targets.
ManyTargetsSpec == Init /\ [][Next \/ FileExecAndSymbols]_vars

(***************************************************************************)
(* Properties.                                                             *)
(***************************************************************************)

Pending(k, p) == \E i \in DOMAIN queue : queue[i] = Event(k, p)
Quiet(p) == \A i \in DOMAIN queue : queue[i].point # p

\* A number in the client's hands names one stoppoint and a stoppoint has one
\* number, for as long as the session lasts: GetOrCreateMiStoppointId, called
\* by commands and by handlers in any order, with the map entry removed by
\* RemoveStoppointInfo in between.
NumbersNeverShared ==
  \A b, c \in told : b[1] = c[1] <=> b[2] = c[2]

\* The records follow LLDB: one is there for each live stoppoint whose Added
\* event has been handled (until the numbers run out), and the record of a
\* deleted one waits for its Removed event only.
RecordsTrackLldb ==
  /\ \A p \in live :
       \/ Pending("Added", p)
       \/ NumberOf(KeyOf(p)) > CntMax
       \/ KeyOf(p) \in DOMAIN ids /\ ids[KeyOf(p)] \in DOMAIN records
  /\ \A n \in DOMAIN records : \E p \in DOMAIN settings :
       /\ KeyOf(p) = records[n].key
       /\ p \in live \/ Pending("Removed", p)

\* A break-insert that answered ^error because it found no location leaves nothing
\* the client could see: its breakpoint has no record and is never announced,
\* although LLDB's Added and Removed events for it arrive after the ^error.  (The
\* other ^error, past the limit of the numbers, leaves a record.)
FailedInsertUnseen ==
  \A p \in failed :
    /\ KeyOf(p) \in DOMAIN ids /\ ids[KeyOf(p)] \in DOMAIN records
         => ids[KeyOf(p)] > CntMax
    /\ \A b \in told : b[2] = p => b[1] > CntMax

\* When no event about a live stoppoint is pending, the client has last been
\* shown the enabled state LLDB has.
EnabledReported ==
  \A b \in told :
    b[2] \in live /\ Quiet(b[2]) /\ b[1] \in DOMAIN shown
      => shown[b[1]].enabled = settings[b[2]].enabled

\* The stop at a live watchpoint is reported under the number the client was
\* told for it: MiStoppedAtWatchpoint looks the number up after the commands and
\* events that came between.
WatchHitNamed ==
  lastStop # NoStop =>
    (lastStop.point.type = "wp" /\ lastStop.alive
       => \A b \in told : b[2] = lastStop.point => b[1] = lastStop.number)

\* "should a user type "b main" into a console then LLDB will create a breakpoint
\* directly, hence no MI command, hence no previous record of the breakpoint":
\* HandleEventStoppointAdded finds no record of a stoppoint the client has not
\* been told of.  It holds of Spec only: in a second target LLDB counts from 1
\* again, and the map's key does not hold the target.
ConsolePointsHaveNoRecord ==
  \A i \in DOMAIN queue : LET p == queue[i].point IN
    /\ queue[i].kind = "Added" /\ p \in live
    /\ p \notin failed /\ \A b \in told : b[2] # p
    => NumberOf(KeyOf(p)) \notin DOMAIN records

\* The record of a deleted stoppoint does not stay.
DeadRecordsVanish ==
  \A n \in 1..(CntMax + 1) :
    (n \in DOMAIN records /\ \A p \in live : KeyOf(p) # records[n].key)
      ~> (n \notin DOMAIN records)

\* UpdateStoppointInfo is there to "record the new ignore count" and "record the
\* new condition", and the handlers to "add more breakpoint information or
\* overwrite existing information": when no event about a live stoppoint is
\* pending, the client has last been shown the ignore count and the condition
\* LLDB has.  It does not hold: RecordStoppointInfo inserts into a std::map,
\* which leaves an existing record as it is.
SettingsReported ==
  \A b \in told :
    b[2] \in live /\ Quiet(b[2]) /\ b[1] \in DOMAIN shown
      => shown[b[1]] = settings[b[2]]

\* A stop names its breakpoint by the "Emulated GDB-MI break point ID" the client
\* was told.  It does not hold: bkptno is LLDB's id, which differs as soon as a
\* watchpoint or a failed break-insert has used a number.
BreakHitNamed ==
  lastStop # NoStop =>
    (lastStop.point.type = "bp" /\ lastStop.alive
       => <<lastStop.number, lastStop.point>> \in told)

\* The numbers keep what StoppointNumbers promises.
Numbers == INSTANCE StoppointNumbers WITH
  names <- told,
  open <- DOMAIN records \cap {b[1] : b \in told}
NumbersKept == Numbers!Spec
=============================================================================
