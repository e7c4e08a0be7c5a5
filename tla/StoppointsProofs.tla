-------------------------- MODULE StoppointsProofs --------------------------
(***************************************************************************)
(* What Stoppoints guarantees for any number of stoppoints, any length of  *)
(* LLDB's queue and any order of commands, deletions and events, in a      *)
(* session with one target: numbers are never shared, records follow LLDB, *)
(* the client is shown the enabled state, a watchpoint's stop has the      *)
(* number the client knows, and the numbers implement StoppointNumbers.    *)
(*                                                                         *)
(* The argument: as long as anything can be said of a stoppoint, its key   *)
(* keeps its number and its record (ToldKept), because RemoveStoppointInfo *)
(* runs for its Removed event only, which is the last event about it       *)
(* (QueueInv).  What a step does is given by two lemmas, one for LLDB's    *)
(* queue (LldbShapes) and one for the session's maps and the client        *)
(* (Shapes); the invariants are proved from these.                         *)
(***************************************************************************)
EXTENDS Stoppoints, SequenceTheorems, TLAPS

\* An event about p is pending or may still come.
Busy(p) == p \in live \/ ~Quiet(p)

\* There is one target, so that a key belongs to one stoppoint.
OneTarget == selected = 1 /\ \A p \in DOMAIN settings : p.target = 1

\* The Removed event of a stoppoint is the last one about it, and comes.
QueueInv ==
  /\ \A i \in DOMAIN queue : queue[i].kind = "Removed" =>
       /\ queue[i].point \notin live
       /\ \A j \in DOMAIN queue : i < j => queue[j].point # queue[i].point
  /\ \A i \in DOMAIN queue :
       queue[i].point \in live \/ Pending("Removed", queue[i].point)

\* Two keys never have the same number ...
KeysApart == \A k, l \in DOMAIN ids : ids[k] = ids[l] => k = l

\* ... and a key never has the number the client knows for another stoppoint.
ToldApart ==
  \A b \in told : \A k \in DOMAIN ids : ids[k] = b[1] => k = KeyOf(b[2])

\* As long as anything can be said of a stoppoint the client was told of, its
\* number and its record are there.
ToldKept ==
  \A b \in told : Busy(b[2]) =>
    /\ KeyOf(b[2]) \in DOMAIN ids
    /\ ids[KeyOf(b[2])] = b[1]
    /\ b[1] \in DOMAIN records

\* A record is the record of the number of its key.
RecordsKeyed ==
  \A n \in DOMAIN records :
    records[n].key \in DOMAIN ids /\ ids[records[n].key] = n

\* A record the client was not told of waits for an Added event that will be
\* reported, or for a Removed event that will not.
RecordsTold ==
  \A p \in DOMAIN settings :
    /\ p.type \in HandleOutlives
    /\ KeyOf(p) \in DOMAIN ids
    /\ ids[KeyOf(p)] \in DOMAIN records
    => Pending("Added", p) \/ <<ids[KeyOf(p)], p>> \in told

\* The client was shown numbers it was told of only.
ShownTold == \A n \in DOMAIN shown : \E b \in told : b[1] = n

\* What the client was shown of a live stoppoint, or an event, says whether it is
\* enabled.
EnabledInv ==
  \A b \in told :
    b[2] \in live /\ b[1] \in DOMAIN shown =>
      \/ Pending("Added", b[2]) \/ Pending("Changed", b[2])
      \/ shown[b[1]].enabled = settings[b[2]].enabled

IInv ==
  /\ TypeOK /\ OneTarget /\ QueueInv
  /\ KeysApart /\ ToldApart /\ ToldKept /\ RecordsKeyed
  /\ NumbersNeverShared /\ RecordsTrackLldb /\ RecordsTold
  /\ ShownTold /\ EnabledInv /\ WatchHitNamed

LEMMA InitIInv == Init => IInv
  <1> SUFFICES ASSUME Init PROVE IInv
    OBVIOUS
  <1>1. TypeOK
    <2>1. /\ Empty \in [{} -> Settings] /\ Empty \in [{} -> Info]
          /\ Empty \in [{} -> 1..(nextMiId - 1)]
          /\ DOMAIN Empty = {}
      BY DEF Empty
    <2>2. queue \in Seq([kind : Kinds, point : DOMAIN settings])
      BY EmptySeq DEF Init
    <2>3. 1 \in 1..MaxTargets
      <3>1. MaxTargets \in Nat \ {0}
        BY Zenon, StoppointsAssumption
      <3>2. QED
        BY <3>1
    <2>4. QED
      BY <2>1, <2>2, <2>3 DEF Init, TypeOK
  <1>2. DOMAIN settings = {} /\ DOMAIN ids = {} /\ DOMAIN records = {}
        /\ DOMAIN queue = {} /\ DOMAIN shown = {}
    BY DEF Init, Empty
  <1>3. QED
    BY <1>1, <1>2 DEF Init, IInv, OneTarget, QueueInv, KeysApart, ToldApart,
       ToldKept, RecordsKeyed, NumbersNeverShared, RecordsTrackLldb,
       RecordsTold, ShownTold, EnabledInv, WatchHitNamed

(***************************************************************************)
(* Operators.                                                              *)
(***************************************************************************)

LEMMA PutType ==
  ASSUME NEW S, NEW map, map \in [DOMAIN map -> S], NEW k, NEW v \in S
  PROVE  /\ DOMAIN Put(map, k, v) = DOMAIN map \cup {k}
         /\ Put(map, k, v) \in [DOMAIN map \cup {k} -> S]
         /\ Put(map, k, v)[k] = v
         /\ \A x \in DOMAIN map \ {k} : Put(map, k, v)[x] = map[x]
  BY DEF Put

LEMMA InsertType ==
  ASSUME NEW S, NEW map, map \in [DOMAIN map -> S], NEW k, NEW v \in S
  PROVE  /\ DOMAIN Insert(map, k, v) = DOMAIN map \cup {k}
         /\ Insert(map, k, v) \in [DOMAIN map \cup {k} -> S]
         /\ Insert(map, k, v)[k] = (IF k \in DOMAIN map THEN map[k] ELSE v)
         /\ \A x \in DOMAIN map : Insert(map, k, v)[x] = map[x]
  BY DEF Insert

LEMMA EraseType ==
  ASSUME NEW S, NEW map, map \in [DOMAIN map -> S], NEW k
  PROVE  /\ DOMAIN Erase(map, k) = DOMAIN map \ {k}
         /\ Erase(map, k) \in [DOMAIN map \ {k} -> S]
         /\ \A x \in DOMAIN map \ {k} : Erase(map, k)[x] = map[x]
  BY DEF Erase

\* What GetOrCreateMiStoppointId returns, and what it leaves behind.
LEMMA NumberFacts ==
  ASSUME TypeOK, NEW key \in KeySet
  PROVE  /\ NumberOf(key) \in 1..(Counted(key) - 1)
         /\ Counted(key) \in Nat \ {0}
         /\ Counted(key) \in {nextMiId, nextMiId + 1}
         /\ NumberOf(key) = IF key \in DOMAIN ids THEN ids[key] ELSE nextMiId
         /\ DOMAIN Numbered(key) = DOMAIN ids \cup {key}
         /\ Numbered(key) \in [DOMAIN ids \cup {key} -> 1..(Counted(key) - 1)]
         /\ Numbered(key)[key] = NumberOf(key)
         /\ \A k \in DOMAIN ids : Numbered(key)[k] = ids[k]
  <1>1. ids \in [DOMAIN ids -> 1..(nextMiId - 1)] /\ nextMiId \in Nat \ {0}
    BY DEF TypeOK
  <1>2. NumberOf(key) \in 1..(Counted(key) - 1) /\ Counted(key) \in Nat \ {0}
        /\ Counted(key) \in {nextMiId, nextMiId + 1}
    BY <1>1 DEF NumberOf, Counted
  <1>3. ids \in [DOMAIN ids -> 1..(Counted(key) - 1)]
    BY <1>1, <1>2
  <1>4. /\ DOMAIN Numbered(key) = DOMAIN ids \cup {key}
        /\ Numbered(key) \in [DOMAIN ids \cup {key} -> 1..(Counted(key) - 1)]
        /\ Numbered(key)[key] =
             (IF key \in DOMAIN ids THEN ids[key] ELSE NumberOf(key))
        /\ \A k \in DOMAIN ids : Numbered(key)[k] = ids[k]
    <2> DEFINE S == 1..(Counted(key) - 1)
    <2>1. ids \in [DOMAIN ids -> S] /\ NumberOf(key) \in S
      BY <1>2, <1>3
    <2> HIDE DEF S
    <2>2. /\ DOMAIN Numbered(key) = DOMAIN ids \cup {key}
          /\ Numbered(key) \in [DOMAIN ids \cup {key} -> S]
          /\ Numbered(key)[key] =
               (IF key \in DOMAIN ids THEN ids[key] ELSE NumberOf(key))
          /\ \A k \in DOMAIN ids : Numbered(key)[k] = ids[k]
      BY <2>1 DEF Numbered, Insert
    <2>3. QED
      BY <2>2 DEF S
  <1>5. QED
    BY <1>2, <1>4 DEF NumberOf

LEMMA KeyOfType == \A p \in Points : KeyOf(p) \in KeySet
  BY DEF KeyOf, KeySet, Points

LEMMA KeyOfApart ==
  ASSUME NEW p \in Points, NEW q \in Points, p.target = q.target,
         KeyOf(p) = KeyOf(q)
  PROVE  p = q
  BY DEF KeyOf, Points

LEMMA FormType == \A info \in Info : Form(info) \in Settings
  <1> SUFFICES ASSUME NEW info \in Info PROVE Form(info) \in Settings
    OBVIOUS
  <1>1. info.enabled \in BOOLEAN /\ info.ignore \in IgnoreCounts
        /\ info.cond \in Conditions /\ "" \in Conditions
    BY StoppointsAssumption DEF Info
  <1>2. (IF info.hasCond THEN info.cond ELSE "") \in Conditions
    BY <1>1
  <1>3. QED
    BY <1>1, <1>2 DEF Form, Settings

LEMMA DefaultType == Default \in Settings
  BY StoppointsAssumption DEF Default, Settings

\* The queue after a broadcast, and after the oldest event is taken.
LEMMA BroadcastQueue ==
  ASSUME NEW E, NEW q \in Seq(E), NEW r \in Seq(E)
  PROVE  /\ q \o r \in Seq(E)
         /\ Len(q \o r) = Len(q) + Len(r)
         /\ \A i \in 1..Len(q) : (q \o r)[i] = q[i]
         /\ \A i \in 1..Len(r) : (q \o r)[Len(q) + i] = r[i]
  OBVIOUS

LEMMA TailQueue ==
  ASSUME NEW E, NEW q \in Seq(E), q # <<>>
  PROVE  /\ Tail(q) \in Seq(E) /\ Head(q) \in E /\ Head(q) = q[1]
         /\ Len(q) \in Nat \ {0} /\ Len(Tail(q)) = Len(q) - 1
         /\ \A i \in 1..(Len(q) - 1) : Tail(q)[i] = q[i + 1]
  BY EmptySeq, HeadTailProperties

(***************************************************************************)
(* The type invariant, LLDB's part, the session's and the client's.        *)
(***************************************************************************)

LldbTypeOK ==
  /\ selected \in 1..MaxTargets
  /\ DOMAIN settings \subseteq Points
  /\ settings \in [DOMAIN settings -> Settings]
  /\ live \subseteq DOMAIN settings
  /\ queue \in Seq([kind : Kinds, point : DOMAIN settings])

SessionTypeOK ==
  /\ nextMiId \in Nat \ {0}
  /\ DOMAIN ids \subseteq KeySet
  /\ ids \in [DOMAIN ids -> 1..(nextMiId - 1)]
  /\ DOMAIN records \subseteq 1..(nextMiId - 1)
  /\ records \in [DOMAIN records -> Info]

ClientTypeOK ==
  /\ told \subseteq (1..(nextMiId - 1)) \X DOMAIN settings
  /\ DOMAIN shown \subseteq 1..(nextMiId - 1)
  /\ shown \in [DOMAIN shown -> Settings]
  /\ failed \subseteq DOMAIN settings
  /\ lastStop \in {NoStop} \cup
       [number : Nat, point : DOMAIN settings, alive : BOOLEAN]

LEMMA TypeParts == TypeOK <=> LldbTypeOK /\ SessionTypeOK /\ ClientTypeOK
  BY DEF TypeOK, LldbTypeOK, SessionTypeOK, ClientTypeOK

\* A broadcast, by a stoppoint that may be new.
LEMMA BroadcastType ==
  ASSUME LldbTypeOK, NEW D, DOMAIN settings \subseteq D, NEW events,
         events \in Seq([kind : Kinds, point : D]), Broadcast(events)
  PROVE  queue' \in Seq([kind : Kinds, point : D])
  <1> DEFINE S == [kind : Kinds, point : DOMAIN settings]
             T == [kind : Kinds, point : D]
  <1>1. S \subseteq T /\ queue \in Seq(S) /\ events \in Seq(T)
    BY DEF LldbTypeOK
  <1> HIDE DEF S, T
  <1>2. queue \in Seq(T)
    BY <1>1, SeqMonotonic
  <1>3. queue' \in Seq(T)
    BY <1>1, <1>2 DEF Broadcast
  <1>4. QED
    BY <1>3 DEF T

\* The events the actions broadcast.
LEMMA EventsType ==
  ASSUME NEW D, NEW p \in D, NEW k \in Kinds, NEW l \in Kinds
  PROVE  /\ <<>> \in Seq([kind : Kinds, point : D])
         /\ <<Event(k, p)>> \in Seq([kind : Kinds, point : D])
         /\ <<Event(k, p), Event(l, p)>> \in Seq([kind : Kinds, point : D])
  BY DEF Event

LEMMA TwoSingletons == ASSUME NEW a, NEW b PROVE <<a>> \o <<b>> = <<a, b>>
  <1>1. /\ <<a>> \in Seq({a, b}) /\ <<b>> \in Seq({a, b})
        /\ <<a, b>> \in Seq({a, b})
    OBVIOUS
  <1>2. <<a>> \o <<b>> \in Seq({a, b}) /\ Len(<<a>> \o <<b>>) = Len(<<a, b>>)
    BY <1>1
  <1>3. \A i \in 1..Len(<<a, b>>) : (<<a>> \o <<b>>)[i] = <<a, b>>[i]
    BY <1>1
  <1>4. QED
    BY <1>1, <1>2, <1>3, SeqEqual

LEMMA KindsAre == {"Added", "Changed", "Removed", "Hit"} = Kinds
  BY DEF Kinds

\* A stoppoint LLDB creates.
LEMMA CreatedType ==
  ASSUME LldbTypeOK, NEW p \in Points, NEW s \in Settings, NEW events,
         settings' = Put(settings, p, s), Broadcast(events),
         events \in Seq([kind : Kinds, point : DOMAIN settings \cup {p}]),
         live' \subseteq live \cup {p}, selected' = selected
  PROVE  LldbTypeOK' /\ DOMAIN settings' = DOMAIN settings \cup {p}
  <1>1. /\ DOMAIN settings' = DOMAIN settings \cup {p}
        /\ settings' \in [DOMAIN settings \cup {p} -> Settings]
    BY DEF LldbTypeOK, Put
  <1>2. queue' \in Seq([kind : Kinds, point : DOMAIN settings'])
    BY <1>1, BroadcastType
  <1>3. QED
    BY <1>1, <1>2 DEF LldbTypeOK

LEMMA AlteredType ==
  ASSUME LldbTypeOK, NEW p \in live, NEW s \in Settings, Altered(p, s)
  PROVE  LldbTypeOK' /\ DOMAIN settings' = DOMAIN settings
  <1>1. /\ DOMAIN settings' = DOMAIN settings
        /\ settings' \in [DOMAIN settings -> Settings]
    BY DEF LldbTypeOK, Altered
  <1>2. <<Event("Changed", p)>> \in Seq([kind : Kinds, point : DOMAIN settings])
    BY EventsType, KindsAre DEF LldbTypeOK
  <1>3. queue' \in Seq([kind : Kinds, point : DOMAIN settings'])
    BY <1>1, <1>2, BroadcastType DEF Altered, LldbTypeOK
  <1>4. QED
    BY <1>1, <1>3 DEF LldbTypeOK, Altered

LEMMA DeletedType ==
  ASSUME LldbTypeOK, NEW p \in live, Deleted(p)
  PROVE  LldbTypeOK' /\ DOMAIN settings' = DOMAIN settings
  <1>1. <<Event("Removed", p)>> \in Seq([kind : Kinds, point : DOMAIN settings])
    BY EventsType, KindsAre DEF LldbTypeOK
  <1>2. queue' \in Seq([kind : Kinds, point : DOMAIN settings])
    BY <1>1, BroadcastType DEF Deleted
  <1>3. QED
    BY <1>2 DEF LldbTypeOK, Deleted

\* The settings the commands ask for.
LEMMA SettingsAsked ==
  ASSUME LldbTypeOK, NEW p \in live
  PROVE  /\ \A e \in BOOLEAN : [settings[p] EXCEPT !.enabled = e] \in Settings
         /\ \A i \in IgnoreCounts : [settings[p] EXCEPT !.ignore = i] \in Settings
         /\ \A c \in Conditions : [settings[p] EXCEPT !.cond = c] \in Settings
  <1>1. settings[p] \in Settings
    BY DEF LldbTypeOK
  <1>2. QED
    BY <1>1 DEF Settings

LEMMA CreatedQueue ==
  ASSUME LldbTypeOK, NEW p \in Points, NEW s \in Settings, Created(p, s)
  PROVE  \E events \in Seq([kind : Kinds, point : DOMAIN settings \cup {p}]) :
           Broadcast(events)
  <1>1. CASE s = Default
    <2>1. <<Event("Added", p)>>
            \in Seq([kind : Kinds, point : DOMAIN settings \cup {p}])
      BY EventsType, KindsAre
    <2>2. <<Event("Added", p)>> \o <<>> = <<Event("Added", p)>>
      BY <2>1
    <2>3. QED
      BY <1>1, <2>1, <2>2 DEF Created
  <1>2. CASE s # Default
    <2>1. <<Event("Added", p), Event("Changed", p)>>
            \in Seq([kind : Kinds, point : DOMAIN settings \cup {p}])
      BY EventsType, KindsAre
    <2>2. <<Event("Added", p)>> \o <<Event("Changed", p)>>
            = <<Event("Added", p), Event("Changed", p)>>
      BY TwoSingletons
    <2>3. QED
      BY <1>2, <2>1, <2>2 DEF Created
  <1>3. QED
    BY <1>1, <1>2

LEMMA LldbNextType ==
  ASSUME LldbTypeOK, [Next]_vars
  PROVE  LldbTypeOK' /\ DOMAIN settings \subseteq DOMAIN settings'
  <1>1. CASE BreakInsertFails
    <2>1. PICK p \in Points :
            /\ IsNext(p, "bp") /\ settings' = Put(settings, p, Default)
            /\ Broadcast(<<Event("Added", p), Event("Removed", p)>>)
      BY <1>1 DEF BreakInsertFails
    <2>2. <<Event("Added", p), Event("Removed", p)>>
            \in Seq([kind : Kinds, point : DOMAIN settings \cup {p}])
      BY EventsType, KindsAre
    <2>3. QED
      BY <1>1, <2>1, <2>2, CreatedType, DefaultType DEF BreakInsertFails
  <1>2. CASE BreakInsert
    <2>1. PICK p \in Points, s \in Settings :
            Created(p, s) /\ live' = live \cup {p}
      BY <1>2 DEF BreakInsert
    <2>2. PICK events \in Seq([kind : Kinds, point : DOMAIN settings \cup {p}]) :
            Broadcast(events)
      BY <2>1, CreatedQueue
    <2>3. QED
      BY <1>2, <2>1, <2>2, CreatedType DEF BreakInsert, Created
  <1>3. CASE BreakWatch
    <2>1. PICK p \in Points :
            \/ /\ Created(p, Default) /\ live' = live \cup {p}
               /\ UNCHANGED selected
            \/ p \in live /\ Altered(p, [settings[p] EXCEPT !.enabled = TRUE])
      BY <1>3 DEF BreakWatch
    <2>2. CASE /\ Created(p, Default) /\ live' = live \cup {p}
               /\ UNCHANGED selected
      <3>1. PICK events \in Seq([kind : Kinds, point : DOMAIN settings \cup {p}]) :
              Broadcast(events)
        BY <2>2, CreatedQueue, DefaultType
      <3>2. QED
        BY <2>2, <3>1, CreatedType, DefaultType DEF Created
    <2>3. CASE p \in live /\ Altered(p, [settings[p] EXCEPT !.enabled = TRUE])
      BY <2>3, SettingsAsked, AlteredType
    <2>4. QED
      BY <2>1, <2>2, <2>3
  <1>4. CASE BreakDelete
    BY <1>4, DeletedType DEF BreakDelete
  <1>5. CASE BreakDisable
    BY <1>5, SettingsAsked, AlteredType DEF BreakDisable
  <1>6. CASE BreakEnable
    BY <1>6, SettingsAsked, AlteredType DEF BreakEnable
  <1>7. CASE BreakAfter
    BY <1>7, SettingsAsked, AlteredType DEF BreakAfter
  <1>8. CASE BreakCondition
    BY <1>8, SettingsAsked, AlteredType DEF BreakCondition
  <1>9. CASE ConsoleCreates
    <2>1. PICK p \in Points, s \in Settings :
            /\ settings' = Put(settings, p, s) /\ live' = live \cup {p}
            /\ Broadcast(<<Event("Added", p)>>)
      BY <1>9 DEF ConsoleCreates
    <2>2. <<Event("Added", p)>>
            \in Seq([kind : Kinds, point : DOMAIN settings \cup {p}])
      BY EventsType, KindsAre
    <2>3. QED
      BY <1>9, <2>1, <2>2, CreatedType DEF ConsoleCreates
  <1>10. CASE ConsoleAlters
    BY <1>10, AlteredType DEF ConsoleAlters
  <1>11. CASE LldbDeletes
    BY <1>11, DeletedType DEF LldbDeletes
  <1>12. CASE LldbHits
    <2>1. PICK p \in live : Broadcast(<<Event("Hit", p)>>)
      BY <1>12 DEF LldbHits
    <2>2. <<Event("Hit", p)>> \in Seq([kind : Kinds, point : DOMAIN settings])
      BY EventsType, KindsAre DEF LldbTypeOK
    <2>3. queue' \in Seq([kind : Kinds, point : DOMAIN settings])
      BY <2>1, <2>2, BroadcastType
    <2>4. QED
      BY <1>12, <2>3 DEF LldbHits, LldbTypeOK
  <1>13. CASE HandleEvent
    <2>1. queue' \in Seq([kind : Kinds, point : DOMAIN settings])
      BY <1>13, TailQueue DEF HandleEvent, LldbTypeOK
    <2>2. QED
      BY <1>13, <2>1 DEF HandleEvent, LldbTypeOK
  <1>14. CASE UNCHANGED vars
    BY <1>14 DEF vars, lldb, LldbTypeOK
  <1>15. QED
    BY <1>1, <1>2, <1>3, <1>4, <1>5, <1>6, <1>7, <1>8, <1>9, <1>10, <1>11,
       <1>12, <1>13, <1>14 DEF Next, Command, Lldb

(***************************************************************************)
(* What a step does to the numbers, the records and the client: nothing,   *)
(* number a key, number a stoppoint and put it on record or tell the       *)
(* client of it, or remove a stoppoint's number and record.                *)
(***************************************************************************)

Keep == UNCHANGED <<nextMiId, ids, records, told, shown>>

Number(key) == ids' = Numbered(key) /\ nextMiId' = Counted(key)

Look(key) == Number(key) /\ UNCHANGED <<records, told, shown>>

\* The client is told of p, or of nothing.
TellOrNot(p) ==
  LET n == NumberOf(KeyOf(p)) IN
  /\ told' = told \/ told' = told \cup {<<n, p>>}
  /\ \/ UNCHANGED shown
     \/ /\ told' = told \cup {<<n, p>>}
        /\ \E s \in Settings :
             /\ shown' = Put(shown, n, s)
             /\ s.enabled = settings'[p].enabled \/ Pending("Added", p)'

Give(p) ==
  LET n == NumberOf(KeyOf(p)) IN
  /\ Number(KeyOf(p))
  /\ p \in DOMAIN settings => Busy(p)
  /\ p \in DOMAIN settings'
  /\ \/ UNCHANGED records
     \/ /\ \E info \in Info :
             info.key = KeyOf(p) /\ records' = Insert(records, n, info)
        /\ Busy(p)'
        /\ told' = told \cup {<<n, p>>} \/ Pending("Added", p)'
  /\ TellOrNot(p)
  /\ UNCHANGED told \/ n \in DOMAIN records'

Drop(p) ==
  LET n == NumberOf(KeyOf(p)) IN
  /\ queue # <<>> /\ Head(queue) = Event("Removed", p) /\ queue' = Tail(queue)
  /\ UNCHANGED <<settings, live>>
  /\ n \in DOMAIN records
  /\ nextMiId' = Counted(KeyOf(p))
  /\ records' = Erase(records, n) /\ ids' = Erase(ids, KeyOf(p))
  /\ TellOrNot(p)
  /\ ~Valid(p) => UNCHANGED told

\* The event about p that is handled was pending.
LEMMA HeadBusy ==
  ASSUME LldbTypeOK, queue # <<>>
  PROVE  /\ Head(queue) \in [kind : Kinds, point : DOMAIN settings]
         /\ Head(queue).point \in Points
         /\ Busy(Head(queue).point)
         /\ Head(queue) = Event(Head(queue).kind, Head(queue).point)
  <1>1. Head(queue) \in [kind : Kinds, point : DOMAIN settings]
        /\ Head(queue) = queue[1] /\ 1 \in DOMAIN queue
    <2>1. queue \in Seq([kind : Kinds, point : DOMAIN settings])
      BY DEF LldbTypeOK
    <2>2. /\ Head(queue) \in [kind : Kinds, point : DOMAIN settings]
          /\ Head(queue) = queue[1] /\ Len(queue) \in Nat \ {0}
      BY <2>1, TailQueue
    <2>3. DOMAIN queue = 1..Len(queue)
      BY <2>1, LenProperties
    <2>4. QED
      BY <2>2, <2>3
  <1>2. QED
    BY <1>1 DEF Busy, Quiet, Event, LldbTypeOK

LEMMA HeadIndex ==
  ASSUME LldbTypeOK, queue # <<>>
  PROVE  /\ 1 \in DOMAIN queue /\ Head(queue) = queue[1]
         /\ DOMAIN queue = 1..Len(queue) /\ Len(queue) \in Nat \ {0}
  <1>1. queue \in Seq([kind : Kinds, point : DOMAIN settings])
    BY DEF LldbTypeOK
  <1>2. Head(queue) = queue[1] /\ Len(queue) \in Nat \ {0}
    BY <1>1, TailQueue
  <1>3. DOMAIN queue = 1..Len(queue)
    BY <1>1, LenProperties
  <1>4. QED
    BY <1>2, <1>3

\* The handler takes the oldest event only.
LEMMA TailIndex ==
  ASSUME LldbTypeOK, queue # <<>>, queue' = Tail(queue)
  PROVE  /\ DOMAIN queue' = 1..(Len(queue) - 1)
         /\ \A i \in 1..(Len(queue) - 1) : queue'[i] = queue[i + 1]
  <1>1. queue \in Seq([kind : Kinds, point : DOMAIN settings])
    BY DEF LldbTypeOK
  <1>2. /\ queue' \in Seq([kind : Kinds, point : DOMAIN settings])
        /\ Len(queue) \in Nat \ {0} /\ Len(queue') = Len(queue) - 1
        /\ \A i \in 1..(Len(queue) - 1) : queue'[i] = queue[i + 1]
    BY <1>1, TailQueue
  <1>3. DOMAIN queue' = 1..Len(queue')
    BY <1>2, LenProperties
  <1>4. QED
    BY <1>2, <1>3

LEMMA TailPending ==
  ASSUME LldbTypeOK, queue # <<>>, queue' = Tail(queue), NEW k, NEW p,
         Pending(k, p), Head(queue) # Event(k, p)
  PROVE  Pending(k, p)'
  <1>1. PICK i \in DOMAIN queue : queue[i] = Event(k, p)
    BY DEF Pending
  <1>2. i # 1 /\ i \in 1..Len(queue) /\ Len(queue) \in Nat
    BY <1>1, HeadIndex
  <1>3. i - 1 \in 1..(Len(queue) - 1) /\ (i - 1) + 1 = i
    BY <1>2
  <1>4. i - 1 \in DOMAIN queue' /\ queue'[i - 1] = Event(k, p)
    BY <1>1, <1>3, TailIndex
  <1>5. QED
    BY <1>4 DEF Pending, Event

\* A record made from LLDB's settings.
LEMMA InfoType ==
  ASSUME NEW p \in Points, NEW s \in Settings
  PROVE  LET info == [key |-> KeyOf(p), enabled |-> s.enabled,
                      ignore |-> s.ignore, cond |-> s.cond,
                      hasCond |-> s.cond # ""]
         IN  /\ info \in Info
             /\ info.key = KeyOf(p)
             /\ Form(info) \in Settings
             /\ Form(info).enabled = s.enabled
  <1> DEFINE info == [key |-> KeyOf(p), enabled |-> s.enabled,
                      ignore |-> s.ignore, cond |-> s.cond,
                      hasCond |-> s.cond # ""]
  <1>1. info \in Info
    BY KeyOfType DEF Info, Settings
  <1>2. QED
    BY <1>1, FormType DEF Form

LEMMA RefreshedType ==
  ASSUME SessionTypeOK, LldbTypeOK, NEW n \in DOMAIN records,
         NEW p \in DOMAIN settings
  PROVE  /\ Form(Refreshed(n, p)) \in Settings
         /\ Form(Refreshed(n, p)).enabled = settings[p].enabled
  <1>1. records[n] \in Info /\ settings[p] \in Settings
    BY DEF SessionTypeOK, LldbTypeOK
  <1>2. /\ Refreshed(n, p) \in Info
        /\ Refreshed(n, p).enabled = settings[p].enabled
    BY <1>1 DEF Refreshed, Info, Settings
  <1>3. QED
    BY <1>2, FormType DEF Form

LEMMA RecordedAlready ==
  ASSUME NEW n \in DOMAIN records, NEW info
  PROVE  Insert(records, n, info) = records
  BY DEF Insert

\* A new stoppoint is put on record and the client may be told of it.
LEMMA CreatedBusy ==
  ASSUME TypeOK, NEW p \in Points, NEW s \in Settings, Created(p, s)
  PROVE  Pending("Added", p)' /\ Busy(p)'
  <1>1. PICK events \in Seq([kind : Kinds, point : DOMAIN settings \cup {p}]) :
          /\ queue' = queue \o (<<Event("Added", p)>> \o events)
    <2>1. <<Event("Changed", p)>>
            \in Seq([kind : Kinds, point : DOMAIN settings \cup {p}])
      BY EventsType, KindsAre
    <2>2. <<>> \in Seq([kind : Kinds, point : DOMAIN settings \cup {p}])
      BY EventsType, KindsAre
    <2>3. QED
      BY <2>1, <2>2 DEF Created, Broadcast
  <1>2. <<Event("Added", p)>>
          \in Seq([kind : Kinds, point : DOMAIN settings \cup {p}])
    BY EventsType, KindsAre
  <1>3. queue \in Seq([kind : Kinds, point : DOMAIN settings \cup {p}])
    BY SeqMonotonic DEF TypeOK
  <1>4. /\ Len(queue) + 1 \in DOMAIN queue'
        /\ queue'[Len(queue) + 1] = Event("Added", p)
    BY <1>1, <1>2, <1>3, LenProperties
  <1>5. QED
    BY <1>4 DEF Pending, Busy, Quiet, Event

LEMMA Shapes ==
  ASSUME TypeOK, LldbTypeOK', QueueInv, [Next]_vars
  PROVE  \/ Keep
         \/ \E key \in KeySet : Look(key)
         \/ \E p \in Points : Give(p)
         \/ \E p \in Points : Drop(p)
  <1> LldbTypeOK /\ SessionTypeOK
    BY TypeParts
  <1>1. CASE Lldb \/ BreakInsertFails \/ BreakDelete \/ BreakDisable
             \/ BreakEnable \/ UNCHANGED vars
    BY <1>1 DEF Keep, Lldb, BreakInsertFails, BreakDelete, BreakDisable,
       BreakEnable, ConsoleCreates, ConsoleAlters, LldbDeletes, LldbHits, vars,
       session, client
  <1>2. CASE BreakAfter \/ BreakCondition
    <2>1. PICK n \in DOMAIN records :
            \E info : records' = Insert(records, n, info)
      BY <1>2, Zenon DEF BreakAfter, BreakCondition
    <2>2. records' = records
      BY <2>1, RecordedAlready
    <2>3. QED
      BY <1>2, <2>2 DEF Keep, BreakAfter, BreakCondition, client
  <1>3. CASE BreakInsert
    <2>1. PICK p \in Points, s \in Settings :
            /\ p \notin DOMAIN settings
            /\ Created(p, s)
            /\ LET n == NumberOf(KeyOf(p)) IN
               /\ records' = Insert(records, n,
                    [key |-> KeyOf(p), enabled |-> s.enabled,
                     ignore |-> s.ignore, cond |-> s.cond,
                     hasCond |-> s.cond # ""])
               /\ Tell(n, p, records'[n]) \/ UNCHANGED <<told, shown>>
            /\ ids' = Numbered(KeyOf(p)) /\ nextMiId' = Counted(KeyOf(p))
      BY <1>3, Zenon DEF BreakInsert, IsNext
    <2> DEFINE n == NumberOf(KeyOf(p))
               info == [key |-> KeyOf(p), enabled |-> s.enabled,
                        ignore |-> s.ignore, cond |-> s.cond,
                        hasCond |-> s.cond # ""]
    <2>2. info \in Info /\ info.key = KeyOf(p)
      BY InfoType
    <2>3. Pending("Added", p)' /\ Busy(p)' /\ p \in DOMAIN settings'
      BY <2>1, CreatedBusy DEF Created, Put
    <2>4. n \in DOMAIN records' /\ records'[n] \in Info
      BY <2>1, <2>2 DEF Insert, SessionTypeOK
    <2>5. Form(records'[n]) \in Settings
      BY <2>4, FormType
    <2>6. TellOrNot(p)
      BY <2>1, <2>3, <2>5 DEF TellOrNot, Tell
    <2>7. Give(p)
      BY <2>1, <2>2, <2>3, <2>4, <2>6 DEF Give, Number
    <2>8. QED
      BY <2>7
  <1>4. CASE BreakWatch
    <2>1. PICK p \in Points :
            /\ \/ /\ p \notin DOMAIN settings
                  /\ Created(p, Default)
                  /\ live' = live \cup {p}
               \/ p \in live /\ Altered(p, [settings[p] EXCEPT !.enabled = TRUE])
            /\ LET n == NumberOf(KeyOf(p))
                   s == settings'[p]
               IN  /\ records' = Insert(records, n,
                        [key |-> KeyOf(p), enabled |-> s.enabled,
                         ignore |-> s.ignore, cond |-> s.cond,
                         hasCond |-> s.cond # ""])
                   /\ told' = told \cup {<<n, p>>}
            /\ ids' = Numbered(KeyOf(p)) /\ nextMiId' = Counted(KeyOf(p))
      BY <1>4, Zenon DEF BreakWatch, IsNext
    <2> DEFINE n == NumberOf(KeyOf(p))
               s == settings'[p]
               info == [key |-> KeyOf(p), enabled |-> s.enabled,
                        ignore |-> s.ignore, cond |-> s.cond,
                        hasCond |-> s.cond # ""]
    <2>2. p \in live' /\ p \in DOMAIN settings' /\ s \in Settings
      BY <2>1 DEF Altered, LldbTypeOK
    <2>3. info \in Info /\ info.key = KeyOf(p)
      BY <2>2, InfoType
    <2>4. n \in DOMAIN records'
      BY <2>1 DEF Insert
    <2>5. TellOrNot(p)
      BY <1>4, <2>1 DEF BreakWatch, TellOrNot
    <2>6. Give(p)
      BY <2>1, <2>2, <2>3, <2>4, <2>5 DEF Give, Number, Busy
    <2>7. QED
      BY <2>6
  <1>5. CASE HandleEvent
    <2>0. PICK e : e = Head(queue)
      OBVIOUS
    <2> DEFINE p == e.point  n == NumberOf(KeyOf(p))
    <2>1. /\ queue # <<>> /\ queue' = Tail(queue)
          /\ UNCHANGED <<selected, settings, live>>
          /\ \/ e.kind = "Added" /\ HandleAdded(p)
             \/ e.kind = "Changed" /\ HandleChanged(p)
             \/ e.kind = "Removed" /\ HandleRemoved(p)
             \/ e.kind = "Hit" /\ HandleHit(p)
      BY <1>5, <2>0 DEF HandleEvent
    <2>2. /\ p \in DOMAIN settings /\ p \in Points /\ Busy(p)
          /\ Head(queue) = Event(e.kind, p) /\ settings[p] \in Settings
      BY <2>0, <2>1, HeadBusy DEF LldbTypeOK
    <2>3. KeyOf(p) \in KeySet
      BY <2>2, KeyOfType
    <2>4. ASSUME n \in DOMAIN records, Tell(n, p, Refreshed(n, p))
          PROVE  TellOrNot(p)
      <3>1. /\ Form(Refreshed(n, p)) \in Settings
            /\ Form(Refreshed(n, p)).enabled = settings'[p].enabled
        BY <2>1, <2>2, <2>4, RefreshedType
      <3>2. QED
        BY <2>4, <3>1 DEF Tell, TellOrNot
    <2>5. UNCHANGED client => TellOrNot(p)
      BY DEF client, TellOrNot
    <2>6. CASE UNCHANGED <<session, client>>
      BY <2>6 DEF Keep, session, client
    <2>7. CASE e.kind = "Added" /\ HandleAdded(p) /\ Valid(p)
      <3> DEFINE s == settings[p]
                 new == [key |-> KeyOf(p), enabled |-> s.enabled,
                         ignore |-> s.ignore, cond |-> s.cond,
                         hasCond |-> s.cond # ""]
      <3>1. Number(KeyOf(p))
        BY <2>7 DEF HandleAdded, Number, session
      <3>2. CASE /\ n \in DOMAIN records
                 /\ Tell(n, p, Refreshed(n, p))
                 /\ UNCHANGED records
        BY <2>1, <2>2, <2>4, <3>1, <3>2 DEF Give
      <3>3. CASE /\ n \notin DOMAIN records
                 /\ records' = Insert(records, n, new)
                 /\ Tell(n, p, new)
        <4>1. /\ new \in Info /\ new.key = KeyOf(p)
              /\ Form(new) \in Settings /\ Form(new).enabled = s.enabled
          BY <2>2, InfoType
        <4>2. TellOrNot(p)
          BY <2>1, <3>3, <4>1 DEF Tell, TellOrNot
        <4>3. n \in DOMAIN records'
          BY <3>3 DEF Insert
        <4>4. Busy(p)'
          <5>1. p \in live \/ Pending("Removed", p)
            BY <2>0, <2>1, HeadIndex DEF QueueInv
          <5>2. CASE p \in live
            BY <2>1, <5>2 DEF Busy
          <5>3. CASE Pending("Removed", p)
            <6>1. Head(queue) # Event("Removed", p)
              BY <2>2, <2>7 DEF Event
            <6>2. Pending("Removed", p)'
              BY <2>1, <5>3, <6>1, TailPending, Zenon
            <6>3. QED
              BY <6>2 DEF Pending, Busy, Quiet, Event
          <5>4. QED
            BY <5>1, <5>2, <5>3
        <4>5. QED
          BY <2>1, <2>2, <3>1, <3>3, <4>1, <4>2, <4>3, <4>4 DEF Give, Tell
      <3>4. CASE UNCHANGED <<records, client>>
        BY <2>3, <3>1, <3>4 DEF Look, client
      <3>5. QED
        BY <2>2, <2>7, <3>2, <3>3, <3>4, Zenon DEF HandleAdded, session, client
    <2>8. CASE e.kind = "Changed" /\ HandleChanged(p) /\ Valid(p)
      <3>1. Number(KeyOf(p)) /\ UNCHANGED records
        BY <2>8 DEF HandleChanged, Number, session
      <3>2. CASE n \in DOMAIN records /\ Tell(n, p, Refreshed(n, p))
        BY <2>1, <2>2, <2>4, <3>1, <3>2 DEF Give
      <3>3. CASE UNCHANGED client
        BY <2>3, <3>1, <3>3 DEF Look, client
      <3>4. QED
        BY <2>2, <2>8, <3>2, <3>3 DEF HandleChanged, session
    <2>9. CASE e.kind = "Removed" /\ HandleRemoved(p)
      <3>1. nextMiId' = Counted(KeyOf(p))
        BY <2>9 DEF HandleRemoved
      <3>2. CASE /\ n \in DOMAIN records
                 /\ \/ Valid(p) /\ Tell(n, p, Refreshed(n, p))
                    \/ ~Valid(p) /\ UNCHANGED client
                 /\ records' = Erase(records, n)
                 /\ ids' = Erase(ids, KeyOf(p))
        BY <2>1, <2>2, <2>4, <2>5, <2>9, <3>1, <3>2 DEF Drop, client
      <3>3. CASE /\ n \notin DOMAIN records
                 /\ ids' = Numbered(KeyOf(p))
                 /\ UNCHANGED <<records, client>>
        BY <2>3, <3>1, <3>3 DEF Look, Number, client
      <3>4. QED
        BY <2>9, <3>2, <3>3 DEF HandleRemoved
    <2>10. CASE e.kind = "Hit" /\ HandleHit(p)
      <3>1. CASE UNCHANGED <<session, told, shown, failed>>
        BY <3>1 DEF Keep, session
      <3>2. CASE p.type = "wp"
        <4> DEFINE there == [p EXCEPT !.target = selected] \in live
                   key   == [type |-> "wp", id |-> IF there THEN p.id ELSE NoId]
        <4>1. key \in KeySet
          BY <2>2, <3>2 DEF KeySet, Points, Types
        <4>2. Look(key)
          BY <2>10, <3>2 DEF HandleHit, Look, Number
        <4>3. QED
          BY <4>1, <4>2
      <3>3. QED
        BY <2>10, <3>1, <3>2 DEF HandleHit
    <2>11. QED
      BY <2>1, <2>6, <2>7, <2>8, <2>9, <2>10 DEF HandleAdded, HandleChanged
  <1>6. QED
    BY <1>1, <1>2, <1>3, <1>4, <1>5 DEF Next, Command

(***************************************************************************)
(* What a step does to LLDB's queue.                                       *)
(***************************************************************************)

Stays == UNCHANGED <<queue, live>> /\ DOMAIN settings' = DOMAIN settings

New(p) == p \notin DOMAIN settings /\ p.target = selected

\* Events about p, none of them Removed.
Talk(p) == Seq([kind : Kinds \ {"Removed"}, point : {p}])

Speaks(p) ==
  /\ p \in live \/ New(p)
  /\ live' = live \cup {p} /\ DOMAIN settings' = DOMAIN settings \cup {p}
  /\ \E events \in Talk(p) : queue' = queue \o events

Removes(p) ==
  /\ p \in live /\ live' = live \ {p} /\ DOMAIN settings' = DOMAIN settings
  /\ queue' = queue \o <<Event("Removed", p)>>

Fails(p) ==
  /\ New(p)
  /\ live' = live /\ DOMAIN settings' = DOMAIN settings \cup {p}
  /\ queue' = queue \o <<Event("Added", p), Event("Removed", p)>>

Handles ==
  /\ HandleEvent
  /\ queue # <<>> /\ queue' = Tail(queue)
  /\ UNCHANGED <<live, settings>>

LEMMA TalkKinds == {"Added", "Changed", "Hit"} = Kinds \ {"Removed"}
  BY DEF Kinds

LEMMA TalkType ==
  ASSUME NEW p, NEW k \in Kinds \ {"Removed"}, NEW l \in Kinds \ {"Removed"}
  PROVE  /\ <<>> \in Talk(p)
         /\ <<Event(k, p)>> \in Talk(p)
         /\ <<Event(k, p), Event(l, p)>> \in Talk(p)
  BY DEF Event, Talk

LEMMA AlteredShape ==
  ASSUME LldbTypeOK, NEW p \in live, NEW s, Altered(p, s)
  PROVE  Stays \/ Speaks(p)
  <1>1. DOMAIN settings' = DOMAIN settings /\ live' = live
    BY DEF Altered
  <1>2. CASE queue' = queue
    BY <1>1, <1>2 DEF Stays
  <1>3. CASE Broadcast(<<Event("Changed", p)>>)
    <2>1. <<Event("Changed", p)>> \in Talk(p)
      BY TalkType, TalkKinds
    <2>2. queue' = queue \o <<Event("Changed", p)>>
      BY <1>3 DEF Broadcast
    <2>3. live' = live \cup {p} /\ DOMAIN settings' = DOMAIN settings \cup {p}
      BY <1>1 DEF LldbTypeOK
    <2>4. QED
      BY <2>1, <2>2, <2>3 DEF Speaks
  <1>4. QED
    BY <1>2, <1>3 DEF Altered

LEMMA CreatedShape ==
  ASSUME LldbTypeOK, NEW p, New(p), NEW s, Created(p, s), live' = live \cup {p}
  PROVE  Speaks(p)
  <1>1. DOMAIN settings' = DOMAIN settings \cup {p}
    BY DEF Created, Put
  <1>2. \E events \in Talk(p) : queue' = queue \o events
    <2>1. /\ <<Event("Added", p)>> \in Talk(p)
          /\ <<Event("Added", p), Event("Changed", p)>> \in Talk(p)
      BY TalkType, TalkKinds
    <2>2. <<Event("Added", p)>> \o <<>> = <<Event("Added", p)>>
      BY <2>1 DEF Talk
    <2>3. <<Event("Added", p)>> \o <<Event("Changed", p)>>
            = <<Event("Added", p), Event("Changed", p)>>
      BY TwoSingletons
    <2>4. QED
      BY <2>1, <2>2, <2>3 DEF Created, Broadcast
  <1>3. QED
    BY <1>1, <1>2 DEF Speaks

LEMMA LldbShapes ==
  ASSUME TypeOK, [Next]_vars
  PROVE  /\ selected' = selected
         /\ \/ Stays \/ Handles
            \/ \E p \in Points : Speaks(p) \/ Removes(p) \/ Fails(p)
  <1> LldbTypeOK
    BY TypeParts
  <1> \A p \in live : p \in Points
    BY DEF LldbTypeOK
  <1>1. CASE BreakInsertFails
    <2>1. PICK p \in Points :
            /\ IsNext(p, "bp") /\ settings' = Put(settings, p, Default)
            /\ Broadcast(<<Event("Added", p), Event("Removed", p)>>)
      BY <1>1 DEF BreakInsertFails
    <2>2. Fails(p)
      BY <1>1, <2>1 DEF BreakInsertFails, Fails, New, IsNext, Put, Broadcast
    <2>3. QED
      BY <1>1, <2>2 DEF BreakInsertFails
  <1>2. CASE BreakInsert
    <2>1. PICK p \in Points, s \in Settings :
            IsNext(p, "bp") /\ Created(p, s) /\ live' = live \cup {p}
      BY <1>2 DEF BreakInsert
    <2>2. Speaks(p)
      BY <2>1, CreatedShape DEF IsNext, New
    <2>3. QED
      BY <1>2, <2>2 DEF BreakInsert
  <1>3. CASE BreakWatch
    <2>1. PICK p \in Points :
            \/ /\ IsNext(p, "wp") /\ Created(p, Default) /\ live' = live \cup {p}
               /\ UNCHANGED selected
            \/ p \in live /\ Altered(p, [settings[p] EXCEPT !.enabled = TRUE])
      BY <1>3 DEF BreakWatch
    <2>2. Stays \/ Speaks(p)
      BY <2>1, CreatedShape, AlteredShape DEF IsNext, New
    <2>3. QED
      BY <1>3, <2>1, <2>2 DEF Altered
  <1>4. CASE BreakDelete \/ LldbDeletes
    <2>1. PICK p \in live : Deleted(p)
      BY <1>4 DEF BreakDelete, LldbDeletes
    <2>2. Removes(p)
      BY <2>1 DEF Deleted, Removes, Broadcast
    <2>3. QED
      BY <2>1, <2>2 DEF Deleted
  <1>5. CASE BreakDisable \/ BreakEnable \/ BreakAfter \/ BreakCondition
             \/ ConsoleAlters
    <2>1. PICK p \in live : \E s : Altered(p, s)
      BY <1>5, Zenon DEF BreakDisable, BreakEnable, BreakAfter, BreakCondition,
         ConsoleAlters
    <2>2. QED
      BY <2>1, AlteredShape DEF Altered
  <1>6. CASE ConsoleCreates
    <2>1. PICK p \in Points, s \in Settings :
            /\ New(p)
            /\ settings' = Put(settings, p, s) /\ live' = live \cup {p}
            /\ Broadcast(<<Event("Added", p)>>)
      BY <1>6 DEF ConsoleCreates, IsNext, New
    <2>2. <<Event("Added", p)>> \in Talk(p)
      BY TalkType, TalkKinds
    <2>3. Speaks(p)
      BY <2>1, <2>2 DEF Speaks, Put, Broadcast
    <2>4. QED
      BY <1>6, <2>3 DEF ConsoleCreates
  <1>7. CASE LldbHits
    <2>1. PICK p \in live : Broadcast(<<Event("Hit", p)>>)
      BY <1>7 DEF LldbHits
    <2>2. <<Event("Hit", p)>> \in Talk(p)
      BY TalkType, TalkKinds
    <2>3. live' = live \cup {p} /\ DOMAIN settings' = DOMAIN settings \cup {p}
      BY <1>7, <2>1 DEF LldbHits, LldbTypeOK
    <2>4. Speaks(p)
      BY <2>1, <2>2, <2>3 DEF Speaks, Broadcast
    <2>5. QED
      BY <1>7, <2>4 DEF LldbHits
  <1>8. CASE HandleEvent
    BY <1>8 DEF HandleEvent, Handles
  <1>9. CASE UNCHANGED vars
    BY <1>9 DEF vars, lldb, Stays
  <1>10. QED
    BY <1>1, <1>2, <1>3, <1>4, <1>5, <1>6, <1>7, <1>8, <1>9
       DEF Next, Command, Lldb

\* Where the events of a longer queue are.
LEMMA LongerIndex ==
  ASSUME LldbTypeOK, NEW D, NEW events \in Seq([kind : Kinds, point : D]),
         queue' = queue \o events
  PROVE  /\ DOMAIN queue = 1..Len(queue) /\ Len(queue) \in Nat
         /\ DOMAIN events = 1..Len(events) /\ Len(events) \in Nat
         /\ DOMAIN queue' = 1..(Len(queue) + Len(events))
         /\ \A i \in 1..Len(queue) : queue'[i] = queue[i]
         /\ \A i \in 1..Len(events) : queue'[Len(queue) + i] = events[i]
         /\ \A i \in DOMAIN queue' \ DOMAIN queue :
              /\ i - Len(queue) \in DOMAIN events
              /\ queue'[i] = events[i - Len(queue)]
  <1> DEFINE S == [kind : Kinds, point : DOMAIN settings]
             T == [kind : Kinds, point : D]
             U == [kind : Kinds, point : DOMAIN settings \cup D]
  <1>1. S \subseteq U /\ T \subseteq U /\ queue \in Seq(S) /\ events \in Seq(T)
    BY DEF LldbTypeOK
  <1> HIDE DEF S, T, U
  <1>2. queue \in Seq(U) /\ events \in Seq(U)
    BY <1>1, SeqMonotonic
  <1>3. /\ queue' \in Seq(U) /\ Len(queue') = Len(queue) + Len(events)
        /\ \A i \in 1..Len(queue) : queue'[i] = queue[i]
        /\ \A i \in 1..Len(events) : queue'[Len(queue) + i] = events[i]
    BY <1>2, BroadcastQueue
  <1>4. /\ DOMAIN queue = 1..Len(queue) /\ Len(queue) \in Nat
        /\ DOMAIN events = 1..Len(events) /\ Len(events) \in Nat
        /\ DOMAIN queue' = 1..(Len(queue) + Len(events))
    BY <1>2, <1>3, LenProperties
  <1>5. \A i \in DOMAIN queue' \ DOMAIN queue :
          /\ i - Len(queue) \in DOMAIN events
          /\ queue'[i] = events[i - Len(queue)]
    <2> SUFFICES ASSUME NEW i \in DOMAIN queue' \ DOMAIN queue
                 PROVE  /\ i - Len(queue) \in DOMAIN events
                        /\ queue'[i] = events[i - Len(queue)]
      OBVIOUS
    <2>1. i - Len(queue) \in 1..Len(events) /\ i = Len(queue) + (i - Len(queue))
      BY <1>4
    <2>2. QED
      BY <1>3, <1>4, <2>1
  <1>6. QED
    BY <1>3, <1>4, <1>5

\* An event stays pending until it is handled.
LEMMA PendingStays ==
  ASSUME TypeOK, [Next]_vars, NEW k, NEW p, Pending(k, p)
  PROVE  Pending(k, p)' \/ (Handles /\ Head(queue) = Event(k, p))
  <1> LldbTypeOK
    BY TypeParts
  <1>1. ASSUME NEW D, NEW events \in Seq([kind : Kinds, point : D]),
               queue' = queue \o events
        PROVE  Pending(k, p)'
    <2>1. PICK i \in DOMAIN queue : queue[i] = Event(k, p)
      BY DEF Pending
    <2>2. i \in DOMAIN queue' /\ queue'[i] = queue[i]
      BY <1>1, <2>1, LongerIndex
    <2>3. QED
      BY <2>1, <2>2 DEF Pending, Event
  <1>2. CASE Handles /\ Head(queue) # Event(k, p)
    BY <1>2, TailPending, Zenon DEF Handles
  <1>3. CASE Stays
    BY <1>3 DEF Stays, Pending, Event
  <1>4. ASSUME NEW q \in Points, Speaks(q)
        PROVE  Pending(k, p)'
    <2> DEFINE S == [kind : Kinds \ {"Removed"}, point : {q}]
               T == [kind : Kinds, point : {q}]
    <2>1. PICK events \in Seq(S) : queue' = queue \o events
      BY <1>4 DEF Speaks, Talk
    <2>2. S \subseteq T
      OBVIOUS
    <2> HIDE DEF S, T
    <2>3. events \in Seq(T)
      BY <2>1, <2>2, SeqMonotonic
    <2> USE DEF T
    <2>4. QED
      BY <1>1, <2>1, <2>3
  <1>5. ASSUME NEW q \in Points, Removes(q)
        PROVE  Pending(k, p)'
    <2>1. <<Event("Removed", q)>> \in Seq([kind : Kinds, point : {q}])
      BY EventsType, KindsAre
    <2>2. QED
      BY <1>1, <1>5, <2>1 DEF Removes
  <1>6. ASSUME NEW q \in Points, Fails(q)
        PROVE  Pending(k, p)'
    <2>1. <<Event("Added", q), Event("Removed", q)>>
            \in Seq([kind : Kinds, point : {q}])
      BY EventsType, KindsAre
    <2>2. QED
      BY <1>1, <1>6, <2>1 DEF Fails
  <1>7. QED
    BY <1>2, <1>3, <1>4, <1>5, <1>6, LldbShapes

\* The queue grows by events about one stoppoint.
LEMMA GrownQueue ==
  ASSUME TypeOK, NEW p,
         Speaks(p) \/ Removes(p) \/ Fails(p)
  PROVE  /\ DOMAIN queue \subseteq DOMAIN queue' /\ DOMAIN queue' \subseteq Nat
         /\ \A i \in DOMAIN queue' : \A j \in DOMAIN queue :
              i <= j => i \in DOMAIN queue
         /\ \A i \in DOMAIN queue : queue'[i] = queue[i]
         /\ \A i \in DOMAIN queue' \ DOMAIN queue :
              /\ queue'[i].point = p
              /\ queue'[i].kind = "Removed" =>
                   /\ ~Speaks(p)
                   /\ \A j \in DOMAIN queue' : j <= i
         /\ ~Speaks(p) => Pending("Removed", p)'
  <1> LldbTypeOK
    BY TypeParts
  <1>1. CASE Speaks(p)
    <2> DEFINE S == [kind : Kinds \ {"Removed"}, point : {p}]
               T == [kind : Kinds, point : {p}]
    <2>1. PICK events \in Seq(S) : queue' = queue \o events
      BY <1>1 DEF Speaks, Talk
    <2>2. S \subseteq T
      OBVIOUS
    <2>3. events \in Seq(T)
      <3> HIDE DEF S, T
      <3>1. QED
        BY <2>1, <2>2, SeqMonotonic
    <2>4. \A i \in DOMAIN events : events[i] \in S
      <3> HIDE DEF S, T
      <3>1. QED
        BY <2>1, ElementOfSeq, LenProperties
    <2>5. \A i \in DOMAIN events : events[i].kind # "Removed" /\ events[i].point = p
      BY <2>4
    <2>6. QED
      BY <1>1, <2>1, <2>3, <2>5, LongerIndex
  <1>2. CASE Removes(p)
    <2>1. <<Event("Removed", p)>> \in Seq([kind : Kinds, point : {p}])
      BY EventsType, KindsAre
    <2>2. /\ DOMAIN queue = 1..Len(queue) /\ Len(queue) \in Nat
          /\ DOMAIN queue' = 1..(Len(queue) + 1)
          /\ \A i \in 1..Len(queue) : queue'[i] = queue[i]
          /\ queue'[Len(queue) + 1] = Event("Removed", p)
      <3>1. Len(<<Event("Removed", p)>>) = 1
        OBVIOUS
      <3>2. QED
        BY <1>2, <2>1, <3>1, LongerIndex DEF Removes
    <2>3. Pending("Removed", p)'
      BY <2>2 DEF Pending, Event
    <2>4. \A i \in DOMAIN queue' \ DOMAIN queue : i = Len(queue) + 1
      BY <2>2
    <2>5. /\ queue'[Len(queue) + 1].point = p
          /\ \A j \in DOMAIN queue' : j <= Len(queue) + 1
      BY <2>2 DEF Event
    <2>6. ~Speaks(p)
      BY <1>2 DEF Speaks, Removes
    <2>7. QED
      BY <2>2, <2>3, <2>4, <2>5, <2>6
  <1>3. CASE Fails(p)
    <2>1. <<Event("Added", p), Event("Removed", p)>>
            \in Seq([kind : Kinds, point : {p}])
      BY EventsType, KindsAre
    <2>2. /\ DOMAIN queue = 1..Len(queue) /\ Len(queue) \in Nat
          /\ DOMAIN queue' = 1..(Len(queue) + 2)
          /\ \A i \in 1..Len(queue) : queue'[i] = queue[i]
          /\ queue'[Len(queue) + 1] = Event("Added", p)
          /\ queue'[Len(queue) + 2] = Event("Removed", p)
      <3>1. Len(<<Event("Added", p), Event("Removed", p)>>) = 2
        OBVIOUS
      <3>2. QED
        BY <1>3, <2>1, <3>1, LongerIndex DEF Fails
    <2>3. Pending("Removed", p)'
      BY <2>2 DEF Pending, Event
    <2>4. \A i \in DOMAIN queue' \ DOMAIN queue :
            i = Len(queue) + 1 \/ i = Len(queue) + 2
      BY <2>2
    <2>5. /\ queue'[Len(queue) + 1].point = p
          /\ queue'[Len(queue) + 1].kind # "Removed"
          /\ queue'[Len(queue) + 2].point = p
          /\ \A j \in DOMAIN queue' : j <= Len(queue) + 2
      BY <2>2 DEF Event
    <2>6. ~Speaks(p)
      BY <1>3 DEF Speaks, Fails, New, LldbTypeOK
    <2>7. QED
      BY <2>2, <2>3, <2>4, <2>5, <2>6
  <1>4. QED
    BY <1>1, <1>2, <1>3

\* Every event is about a stoppoint LLDB knows.
LEMMA QueuePoints ==
  ASSUME LldbTypeOK, NEW i \in DOMAIN queue
  PROVE  /\ queue[i].point \in DOMAIN settings /\ i \in Nat
         /\ queue[i] = Event(queue[i].kind, queue[i].point)
  <1>1. queue \in Seq([kind : Kinds, point : DOMAIN settings])
    BY DEF LldbTypeOK
  <1>2. i \in 1..Len(queue)
    BY <1>1, LenProperties
  <1>3. queue[i] \in [kind : Kinds, point : DOMAIN settings]
    BY <1>1, <1>2, ElementOfSeq
  <1>4. QED
    BY <1>2, <1>3 DEF Event

LEMMA NextQueueInv ==
  ASSUME TypeOK, QueueInv, [Next]_vars
  PROVE  QueueInv'
  <1> LldbTypeOK
    BY TypeParts
  <1>1. CASE Stays
    BY <1>1 DEF Stays, QueueInv, Pending, Event
  <1>2. CASE Handles
    <2>1. /\ DOMAIN queue = 1..Len(queue) /\ Len(queue) \in Nat
          /\ DOMAIN queue' = 1..(Len(queue) - 1)
          /\ \A i \in 1..(Len(queue) - 1) : queue'[i] = queue[i + 1]
          /\ 1 \in DOMAIN queue /\ Head(queue) = queue[1]
      BY <1>2, HeadIndex, TailIndex DEF Handles
    <2>2. ASSUME NEW i \in DOMAIN queue', queue'[i].kind = "Removed"
          PROVE  /\ queue'[i].point \notin live'
                 /\ \A j \in DOMAIN queue' :
                      i < j => queue'[j].point # queue'[i].point
      <3>1. i + 1 \in DOMAIN queue /\ queue'[i] = queue[i + 1]
        BY <2>1
      <3>2. \A j \in DOMAIN queue' :
              j + 1 \in DOMAIN queue /\ queue'[j] = queue[j + 1]
              /\ (i < j => i + 1 < j + 1)
        BY <2>1
      <3>3. QED
        BY <1>2, <2>2, <3>1, <3>2 DEF QueueInv, Handles
    <2>3. ASSUME NEW i \in DOMAIN queue', NEW q, q = queue'[i].point
          PROVE  q \in live' \/ Pending("Removed", q)'
      <3>1. i + 1 \in DOMAIN queue /\ q = queue[i + 1].point /\ 1 < i + 1
        BY <2>1, <2>3
      <3>2. q \in live \/ Pending("Removed", q)
        BY <3>1 DEF QueueInv
      <3>3. Head(queue) # Event("Removed", q)
        BY <2>1, <3>1 DEF QueueInv, Event
      <3>4. QED
        BY <1>2, <3>2, <3>3, TailPending, Zenon DEF Handles
    <2>4. QED
      BY <2>2, <2>3 DEF QueueInv, Pending, Event
  <1>3. ASSUME NEW p \in Points, Speaks(p) \/ Removes(p) \/ Fails(p)
        PROVE  QueueInv'
    <2>1. /\ DOMAIN queue \subseteq DOMAIN queue' /\ DOMAIN queue' \subseteq Nat
          /\ \A i \in DOMAIN queue' : \A j \in DOMAIN queue :
               i <= j => i \in DOMAIN queue
          /\ \A i \in DOMAIN queue : queue'[i] = queue[i]
          /\ \A i \in DOMAIN queue' \ DOMAIN queue :
               /\ queue'[i].point = p
               /\ queue'[i].kind = "Removed" =>
                    /\ ~Speaks(p)
                    /\ \A j \in DOMAIN queue' : j <= i
          /\ ~Speaks(p) => Pending("Removed", p)'
      BY <1>3, GrownQueue
    <2>2. /\ Speaks(p) => live' = live \cup {p}
          /\ ~Speaks(p) => p \notin live' /\ live' = live \ {p}
          /\ p \in live \/ p \notin DOMAIN settings
      BY <1>3 DEF Speaks, Removes, Fails, New, LldbTypeOK
    <2>3. \A i \in DOMAIN queue : queue[i].point \in DOMAIN settings
      BY QueuePoints
    <2>4. ASSUME NEW i \in DOMAIN queue', queue'[i].kind = "Removed"
          PROVE  /\ queue'[i].point \notin live'
                 /\ \A j \in DOMAIN queue' :
                      i < j => queue'[j].point # queue'[i].point
      <3>1. CASE i \in DOMAIN queue
        <4>1. queue[i].point \notin live /\ queue[i].point # p
          BY <2>1, <2>2, <2>3, <2>4, <3>1 DEF QueueInv
        <4>2. queue'[i].point \notin live'
          BY <2>1, <2>2, <3>1, <4>1
        <4>3. \A j \in DOMAIN queue' :
                i < j => queue'[j].point # queue'[i].point
          BY <2>1, <2>4, <3>1, <4>1 DEF QueueInv
        <4>4. QED
          BY <4>2, <4>3
      <3>2. CASE i \notin DOMAIN queue
        <4>1. queue'[i].point = p /\ p \notin live'
          BY <2>1, <2>2, <2>4, <3>2
        <4>2. \A j \in DOMAIN queue' : ~(i < j)
          BY <2>1, <2>4, <3>2
        <4>3. QED
          BY <4>1, <4>2
      <3>3. QED
        BY <3>1, <3>2
    <2>5. ASSUME NEW i \in DOMAIN queue', NEW q, q = queue'[i].point
          PROVE  q \in live' \/ Pending("Removed", q)'
      <3>1. CASE q = p
        BY <2>1, <2>2, <3>1
      <3>2. CASE q # p
        <4>1. i \in DOMAIN queue /\ queue[i].point = q
          BY <2>1, <2>5, <3>2
        <4>2. q \in live \/ Pending("Removed", q)
          BY <4>1 DEF QueueInv
        <4>3. ~Handles
          <5>1. SUFFICES ASSUME Handles PROVE FALSE
            OBVIOUS
          <5>2. /\ Len(queue) \in DOMAIN queue
                /\ Len(queue) \notin DOMAIN queue'
            BY <5>1, HeadIndex, TailIndex DEF Handles
          <5>3. QED
            BY <2>1, <5>2
        <4>4. QED
          BY <2>2, <3>2, <4>2, <4>3, PendingStays
      <3>3. QED
        BY <3>1, <3>2
    <2>6. QED
      BY <2>4, <2>5 DEF QueueInv, Pending, Event
  <1>4. QED
    BY <1>1, <1>2, <1>3, LldbShapes

\* Nothing more is said of a stoppoint once it is gone and its events handled.
LEMMA BusyStays ==
  ASSUME TypeOK, [Next]_vars, NEW p \in DOMAIN settings, Busy(p)'
  PROVE  Busy(p)
  <1> LldbTypeOK
    BY TypeParts
  <1>1. CASE Stays
    BY <1>1 DEF Stays, Busy, Quiet
  <1>2. CASE Handles
    <2>1. CASE p \in live'
      BY <1>2, <2>1 DEF Handles, Busy
    <2>2. CASE ~Quiet(p)'
      <3>1. PICK i \in DOMAIN queue' : queue'[i].point = p
        BY <2>2 DEF Quiet
      <3>2. i + 1 \in DOMAIN queue /\ queue'[i] = queue[i + 1]
        BY <1>2, <3>1, HeadIndex, TailIndex DEF Handles
      <3>3. QED
        BY <3>1, <3>2 DEF Busy, Quiet
    <2>3. QED
      BY <2>1, <2>2 DEF Busy
  <1>3. ASSUME NEW q \in Points, Speaks(q) \/ Removes(q) \/ Fails(q)
        PROVE  Busy(p)
    <2>1. CASE p = q
      BY <1>3, <2>1 DEF Speaks, Removes, Fails, New, Busy
    <2>2. CASE p # q
      <3>1. CASE p \in live'
        BY <1>3, <2>2, <3>1 DEF Speaks, Removes, Fails, Busy
      <3>2. CASE ~Quiet(p)'
        <4>1. PICK i \in DOMAIN queue' : queue'[i].point = p
          BY <3>2 DEF Quiet
        <4>2. i \in DOMAIN queue /\ queue[i].point = p
          BY <1>3, <2>2, <4>1, GrownQueue
        <4>3. QED
          BY <4>2 DEF Busy, Quiet
      <3>3. QED
        BY <3>1, <3>2 DEF Busy
    <2>3. QED
      BY <2>1, <2>2
  <1>4. QED
    BY <1>1, <1>2, <1>3, LldbShapes

LEMMA NextOneTarget ==
  ASSUME TypeOK, OneTarget, [Next]_vars
  PROVE  OneTarget'
  BY LldbShapes DEF OneTarget, Stays, Handles, Speaks, Removes, Fails, New, TypeOK

\* A change of settings is broadcast.
LEMMA AlteredSays ==
  ASSUME LldbTypeOK, NEW q \in live, NEW s, Altered(q, s),
         NEW p \in DOMAIN settings
  PROVE  settings'[p] = settings[p] \/ Pending("Changed", p)'
  <1>1. CASE p # q \/ s = settings[q]
    BY <1>1 DEF Altered, LldbTypeOK
  <1>2. CASE p = q /\ s # settings[q]
    <2>1. queue' = queue \o <<Event("Changed", p)>>
      BY <1>2 DEF Altered, Broadcast
    <2>2. <<Event("Changed", p)>> \in Seq([kind : Kinds, point : {p}])
          /\ Len(<<Event("Changed", p)>>) = 1
      BY EventsType, KindsAre
    <2>3. /\ Len(queue) + 1 \in DOMAIN queue'
          /\ queue'[Len(queue) + 1] = Event("Changed", p)
      BY <2>1, <2>2, LongerIndex
    <2>4. QED
      BY <2>3 DEF Pending, Event
  <1>3. QED
    BY <1>1, <1>2

LEMMA SettingsSay ==
  ASSUME TypeOK, [Next]_vars, NEW p \in DOMAIN settings
  PROVE  settings'[p] = settings[p] \/ Pending("Changed", p)'
  <1> LldbTypeOK
    BY TypeParts
  <1>1. ASSUME NEW q, q \notin DOMAIN settings, NEW s,
               settings' = Put(settings, q, s)
        PROVE  settings'[p] = settings[p]
    BY <1>1 DEF Put
  <1>2. CASE BreakInsertFails
    BY <1>1, <1>2, Zenon DEF BreakInsertFails, IsNext
  <1>3. CASE BreakInsert
    BY <1>1, <1>3, Zenon DEF BreakInsert, IsNext, Created
  <1>4. CASE ConsoleCreates
    BY <1>1, <1>4, Zenon DEF ConsoleCreates, IsNext
  <1>5. CASE BreakWatch
    <2>1. \/ \E q \in Points : IsNext(q, "wp") /\ Created(q, Default)
          \/ \E q \in live : \E s : Altered(q, s)
      BY <1>5, Zenon DEF BreakWatch
    <2>2. QED
      BY <1>1, <2>1, AlteredSays, Zenon DEF IsNext, Created
  <1>6. CASE BreakDisable \/ BreakEnable \/ BreakAfter \/ BreakCondition
             \/ ConsoleAlters
    <2>1. PICK q \in live : \E s : Altered(q, s)
      BY <1>6, Zenon DEF BreakDisable, BreakEnable, BreakAfter, BreakCondition,
         ConsoleAlters
    <2>2. QED
      BY <2>1, AlteredSays, Zenon
  <1>7. CASE BreakDelete \/ LldbDeletes \/ LldbHits \/ HandleEvent
    BY <1>7 DEF BreakDelete, LldbDeletes, Deleted, LldbHits, HandleEvent
  <1>8. CASE UNCHANGED vars
    BY <1>8 DEF vars, lldb
  <1>9. QED
    BY <1>2, <1>3, <1>4, <1>5, <1>6, <1>7, <1>8 DEF Next, Command, Lldb

LEMMA SessionNextType ==
  ASSUME TypeOK, LldbTypeOK', QueueInv, [Next]_vars
  PROVE  SessionTypeOK' /\ nextMiId <= nextMiId'
  <1> SessionTypeOK
    BY TypeParts
  <1>1. CASE Keep
    BY <1>1 DEF Keep, SessionTypeOK
  <1>2. ASSUME NEW key \in KeySet, Number(key)
        PROVE  /\ nextMiId' \in Nat \ {0} /\ nextMiId <= nextMiId'
               /\ DOMAIN ids' \subseteq KeySet
               /\ ids' \in [DOMAIN ids' -> 1..(nextMiId' - 1)]
               /\ NumberOf(key) \in 1..(nextMiId' - 1)
               /\ DOMAIN records \subseteq 1..(nextMiId' - 1)
    <2>1. /\ nextMiId' \in Nat \ {0} /\ nextMiId' \in {nextMiId, nextMiId + 1}
          /\ NumberOf(key) \in 1..(nextMiId' - 1)
          /\ DOMAIN ids' = DOMAIN ids \cup {key}
          /\ ids' \in [DOMAIN ids \cup {key} -> 1..(nextMiId' - 1)]
      BY <1>2, NumberFacts, Zenon DEF Number
    <2>2. nextMiId <= nextMiId' /\ DOMAIN records \subseteq 1..(nextMiId' - 1)
      BY <2>1 DEF SessionTypeOK
    <2>3. DOMAIN ids' \subseteq KeySet
      BY <2>1 DEF SessionTypeOK
    <2>4. QED
      BY <2>1, <2>2, <2>3
  <1>3. ASSUME NEW key \in KeySet, Look(key)
        PROVE  SessionTypeOK' /\ nextMiId <= nextMiId'
    BY <1>2, <1>3 DEF Look, SessionTypeOK
  <1>4. ASSUME NEW p \in Points, Give(p)
        PROVE  SessionTypeOK' /\ nextMiId <= nextMiId'
    <2> DEFINE n == NumberOf(KeyOf(p))
    <2>1. KeyOf(p) \in KeySet /\ Number(KeyOf(p))
      BY <1>4, KeyOfType DEF Give
    <2>2. \/ UNCHANGED records
          \/ /\ DOMAIN records' = DOMAIN records \cup {n}
             /\ records' \in [DOMAIN records \cup {n} -> Info]
      <3>1. UNCHANGED records \/ \E info \in Info : records' = Insert(records, n, info)
        BY <1>4 DEF Give
      <3>2. records \in [DOMAIN records -> Info]
        BY DEF SessionTypeOK
      <3>3. ASSUME NEW info \in Info
            PROVE  /\ DOMAIN Insert(records, n, info) = DOMAIN records \cup {n}
                   /\ Insert(records, n, info) \in [DOMAIN records \cup {n} -> Info]
        BY <3>2 DEF Insert
      <3>4. QED
        BY <3>1, <3>3
    <2>3. QED
      BY <1>2, <2>1, <2>2 DEF SessionTypeOK
  <1>5. ASSUME NEW p \in Points, Drop(p)
        PROVE  SessionTypeOK' /\ nextMiId <= nextMiId'
    <2>1. KeyOf(p) \in KeySet
      BY KeyOfType
    <2>2. nextMiId' \in Nat \ {0} /\ nextMiId <= nextMiId'
      <3>1. nextMiId' \in Nat \ {0} /\ nextMiId' \in {nextMiId, nextMiId + 1}
        BY <1>5, <2>1, NumberFacts, Zenon DEF Drop
      <3>2. QED
        BY <3>1 DEF SessionTypeOK
    <2>3. /\ DOMAIN ids' \subseteq DOMAIN ids
          /\ ids' \in [DOMAIN ids' -> 1..(nextMiId - 1)]
          /\ DOMAIN records' \subseteq DOMAIN records
          /\ records' \in [DOMAIN records' -> Info]
      BY <1>5 DEF Drop, Erase, SessionTypeOK
    <2>4. QED
      BY <2>2, <2>3 DEF SessionTypeOK
  <1>6. QED
    BY <1>1, <1>3, <1>4, <1>5, Shapes

\* Only the handler of a hit reports a stop.
LEMMA ReportOrHit ==
  ASSUME [Next]_vars
  PROVE  NoReport \/ UNCHANGED vars \/ (HandleEvent /\ Head(queue).kind = "Hit")
  BY Zenon DEF Next, Command, Lldb, ConsoleCreates, ConsoleAlters, LldbDeletes,
     LldbHits, BreakInsertFails, BreakInsert, BreakWatch, BreakDelete,
     BreakDisable, BreakEnable, BreakAfter, BreakCondition, HandleEvent

LEMMA ClientNextType ==
  ASSUME TypeOK, QueueInv, [Next]_vars, LldbTypeOK', SessionTypeOK',
         nextMiId <= nextMiId', DOMAIN settings \subseteq DOMAIN settings'
  PROVE  ClientTypeOK'
  <1> LldbTypeOK /\ SessionTypeOK /\ ClientTypeOK
    BY TypeParts
  <1>1. /\ told \subseteq (1..(nextMiId' - 1)) \X DOMAIN settings'
        /\ DOMAIN shown \subseteq 1..(nextMiId' - 1)
        /\ shown \in [DOMAIN shown -> Settings]
    BY DEF ClientTypeOK, SessionTypeOK
  <1>2. ASSUME NEW p \in DOMAIN settings', TellOrNot(p),
               NumberOf(KeyOf(p)) \in 1..(nextMiId' - 1)
        PROVE  /\ told' \subseteq (1..(nextMiId' - 1)) \X DOMAIN settings'
               /\ DOMAIN shown' \subseteq 1..(nextMiId' - 1)
               /\ shown' \in [DOMAIN shown' -> Settings]
    <2> DEFINE n == NumberOf(KeyOf(p))
    <2>1. told' \subseteq (1..(nextMiId' - 1)) \X DOMAIN settings'
      BY <1>1, <1>2 DEF TellOrNot
    <2>2. CASE UNCHANGED shown
      BY <1>1, <2>1, <2>2
    <2>3. ASSUME NEW s \in Settings, shown' = Put(shown, n, s)
          PROVE  /\ DOMAIN shown' \subseteq 1..(nextMiId' - 1)
                 /\ shown' \in [DOMAIN shown' -> Settings]
      BY <1>1, <1>2, <2>3 DEF Put
    <2>4. QED
      BY <1>2, <2>1, <2>2, <2>3 DEF TellOrNot
  <1>3. /\ told' \subseteq (1..(nextMiId' - 1)) \X DOMAIN settings'
        /\ DOMAIN shown' \subseteq 1..(nextMiId' - 1)
        /\ shown' \in [DOMAIN shown' -> Settings]
    <2>1. CASE Keep \/ \E key \in KeySet : Look(key)
      BY <1>1, <2>1 DEF Keep, Look
    <2>2. ASSUME NEW p \in Points, Give(p)
          PROVE  p \in DOMAIN settings' /\ TellOrNot(p)
                 /\ NumberOf(KeyOf(p)) \in 1..(nextMiId' - 1)
      BY <2>2, KeyOfType, NumberFacts DEF Give, Number
    <2>3. ASSUME NEW p \in Points, Drop(p)
          PROVE  p \in DOMAIN settings' /\ TellOrNot(p)
                 /\ NumberOf(KeyOf(p)) \in 1..(nextMiId' - 1)
      <3>1. p \in DOMAIN settings
        BY <2>3, HeadBusy DEF Drop, Event
      <3>2. QED
        BY <2>3, <3>1, KeyOfType, NumberFacts DEF Drop
    <2>4. QED
      BY <1>2, <2>1, <2>2, <2>3, Shapes
  <1>4. failed' \subseteq DOMAIN settings'
    <2>1. CASE BreakInsertFails \/ BreakInsert
      <3>1. PICK p \in DOMAIN settings' : failed' \in {failed, failed \cup {p}}
        BY <2>1 DEF BreakInsertFails, BreakInsert, Created, Put, Tell
      <3>2. QED
        BY <3>1 DEF ClientTypeOK
    <2>2. CASE UNCHANGED failed
      BY <2>2 DEF ClientTypeOK
    <2>3. UNCHANGED failed \/ BreakInsertFails \/ BreakInsert
      BY Zenon DEF Next, Command, Lldb, ConsoleCreates, ConsoleAlters, LldbDeletes,
         LldbHits, BreakWatch, BreakDelete, BreakDisable, BreakEnable, BreakAfter,
         BreakCondition, HandleEvent, HandleAdded, HandleChanged, HandleRemoved,
         HandleHit, Tell, client, vars
    <2>4. QED
      BY <2>1, <2>2, <2>3
  <1>5. lastStop' \in {NoStop} \cup
          [number : Nat, point : DOMAIN settings', alive : BOOLEAN]
    <2>1. CASE HandleEvent /\ Head(queue).kind = "Hit"
      <3> DEFINE p == Head(queue).point
      <3>1. HandleHit(p) /\ queue # <<>>
        BY <2>1 DEF HandleEvent
      <3>2. p \in DOMAIN settings' /\ p.id \in Nat
        BY <3>1, HeadBusy DEF Points
      <3>3. CASE lastStop' = [number |-> p.id, point |-> p, alive |-> p \in live]
        BY <3>2, <3>3
      <3>4. ASSUME NEW key \in KeySet,
                   LET n == NumberOf(key) IN
                   lastStop' = [number |-> IF n \in DOMAIN records THEN n ELSE 0,
                                point |-> p, alive |-> p \in live]
            PROVE  lastStop' \in
                     [number : Nat, point : DOMAIN settings', alive : BOOLEAN]
        BY <3>2, <3>4 DEF SessionTypeOK
      <3>5. p.type = "wp" =>
              LET there == [p EXCEPT !.target = selected] \in live
              IN  [type |-> "wp", id |-> IF there THEN p.id ELSE NoId] \in KeySet
        BY <3>1, HeadBusy DEF KeySet, Points, Types
      <3>6. QED
        BY <3>1, <3>3, <3>4, <3>5 DEF HandleHit
    <2>2. CASE NoReport
      BY <2>2 DEF NoReport
    <2>3. CASE UNCHANGED vars
      BY <2>3 DEF vars, ClientTypeOK
    <2>4. NoReport \/ UNCHANGED vars \/ (HandleEvent /\ Head(queue).kind = "Hit")
      BY ReportOrHit
    <2>5. QED
      BY <2>1, <2>2, <2>3, <2>4
  <1>6. QED
    BY <1>3, <1>4, <1>5 DEF ClientTypeOK

LEMMA NextTypeOK ==
  ASSUME TypeOK, QueueInv, [Next]_vars
  PROVE  TypeOK'
  <1>1. LldbTypeOK' /\ DOMAIN settings \subseteq DOMAIN settings'
    BY TypeParts, LldbNextType
  <1>2. SessionTypeOK' /\ nextMiId <= nextMiId'
    BY <1>1, SessionNextType
  <1>3. ClientTypeOK'
    BY <1>1, <1>2, ClientNextType
  <1>4. QED
    BY <1>1, <1>2, <1>3 DEF TypeOK, LldbTypeOK, SessionTypeOK, ClientTypeOK

(***************************************************************************)
(* The numbers are never shared.                                           *)
(***************************************************************************)

NumbersInv ==
  KeysApart /\ ToldApart /\ ToldKept /\ RecordsKeyed /\ NumbersNeverShared

\* The pairs the client was told of are numbers that have been used and
\* stoppoints that have been created.
LEMMA ToldType ==
  ASSUME TypeOK, NEW b \in told
  PROVE  /\ b[1] \in Nat /\ b[1] < nextMiId
         /\ b[2] \in DOMAIN settings /\ b[2] \in Points
         /\ b = <<b[1], b[2]>>
  BY DEF TypeOK

\* The number of a key, old or new, after GetOrCreateMiStoppointId.
Assigned(key) ==
  /\ DOMAIN ids' = DOMAIN ids \cup {key}
  /\ ids'[key] = NumberOf(key)
  /\ \A k \in DOMAIN ids : ids'[k] = ids[k] /\ ids[k] \in Nat /\ ids[k] < nextMiId
  /\ key \in DOMAIN ids => NumberOf(key) = ids[key]
  /\ key \notin DOMAIN ids => NumberOf(key) = nextMiId
  /\ nextMiId \in Nat
  /\ \A n \in DOMAIN records : n \in Nat /\ n < nextMiId

LEMMA NumberStep ==
  ASSUME TypeOK, NEW key \in KeySet, Number(key)
  PROVE  Assigned(key)
  <1>1. /\ DOMAIN ids' = DOMAIN ids \cup {key}
        /\ ids'[key] = NumberOf(key)
        /\ \A k \in DOMAIN ids : ids'[k] = ids[k]
    BY NumberFacts, Zenon DEF Number
  <1>2. /\ \A k \in DOMAIN ids : ids[k] \in 1..(nextMiId - 1)
        /\ \A n \in DOMAIN records : n \in 1..(nextMiId - 1)
        /\ nextMiId \in Nat
    BY DEF TypeOK
  <1>3. QED
    BY <1>1, <1>2 DEF NumberOf, Assigned

\* A stoppoint whose record is removed had a key, a number and an event.
Dropped(p) ==
  LET n == NumberOf(KeyOf(p)) IN
  /\ KeyOf(p) \in DOMAIN ids /\ n = ids[KeyOf(p)]
  /\ DOMAIN ids' = DOMAIN ids \ {KeyOf(p)}
  /\ \A k \in DOMAIN ids' : ids'[k] = ids[k]
  /\ DOMAIN records' = DOMAIN records \ {n}
  /\ \A m \in DOMAIN records' : records'[m] = records[m]
  /\ p \in DOMAIN settings /\ Busy(p)
  /\ told' \subseteq told \cup {<<n, p>>}

LEMMA DropStep ==
  ASSUME TypeOK, NEW p \in Points, Drop(p)
  PROVE  Dropped(p)
  <1>1. KeyOf(p) \in DOMAIN ids /\ NumberOf(KeyOf(p)) = ids[KeyOf(p)]
    BY DEF Drop, NumberOf, TypeOK
  <1>2. p \in DOMAIN settings /\ Busy(p)
    BY HeadBusy, TypeParts DEF Drop, Event
  <1>3. QED
    BY <1>1, <1>2 DEF Drop, Erase, Dropped, TellOrNot

\* A record that is made is the one of its key's number.
Given(p) ==
  LET n == NumberOf(KeyOf(p)) IN
  /\ DOMAIN records \subseteq DOMAIN records'
  /\ DOMAIN records' \subseteq DOMAIN records \cup {n}
  /\ \A m \in DOMAIN records : records'[m] = records[m]
  /\ n \in DOMAIN records' /\ n \notin DOMAIN records =>
       /\ records'[n].key = KeyOf(p) /\ Busy(p)'
       /\ <<n, p>> \in told' \/ Pending("Added", p)'
  /\ told' \subseteq told \cup {<<n, p>>}

LEMMA GiveStep ==
  ASSUME TypeOK, NEW p \in Points, Give(p)
  PROVE  KeyOf(p) \in KeySet /\ Assigned(KeyOf(p)) /\ Given(p)
  <1>1. KeyOf(p) \in KeySet
    BY KeyOfType
  <1>2. Assigned(KeyOf(p))
    BY <1>1, NumberStep DEF Give
  <1>3. Given(p)
    BY DEF Give, Given, Insert, TellOrNot
  <1>4. QED
    BY <1>1, <1>2, <1>3

LEMMA NextKeysApart ==
  ASSUME TypeOK, LldbTypeOK', QueueInv, NumbersInv, [Next]_vars
  PROVE  KeysApart'
  <1>1. CASE Keep
    BY <1>1 DEF Keep, NumbersInv, KeysApart
  <1>2. ASSUME NEW key, Assigned(key)
        PROVE  KeysApart'
    BY <1>2 DEF NumbersInv, KeysApart, Assigned
  <1>3. ASSUME NEW p, Dropped(p)
        PROVE  KeysApart'
    BY <1>3 DEF NumbersInv, KeysApart, Dropped
  <1>4. QED
    BY <1>1, <1>2, <1>3, Shapes, NumberStep, GiveStep, DropStep DEF Look

LEMMA NextToldApart ==
  ASSUME TypeOK, LldbTypeOK', QueueInv, NumbersInv, KeysApart', [Next]_vars
  PROVE  ToldApart'
  <1>1. CASE Keep
    BY <1>1 DEF Keep, NumbersInv, ToldApart
  <1>2. ASSUME NEW key, Assigned(key), NEW b \in told,
               NEW k \in DOMAIN ids', ids'[k] = b[1]
        PROVE  k = KeyOf(b[2])
    BY <1>2, ToldType DEF NumbersInv, ToldApart, Assigned
  <1>3. ASSUME NEW key \in KeySet, Look(key)
        PROVE  ToldApart'
    BY <1>2, <1>3, NumberStep DEF Look, ToldApart
  <1>4. ASSUME NEW p \in Points, Give(p)
        PROVE  ToldApart'
    <2> DEFINE n == NumberOf(KeyOf(p))
    <2>1. Assigned(KeyOf(p)) /\ Given(p)
      BY <1>4, GiveStep
    <2>2. \A k \in DOMAIN ids' : ids'[k] = n => k = KeyOf(p)
      BY <2>1 DEF KeysApart, Assigned
    <2>3. \A b \in told : \A k \in DOMAIN ids' : ids'[k] = b[1] => k = KeyOf(b[2])
      BY <1>2, <2>1
    <2>4. QED
      BY <2>1, <2>2, <2>3 DEF ToldApart, Given
  <1>5. ASSUME NEW p \in Points, Drop(p)
        PROVE  ToldApart'
    <2> DEFINE n == NumberOf(KeyOf(p))
    <2>1. Dropped(p)
      BY <1>5, DropStep
    <2>2. \A k \in DOMAIN ids' : ids'[k] # n
      BY <2>1 DEF NumbersInv, KeysApart, Dropped
    <2>3. \A b \in told : \A k \in DOMAIN ids' : ids'[k] = b[1] => k = KeyOf(b[2])
      BY <2>1 DEF NumbersInv, ToldApart, Dropped
    <2>4. QED
      BY <2>1, <2>2, <2>3 DEF ToldApart, Dropped
  <1>6. QED
    BY <1>1, <1>3, <1>4, <1>5, Shapes

\* When the Removed event of a stoppoint has been handled, it is gone.
LEMMA DropEnds ==
  ASSUME TypeOK, QueueInv, NEW p, Drop(p)
  PROVE  ~Busy(p)'
  <1> LldbTypeOK
    BY TypeParts
  <1>1. /\ 1 \in DOMAIN queue /\ queue[1] = Event("Removed", p)
        /\ Len(queue) \in Nat /\ DOMAIN queue = 1..Len(queue)
        /\ DOMAIN queue' = 1..(Len(queue) - 1)
        /\ \A i \in DOMAIN queue' : queue'[i] = queue[i + 1]
    BY HeadIndex, TailIndex DEF Drop
  <1>2. p \notin live /\ \A j \in DOMAIN queue : 1 < j => queue[j].point # p
    BY <1>1 DEF QueueInv, Event
  <1>3. p \notin live'
    BY <1>2 DEF Drop
  <1>4. Quiet(p)'
    BY <1>1, <1>2 DEF Quiet
  <1>5. QED
    BY <1>3, <1>4 DEF Busy

LEMMA OneKey ==
  ASSUME TypeOK, OneTarget, NEW p \in DOMAIN settings, NEW q \in DOMAIN settings,
         KeyOf(p) = KeyOf(q)
  PROVE  p = q
  BY KeyOfApart DEF TypeOK, OneTarget

LEMMA NextToldKept ==
  ASSUME TypeOK, TypeOK', OneTarget, OneTarget', QueueInv, NumbersInv, [Next]_vars
  PROVE  ToldKept'
  <1> LldbTypeOK'
    BY DEF TypeOK, LldbTypeOK
  <1>1. ASSUME NEW b \in told, Busy(b[2])'
        PROVE  /\ KeyOf(b[2]) \in DOMAIN ids
               /\ ids[KeyOf(b[2])] = b[1]
               /\ b[1] \in DOMAIN records
    BY <1>1, ToldType, BusyStays DEF NumbersInv, ToldKept
  <1>2. CASE Keep
    BY <1>1, <1>2 DEF Keep, ToldKept
  <1>3. ASSUME NEW key \in KeySet, Look(key)
        PROVE  ToldKept'
    <2>1. Assigned(key)
      BY <1>3, NumberStep DEF Look
    <2>2. QED
      BY <1>1, <1>3, <2>1 DEF Look, Assigned, ToldKept
  <1>4. ASSUME NEW p \in Points, Give(p)
        PROVE  ToldKept'
    <2> DEFINE n == NumberOf(KeyOf(p))
    <2>1. Assigned(KeyOf(p)) /\ Given(p)
      BY <1>4, GiveStep
    <2>2. ASSUME NEW b \in told, Busy(b[2])'
          PROVE  /\ KeyOf(b[2]) \in DOMAIN ids'
                 /\ ids'[KeyOf(b[2])] = b[1]
                 /\ b[1] \in DOMAIN records'
      BY <1>1, <2>1, <2>2 DEF Assigned, Given
    <2>3. /\ KeyOf(p) \in DOMAIN ids' /\ ids'[KeyOf(p)] = n
          /\ UNCHANGED told \/ n \in DOMAIN records'
      BY <1>4, <2>1 DEF Assigned, Give
    <2>4. told' \subseteq told \cup {<<n, p>>}
      BY <2>1 DEF Given
    <2>5. SUFFICES ASSUME NEW b \in told', Busy(b[2])'
                   PROVE  /\ KeyOf(b[2]) \in DOMAIN ids'
                          /\ ids'[KeyOf(b[2])] = b[1]
                          /\ b[1] \in DOMAIN records'
      BY DEF ToldKept, Busy, Quiet
    <2>6. CASE b \in told
      BY <2>2, <2>5, <2>6
    <2>7. CASE b \notin told
      BY <2>3, <2>4, <2>5, <2>7
    <2>8. QED
      BY <2>6, <2>7
  <1>5. ASSUME NEW p \in Points, Drop(p)
        PROVE  ToldKept'
    <2> DEFINE n == NumberOf(KeyOf(p))
    <2>1. Dropped(p) /\ ~Busy(p)'
      BY <1>5, DropStep, DropEnds
    <2>2. ASSUME NEW b \in told, Busy(b[2])'
          PROVE  /\ KeyOf(b[2]) \in DOMAIN ids'
                 /\ ids'[KeyOf(b[2])] = b[1]
                 /\ b[1] \in DOMAIN records'
      <3>1. /\ KeyOf(b[2]) \in DOMAIN ids
            /\ ids[KeyOf(b[2])] = b[1]
            /\ b[1] \in DOMAIN records
        BY <1>1, <2>2
      <3>2. b[2] # p /\ b[2] \in DOMAIN settings
        BY <2>1, <2>2, ToldType
      <3>3. KeyOf(b[2]) # KeyOf(p)
        BY <2>1, <3>2, OneKey DEF Dropped
      <3>4. b[1] # n
        BY <2>1, <3>1, <3>3 DEF Dropped, NumbersInv, KeysApart
      <3>5. QED
        BY <2>1, <3>1, <3>3, <3>4 DEF Dropped
    <2>3. SUFFICES ASSUME NEW b \in told', Busy(b[2])'
                   PROVE  /\ KeyOf(b[2]) \in DOMAIN ids'
                          /\ ids'[KeyOf(b[2])] = b[1]
                          /\ b[1] \in DOMAIN records'
      BY DEF ToldKept, Busy, Quiet
    <2>4. b \in told
      BY <2>1, <2>3 DEF Dropped
    <2>5. QED
      BY <2>2, <2>3, <2>4
  <1>6. QED
    BY <1>2, <1>3, <1>4, <1>5, Shapes

LEMMA NextRecordsKeyed ==
  ASSUME TypeOK, LldbTypeOK', QueueInv, NumbersInv, [Next]_vars
  PROVE  RecordsKeyed'
  <1>1. CASE Keep
    BY <1>1 DEF Keep, NumbersInv, RecordsKeyed
  <1>2. ASSUME NEW key \in KeySet, Look(key)
        PROVE  RecordsKeyed'
    <2>1. Assigned(key)
      BY <1>2, NumberStep DEF Look
    <2>2. QED
      BY <1>2, <2>1 DEF Look, Assigned, NumbersInv, RecordsKeyed
  <1>3. ASSUME NEW p \in Points, Give(p)
        PROVE  RecordsKeyed'
    <2>1. Assigned(KeyOf(p)) /\ Given(p)
      BY <1>3, GiveStep
    <2>2. QED
      BY <2>1 DEF Assigned, Given, NumbersInv, RecordsKeyed
  <1>4. ASSUME NEW p \in Points, Drop(p)
        PROVE  RecordsKeyed'
    <2>1. Dropped(p)
      BY <1>4, DropStep
    <2>2. QED
      BY <2>1 DEF Dropped, NumbersInv, RecordsKeyed
  <1>5. QED
    BY <1>1, <1>2, <1>3, <1>4, Shapes

\* A pair the client is told of agrees with those it knows.
LEMMA TellAgrees ==
  ASSUME TypeOK, OneTarget, NumbersInv, NEW p \in Points,
         p \in DOMAIN settings => Busy(p),
         p.target = 1, NEW c \in told
  PROVE  c[1] = NumberOf(KeyOf(p)) <=> c[2] = p
  <1>1. c[1] \in Nat /\ c[1] < nextMiId /\ c[2] \in DOMAIN settings /\ c[2] \in Points
    BY ToldType
  <1>2. c[2].target = 1
    BY <1>1 DEF OneTarget
  <1>3. ASSUME c[1] = NumberOf(KeyOf(p))
        PROVE  c[2] = p
    <2>1. KeyOf(p) \in DOMAIN ids
      BY <1>1, <1>3 DEF NumberOf, TypeOK
    <2>2. KeyOf(p) = KeyOf(c[2])
      BY <1>3, <2>1 DEF NumberOf, NumbersInv, ToldApart
    <2>3. QED
      BY <1>1, <1>2, <2>2, KeyOfApart
  <1>4. ASSUME c[2] = p
        PROVE  c[1] = NumberOf(KeyOf(p))
    BY <1>1, <1>4 DEF NumbersInv, ToldKept, NumberOf
  <1>5. QED
    BY <1>3, <1>4

LEMMA NextNumbersNeverShared ==
  ASSUME TypeOK, TypeOK', OneTarget, OneTarget', QueueInv, NumbersInv, [Next]_vars
  PROVE  NumbersNeverShared'
  <1> LldbTypeOK'
    BY DEF TypeOK, LldbTypeOK
  <1>1. CASE Keep \/ \E key \in KeySet : Look(key)
    BY <1>1 DEF Keep, Look, NumbersInv, NumbersNeverShared
  <1>2. ASSUME NEW p \in Points, Give(p) \/ Drop(p)
        PROVE  NumbersNeverShared'
    <2> DEFINE n == NumberOf(KeyOf(p))
    <2>1. told' \subseteq told \cup {<<n, p>>}
      BY <1>2, GiveStep, DropStep DEF Given, Dropped
    <2>2. p.target = 1 /\ (p \in DOMAIN settings => Busy(p))
      BY <1>2, DropStep DEF Give, Dropped, OneTarget
    <2>3. \A c \in told : c[1] = n <=> c[2] = p
      BY <2>2, TellAgrees
    <2>4. \A b, c \in told : b[1] = c[1] <=> b[2] = c[2]
      BY DEF NumbersInv, NumbersNeverShared
    <2>5. QED
      BY <2>1, <2>3, <2>4 DEF NumbersNeverShared
  <1>3. QED
    BY <1>1, <1>2, Shapes

(***************************************************************************)
(* The records follow LLDB.                                                *)
(***************************************************************************)

\* A stoppoint LLDB creates is announced.
LEMMA NewAdded ==
  ASSUME TypeOK, [Next]_vars, NEW p \in DOMAIN settings', p \notin DOMAIN settings
  PROVE  Pending("Added", p)'
  <1> LldbTypeOK
    BY TypeParts
  <1>1. ASSUME NEW q \in Points, NEW k \in Kinds, NEW s,
               settings' = Put(settings, q, s),
               Broadcast(<<Event("Added", q), Event(k, q)>>)
               \/ Broadcast(<<Event("Added", q)>>)
        PROVE  Pending("Added", p)'
    <2>1. p = q
      BY <1>1 DEF Put
    <2>2. /\ <<Event("Added", p)>> \in Seq([kind : Kinds, point : {p}])
          /\ <<Event("Added", p), Event(k, p)>>
               \in Seq([kind : Kinds, point : {p}])
      BY EventsType, KindsAre
    <2>3. /\ Len(queue) + 1 \in DOMAIN queue'
          /\ queue'[Len(queue) + 1] = Event("Added", p)
      <3>1. CASE Broadcast(<<Event("Added", q)>>)
        BY <2>1, <2>2, <3>1, LongerIndex DEF Broadcast
      <3>2. CASE Broadcast(<<Event("Added", q), Event(k, q)>>)
        BY <2>1, <2>2, <3>2, LongerIndex DEF Broadcast
      <3>3. QED
        BY <1>1, <3>1, <3>2
    <2>4. QED
      BY <2>3 DEF Pending, Event
  <1>2. CASE BreakInsertFails
    BY <1>1, <1>2, KindsAre DEF BreakInsertFails
  <1>3. CASE ConsoleCreates
    BY <1>1, <1>3, KindsAre DEF ConsoleCreates
  <1>4. ASSUME NEW q \in Points, NEW s \in Settings, Created(q, s)
        PROVE  Pending("Added", p)'
    <2>1. p = q
      BY <1>4 DEF Created, Put
    <2>2. QED
      BY <1>4, <2>1, CreatedBusy
  <1>5. CASE BreakInsert
    BY <1>4, <1>5 DEF BreakInsert
  <1>6. CASE BreakWatch
    <2>1. \/ \E q \in Points : Created(q, Default)
          \/ \E q \in live : \E s : Altered(q, s)
      BY <1>6, Zenon DEF BreakWatch
    <2>2. QED
      BY <1>4, <2>1, DefaultType DEF Altered
  <1>7. CASE BreakDisable \/ BreakEnable \/ BreakAfter \/ BreakCondition
             \/ ConsoleAlters
    <2>1. PICK q \in live : \E s : Altered(q, s)
      BY <1>7, Zenon DEF BreakDisable, BreakEnable, BreakAfter, BreakCondition,
         ConsoleAlters
    <2>2. QED
      BY <2>1 DEF Altered
  <1>8. CASE BreakDelete \/ LldbDeletes \/ LldbHits \/ HandleEvent
             \/ UNCHANGED vars
    BY <1>8 DEF BreakDelete, LldbDeletes, Deleted, LldbHits, HandleEvent, vars,
       lldb
  <1>9. QED
    BY <1>2, <1>3, <1>5, <1>6, <1>7, <1>8 DEF Next, Command, Lldb

\* What HandleEventStoppointAdded leaves behind.
LEMMA AddedDone ==
  ASSUME TypeOK, NEW p, HandleEvent, Head(queue) = Event("Added", p), Valid(p)
  PROVE  LET n == NumberOf(KeyOf(p)) IN
         /\ Assigned(KeyOf(p))
         /\ \/ /\ n \in DOMAIN records' /\ <<n, p>> \in told'
               /\ n \in DOMAIN shown'
               /\ shown'[n].enabled = settings'[p].enabled
            \/ n \notin DOMAIN records' /\ n > CntMax
  <1> DEFINE n == NumberOf(KeyOf(p))
             s == settings[p]
             new == [key |-> KeyOf(p), enabled |-> s.enabled,
                     ignore |-> s.ignore, cond |-> s.cond,
                     hasCond |-> s.cond # ""]
  <1> LldbTypeOK /\ SessionTypeOK
    BY TypeParts
  <1>1. /\ HandleAdded(p) /\ queue # <<>> /\ settings' = settings
    BY DEF HandleEvent, Event
  <1>2. p \in DOMAIN settings /\ p \in Points /\ s \in Settings
    BY <1>1, HeadBusy DEF Event, LldbTypeOK
  <1>3. Number(KeyOf(p)) /\ KeyOf(p) \in KeySet
    BY <1>1, <1>2, KeyOfType DEF HandleAdded, Number
  <1>4. Assigned(KeyOf(p))
    BY <1>3, NumberStep
  <1>5. CASE n \in DOMAIN records /\ Tell(n, p, Refreshed(n, p)) /\ UNCHANGED records
    BY <1>1, <1>2, <1>4, <1>5, RefreshedType DEF Tell, Put
  <1>6. CASE records' = Insert(records, n, new) /\ Tell(n, p, new)
    <2>1. n \in DOMAIN records'
      BY <1>6 DEF Insert
    <2>2. Form(new).enabled = settings'[p].enabled
      BY <1>1 DEF Form
    <2>3. QED
      BY <1>4, <1>6, <2>1, <2>2 DEF Tell, Put
  <1>7. CASE n \notin DOMAIN records /\ n > CntMax /\ UNCHANGED records
    BY <1>4, <1>7
  <1>8. QED
    BY <1>1, <1>5, <1>6, <1>7, Zenon DEF HandleAdded

\* What the first half of HandleEventStoppointCmn does for a live stoppoint.
LEMMA ChangedDone ==
  ASSUME TypeOK, NEW p, HandleEvent, Head(queue) = Event("Changed", p), Valid(p),
         NumberOf(KeyOf(p)) \in DOMAIN records
  PROVE  LET n == NumberOf(KeyOf(p)) IN
         n \in DOMAIN shown' /\ shown'[n].enabled = settings'[p].enabled
  <1> DEFINE n == NumberOf(KeyOf(p))
  <1> LldbTypeOK /\ SessionTypeOK
    BY TypeParts
  <1>1. /\ HandleChanged(p) /\ queue # <<>> /\ settings' = settings
    BY DEF HandleEvent, Event
  <1>2. p \in DOMAIN settings
    BY <1>1, HeadBusy DEF Event, LldbTypeOK
  <1>3. Tell(n, p, Refreshed(n, p))
    BY <1>1 DEF HandleChanged
  <1>4. QED
    BY <1>1, <1>2, <1>3, RefreshedType DEF Tell, Put

LEMMA RemovedDone ==
  ASSUME TypeOK, NEW p, HandleEvent, Head(queue) = Event("Removed", p)
  PROVE  NumberOf(KeyOf(p)) \notin DOMAIN records'
  <1>1. HandleRemoved(p)
    BY DEF HandleEvent, Event
  <1>2. QED
    BY <1>1 DEF HandleRemoved, Erase

\* A number that is out of bounds stays so.
LEMMA NumberGrows ==
  ASSUME TypeOK, TypeOK', OneTarget, QueueInv, [Next]_vars,
         NEW p \in live, p \in live', NumberOf(KeyOf(p)) > CntMax
  PROVE  (NumberOf(KeyOf(p)) > CntMax)'
  <1> LldbTypeOK'
    BY DEF TypeOK, LldbTypeOK
  <1> SessionTypeOK /\ SessionTypeOK' /\ CntMax \in Nat
    BY TypeParts, Zenon, StoppointsAssumption DEF TypeOK, SessionTypeOK
  <1>1. nextMiId <= nextMiId'
    BY SessionNextType
  <1>2. CASE Keep
    BY <1>2 DEF Keep, NumberOf
  <1>3. ASSUME NEW key, Assigned(key)
        PROVE  (NumberOf(KeyOf(p)) > CntMax)'
    BY <1>1, <1>3 DEF Assigned, NumberOf, SessionTypeOK
  <1>4. ASSUME NEW q \in Points, Drop(q)
        PROVE  (NumberOf(KeyOf(p)) > CntMax)'
    <2>1. Dropped(q) /\ p # q
      BY <1>4, DropStep, DropEnds DEF Busy
    <2>2. KeyOf(p) # KeyOf(q)
      BY <2>1, OneKey DEF Dropped, TypeOK
    <2>3. QED
      BY <1>1, <2>1, <2>2 DEF Dropped, NumberOf, SessionTypeOK
  <1>5. QED
    BY <1>2, <1>3, <1>4, Shapes, NumberStep, GiveStep DEF Look

\* The record of a live stoppoint stays.
LEMMA RecordStays ==
  ASSUME TypeOK, TypeOK', OneTarget, QueueInv, NumbersInv, [Next]_vars,
         NEW p \in live, p \in live', KeyOf(p) \in DOMAIN ids,
         ids[KeyOf(p)] \in DOMAIN records
  PROVE  KeyOf(p) \in DOMAIN ids' /\ ids'[KeyOf(p)] \in DOMAIN records'
  <1> LldbTypeOK'
    BY DEF TypeOK, LldbTypeOK
  <1>1. CASE Keep
    BY <1>1 DEF Keep
  <1>2. ASSUME NEW key \in KeySet, Look(key)
        PROVE  KeyOf(p) \in DOMAIN ids' /\ ids'[KeyOf(p)] \in DOMAIN records'
    BY <1>2, NumberStep DEF Look, Assigned
  <1>3. ASSUME NEW q \in Points, Give(q)
        PROVE  KeyOf(p) \in DOMAIN ids' /\ ids'[KeyOf(p)] \in DOMAIN records'
    BY <1>3, GiveStep DEF Given, Assigned
  <1>4. ASSUME NEW q \in Points, Drop(q)
        PROVE  KeyOf(p) \in DOMAIN ids' /\ ids'[KeyOf(p)] \in DOMAIN records'
    <2>1. Dropped(q) /\ p # q
      BY <1>4, DropStep, DropEnds DEF Busy
    <2>2. KeyOf(p) # KeyOf(q)
      BY <2>1, OneKey DEF Dropped, TypeOK
    <2>3. QED
      BY <2>1, <2>2 DEF Dropped, NumbersInv, KeysApart
  <1>5. QED
    BY <1>1, <1>2, <1>3, <1>4, Shapes

LEMMA LiveOrNew ==
  ASSUME TypeOK, [Next]_vars, NEW p \in live', p \notin live
  PROVE  p \in DOMAIN settings' /\ p \notin DOMAIN settings
  BY LldbShapes DEF Stays, Handles, Speaks, Removes, Fails, New

\* A stoppoint on record is live or its Removed event is pending.
LEMMA TrackedStays ==
  ASSUME TypeOK, [Next]_vars, NEW p \in DOMAIN settings,
         p \in live \/ Pending("Removed", p),
         ~(Handles /\ Head(queue) = Event("Removed", p))
  PROVE  p \in live' \/ Pending("Removed", p)'
  <1>1. CASE Pending("Removed", p)
    BY <1>1, PendingStays
  <1>2. CASE p \in live
    <2>1. CASE Stays \/ Handles
      BY <1>2, <2>1 DEF Stays, Handles
    <2>2. ASSUME NEW q \in Points, Speaks(q) \/ Removes(q) \/ Fails(q)
          PROVE  p \in live' \/ Pending("Removed", p)'
      <3>1. CASE p = q
        BY <1>2, <2>2, <3>1, GrownQueue DEF Speaks
      <3>2. CASE p # q
        BY <1>2, <2>2, <3>2 DEF Speaks, Removes, Fails
      <3>3. QED
        BY <3>1, <3>2
    <2>3. QED
      BY <2>1, <2>2, LldbShapes
  <1>3. QED
    BY <1>1, <1>2

LEMMA NextRecordsTrackLldb ==
  ASSUME TypeOK, TypeOK', OneTarget, QueueInv, QueueInv', NumbersInv,
         NumbersInv', RecordsTrackLldb, [Next]_vars
  PROVE  RecordsTrackLldb'
  <1> LldbTypeOK'
    BY DEF TypeOK, LldbTypeOK
  <1>1. ASSUME NEW p \in live'
        PROVE  \/ Pending("Added", p)'
               \/ (NumberOf(KeyOf(p)) > CntMax)'
               \/ KeyOf(p) \in DOMAIN ids' /\ ids'[KeyOf(p)] \in DOMAIN records'
    <2>1. CASE p \notin live
      BY <2>1, LiveOrNew, NewAdded
    <2>2. CASE p \in live
      <3>1. \/ Pending("Added", p)
            \/ NumberOf(KeyOf(p)) > CntMax
            \/ KeyOf(p) \in DOMAIN ids /\ ids[KeyOf(p)] \in DOMAIN records
        BY <2>2 DEF RecordsTrackLldb
      <3>2. CASE Handles /\ Head(queue) = Event("Added", p)
        <4>1. Valid(p)
          BY <2>2 DEF Valid
        <4>2. /\ Assigned(KeyOf(p))
              /\ \/ NumberOf(KeyOf(p)) \in DOMAIN records'
                 \/ NumberOf(KeyOf(p)) > CntMax
          BY <3>2, <4>1, AddedDone DEF Handles
        <4>3. QED
          BY <4>2 DEF Assigned, NumberOf
      <3>3. QED
        BY <2>2, <3>1, <3>2, PendingStays, NumberGrows, RecordStays
    <2>3. QED
      BY <2>1, <2>2
  <1>2. ASSUME NEW n \in DOMAIN records'
        PROVE  \E p \in DOMAIN settings' :
                 /\ KeyOf(p) = records'[n].key
                 /\ p \in live' \/ Pending("Removed", p)'
    <2>1. CASE n \in DOMAIN records /\ records'[n] = records[n]
      <3>1. PICK p \in DOMAIN settings :
              KeyOf(p) = records[n].key /\ (p \in live \/ Pending("Removed", p))
        BY <2>1 DEF RecordsTrackLldb
      <3>2. ids[KeyOf(p)] = n /\ KeyOf(p) \in DOMAIN ids
        BY <2>1, <3>1 DEF NumbersInv, RecordsKeyed
      <3>3. ~(Handles /\ Head(queue) = Event("Removed", p))
        BY <1>2, <3>2, RemovedDone DEF Handles, NumberOf
      <3>4. p \in live' \/ Pending("Removed", p)'
        BY <3>1, <3>3, TrackedStays
      <3>5. p \in DOMAIN settings'
        BY LldbNextType, TypeParts
      <3>6. QED
        BY <2>1, <3>1, <3>4, <3>5
    <2>2. ASSUME NEW p \in Points, Give(p), n = NumberOf(KeyOf(p)),
                 n \notin DOMAIN records
          PROVE  \E q \in DOMAIN settings' :
                   /\ KeyOf(q) = records'[n].key
                   /\ q \in live' \/ Pending("Removed", q)'
      <3>1. records'[n].key = KeyOf(p) /\ Busy(p)' /\ p \in DOMAIN settings'
        BY <1>2, <2>2, GiveStep DEF Given, Give
      <3>2. p \in live' \/ Pending("Removed", p)'
        BY <3>1 DEF Busy, Quiet, QueueInv, Pending, Event
      <3>3. QED
        BY <3>1, <3>2
    <2>3. \/ n \in DOMAIN records /\ records'[n] = records[n]
          \/ \E p \in Points : /\ Give(p) /\ n = NumberOf(KeyOf(p))
                               /\ n \notin DOMAIN records
      BY <1>2, Shapes, GiveStep, DropStep DEF Keep, Look, Given, Dropped
    <2>4. QED
      BY <2>1, <2>2, <2>3
  <1>3. QED
    BY <1>1, <1>2 DEF RecordsTrackLldb, Pending, Event

(***************************************************************************)
(* What the client was told of the records, and shown.                     *)
(***************************************************************************)

LEMMA ToldGrows ==
  ASSUME TypeOK, LldbTypeOK', QueueInv, [Next]_vars
  PROVE  told \subseteq told'
  BY Shapes DEF Keep, Look, Give, Drop, TellOrNot

LEMMA NextRecordsTold ==
  ASSUME TypeOK, TypeOK', OneTarget, OneTarget', QueueInv, NumbersInv,
         NumbersInv', RecordsTold, [Next]_vars
  PROVE  RecordsTold'
  <1> LldbTypeOK'
    BY DEF TypeOK, LldbTypeOK
  <1> SUFFICES ASSUME NEW p \in DOMAIN settings', p.type \in HandleOutlives,
                      KeyOf(p) \in DOMAIN ids', ids'[KeyOf(p)] \in DOMAIN records'
               PROVE  Pending("Added", p)' \/ <<ids'[KeyOf(p)], p>> \in told'
    BY DEF RecordsTold, Pending, Event
  <1> DEFINE n == NumberOf(KeyOf(p))
  <1>1. CASE p \notin DOMAIN settings
    BY <1>1, NewAdded
  <1>2. CASE /\ p \in DOMAIN settings /\ KeyOf(p) \in DOMAIN ids
             /\ ids'[KeyOf(p)] = ids[KeyOf(p)]
             /\ ids[KeyOf(p)] \in DOMAIN records
    <2>1. Pending("Added", p) \/ <<ids[KeyOf(p)], p>> \in told
      BY <1>2 DEF RecordsTold
    <2>2. CASE Handles /\ Head(queue) = Event("Added", p)
      <3>1. /\ Assigned(KeyOf(p))
            /\ \/ <<n, p>> \in told'
               \/ n \notin DOMAIN records'
        BY <2>2, AddedDone DEF Handles, Valid
      <3>2. n = ids[KeyOf(p)]
        BY <1>2 DEF NumberOf
      <3>3. QED
        BY <1>2, <3>1, <3>2
    <2>3. QED
      BY <1>2, <2>1, <2>2, PendingStays, ToldGrows
  <1>3. CASE Keep
    BY <1>1, <1>2, <1>3 DEF Keep
  <1>4. ASSUME NEW key \in KeySet, Look(key)
        PROVE  Pending("Added", p)' \/ <<ids'[KeyOf(p)], p>> \in told'
    <2>1. Assigned(key) /\ records' = records
      BY <1>4, NumberStep DEF Look
    <2>2. KeyOf(p) \in DOMAIN ids
      BY <2>1 DEF Assigned
    <2>3. QED
      BY <1>1, <1>2, <2>1, <2>2 DEF Assigned
  <1>5. ASSUME NEW q \in Points, Give(q)
        PROVE  Pending("Added", p)' \/ <<ids'[KeyOf(p)], p>> \in told'
    <2> DEFINE m == NumberOf(KeyOf(q))
    <2>1. Assigned(KeyOf(q)) /\ Given(q) /\ q \in DOMAIN settings'
      BY <1>5, GiveStep DEF Give
    <2>2. CASE ids'[KeyOf(p)] \in DOMAIN records
      <3>1. KeyOf(p) \in DOMAIN ids
        BY <2>1, <2>2 DEF Assigned
      <3>2. QED
        BY <1>1, <1>2, <2>1, <2>2, <3>1 DEF Assigned
    <2>3. CASE ids'[KeyOf(p)] \notin DOMAIN records
      <3>1. ids'[KeyOf(p)] = m /\ ids'[KeyOf(q)] = m /\ KeyOf(q) \in DOMAIN ids'
        BY <2>1, <2>3 DEF Given, Assigned
      <3>2. KeyOf(p) = KeyOf(q)
        BY <3>1 DEF NumbersInv, KeysApart
      <3>3. p = q
        BY <2>1, <3>2, KeyOfApart DEF TypeOK, OneTarget
      <3>4. QED
        BY <2>1, <2>3, <3>1, <3>3 DEF Given
    <2>4. QED
      BY <2>2, <2>3
  <1>6. ASSUME NEW q \in Points, Drop(q)
        PROVE  Pending("Added", p)' \/ <<ids'[KeyOf(p)], p>> \in told'
    BY <1>1, <1>2, <1>6, DropStep DEF Dropped
  <1>7. QED
    BY <1>3, <1>4, <1>5, <1>6, Shapes

LEMMA NextShownTold ==
  ASSUME TypeOK, LldbTypeOK', QueueInv, ShownTold, [Next]_vars
  PROVE  ShownTold'
  <1>1. CASE Keep \/ \E key \in KeySet : Look(key)
    BY <1>1 DEF Keep, Look, ShownTold
  <1>2. ASSUME NEW p \in Points, TellOrNot(p)
        PROVE  ShownTold'
    <2>1. told \subseteq told'
      BY <1>2 DEF TellOrNot
    <2>2. \/ UNCHANGED shown
          \/ /\ <<NumberOf(KeyOf(p)), p>> \in told'
             /\ DOMAIN shown' = DOMAIN shown \cup {NumberOf(KeyOf(p))}
      BY <1>2 DEF TellOrNot, Put
    <2>3. QED
      BY <2>1, <2>2 DEF ShownTold
  <1>3. QED
    BY <1>1, <1>2, Shapes DEF Give, Drop

LEMMA NextEnabledInv ==
  ASSUME TypeOK, TypeOK', OneTarget, QueueInv, NumbersInv, NumbersInv',
         ShownTold, EnabledInv, [Next]_vars
  PROVE  EnabledInv'
  <1> LldbTypeOK'
    BY DEF TypeOK, LldbTypeOK
  <1> SUFFICES ASSUME NEW b \in told', b[2] \in live', b[1] \in DOMAIN shown'
               PROVE  \/ Pending("Added", b[2])' \/ Pending("Changed", b[2])'
                      \/ shown'[b[1]].enabled = settings'[b[2]].enabled
    BY DEF EnabledInv, Pending, Event
  <1>1. b = <<b[1], b[2]>>
    BY DEF TypeOK
  <1>2. ASSUME NEW p \in Points, TellOrNot(p), shown' # shown,
               b[1] = NumberOf(KeyOf(p))
        PROVE  \/ Pending("Added", b[2])'
               \/ shown'[b[1]].enabled = settings'[b[2]].enabled
    <2>1. PICK s \in Settings :
            /\ <<b[1], p>> \in told'
            /\ shown' = Put(shown, b[1], s)
            /\ s.enabled = settings'[p].enabled \/ Pending("Added", p)'
      BY <1>2 DEF TellOrNot
    <2>2. b[2] = p
      BY <2>1 DEF NumbersInv, NumbersNeverShared
    <2>3. QED
      BY <2>1, <2>2 DEF Put
  <1>3. CASE /\ b[1] \in DOMAIN shown
             /\ shown'[b[1]] = shown[b[1]]
    <2>1. b \in told
      <3>1. PICK c \in told : c[1] = b[1]
        BY <1>3 DEF ShownTold
      <3>2. c \in told' /\ c = <<c[1], c[2]>>
        BY <3>1, ToldGrows, ToldType
      <3>3. c[2] = b[2]
        BY <3>1, <3>2 DEF NumbersInv, NumbersNeverShared
      <3>4. QED
        BY <1>1, <3>1, <3>2, <3>3
    <2>2. b[2] \in DOMAIN settings /\ b[2] \in live
      BY <2>1, ToldType, LiveOrNew
    <2>3. /\ KeyOf(b[2]) \in DOMAIN ids /\ ids[KeyOf(b[2])] = b[1]
          /\ b[1] \in DOMAIN records
      BY <2>1, <2>2 DEF NumbersInv, ToldKept, Busy
    <2>4. NumberOf(KeyOf(b[2])) = b[1] /\ Valid(b[2])
      BY <2>2, <2>3 DEF NumberOf, Valid
    <2>5. CASE Handles /\ Head(queue) = Event("Added", b[2])
      <3>1. \/ shown'[b[1]].enabled = settings'[b[2]].enabled
            \/ b[1] \notin DOMAIN records'
        BY <2>4, <2>5, AddedDone DEF Handles
      <3>2. b[1] \in DOMAIN records'
        BY <2>2, <2>3, RecordStays, ToldGrows DEF NumbersInv, ToldKept, Busy
      <3>3. QED
        BY <3>1, <3>2
    <2>6. CASE Handles /\ Head(queue) = Event("Changed", b[2])
      BY <2>3, <2>4, <2>6, ChangedDone DEF Handles
    <2>7. \/ Pending("Added", b[2]) \/ Pending("Changed", b[2])
          \/ shown[b[1]].enabled = settings[b[2]].enabled
      BY <1>3, <2>1, <2>2 DEF EnabledInv
    <2>8. settings'[b[2]] = settings[b[2]] \/ Pending("Changed", b[2])'
      BY <2>2, SettingsSay
    <2>9. QED
      BY <1>3, <2>5, <2>6, <2>7, <2>8, PendingStays
  <1>4. CASE UNCHANGED shown
    BY <1>3, <1>4
  <1>5. ASSUME NEW p \in Points, TellOrNot(p)
        PROVE  \/ Pending("Added", b[2])' \/ Pending("Changed", b[2])'
               \/ shown'[b[1]].enabled = settings'[b[2]].enabled
    <2>1. CASE b[1] # NumberOf(KeyOf(p)) /\ shown' # shown
      <3>1. b[1] \in DOMAIN shown /\ shown'[b[1]] = shown[b[1]]
        BY <1>5, <2>1 DEF TellOrNot, Put
      <3>2. QED
        BY <1>3, <3>1
    <2>2. QED
      BY <1>2, <1>4, <1>5, <2>1
  <1>6. QED
    BY <1>4, <1>5, Shapes DEF Keep, Look, Give, Drop

LEMMA NextWatchHitNamed ==
  ASSUME TypeOK, OneTarget, NumbersInv, WatchHitNamed, [Next]_vars
  PROVE  WatchHitNamed'
  <1>1. CASE NoReport \/ UNCHANGED vars
    BY <1>1 DEF NoReport, vars, client, WatchHitNamed
  <1>2. CASE HandleEvent /\ Head(queue).kind = "Hit"
    <2>1. PICK p : p = Head(queue).point
      OBVIOUS
    <2>2. HandleHit(p) /\ queue # <<>> /\ told' = told
      BY <1>2, <2>1 DEF HandleEvent, HandleHit
    <2>3. p \in Points /\ p \in DOMAIN settings
      BY <2>1, <2>2, HeadBusy, TypeParts
    <2>4. CASE p.type = "bp"
      <3>1. lastStop'.point.type = "bp"
        BY <2>2, <2>4 DEF HandleHit
      <3>2. QED
        BY <3>1 DEF WatchHitNamed
    <2>5. CASE p.type = "wp" /\ p \in live
      <3>1. [p EXCEPT !.target = selected] = p
        BY <2>3 DEF OneTarget, Points
      <3>2. [type |-> "wp", id |-> p.id] = KeyOf(p)
        BY <2>5 DEF KeyOf
      <3>3. lastStop' = [number |-> IF NumberOf(KeyOf(p)) \in DOMAIN records
                                    THEN NumberOf(KeyOf(p)) ELSE 0,
                         point |-> p, alive |-> p \in live]
        BY <2>2, <2>5, <3>1, <3>2, Zenon DEF HandleHit
      <3>4. ASSUME NEW b \in told, b[2] = p
            PROVE  b[1] = lastStop'.number
        BY <2>5, <3>3, <3>4 DEF NumbersInv, ToldKept, Busy, NumberOf
      <3>5. QED
        BY <2>2, <3>3, <3>4 DEF WatchHitNamed
    <2>6. CASE p.type = "wp" /\ p \notin live
      <3>1. PICK n : lastStop' = [number |-> n, point |-> p, alive |-> p \in live]
        BY <2>2, Zenon DEF HandleHit
      <3>2. QED
        BY <2>6, <3>1 DEF WatchHitNamed
    <2>7. QED
      BY <2>3, <2>4, <2>5, <2>6 DEF Points, Types
  <1>3. NoReport \/ UNCHANGED vars \/ (HandleEvent /\ Head(queue).kind = "Hit")
    BY ReportOrHit
  <1>4. QED
    BY <1>1, <1>2, <1>3

(***************************************************************************)
(* The theorems.                                                           *)
(***************************************************************************)

LEMMA NextIInv == IInv /\ [Next]_vars => IInv'
  <1> SUFFICES ASSUME IInv, [Next]_vars PROVE IInv'
    OBVIOUS
  <1>1. TypeOK /\ OneTarget /\ QueueInv /\ NumbersInv
    BY DEF IInv, NumbersInv
  <1>2. TypeOK' /\ OneTarget' /\ QueueInv'
    BY <1>1, NextTypeOK, NextOneTarget, NextQueueInv
  <1>3. LldbTypeOK'
    BY <1>2 DEF TypeOK, LldbTypeOK
  <1>4. NumbersInv'
    BY <1>1, <1>2, <1>3, NextKeysApart, NextToldApart, NextToldKept,
       NextRecordsKeyed, NextNumbersNeverShared DEF NumbersInv
  <1>5. RecordsTrackLldb' /\ RecordsTold'
    BY <1>1, <1>2, <1>4, NextRecordsTrackLldb, NextRecordsTold DEF IInv
  <1>6. ShownTold' /\ EnabledInv' /\ WatchHitNamed'
    BY <1>1, <1>2, <1>3, <1>4, NextShownTold, NextEnabledInv, NextWatchHitNamed
       DEF IInv
  <1>7. QED
    BY <1>2, <1>4, <1>5, <1>6 DEF IInv, NumbersInv

\* The inductive invariant holds in every reachable state.
THEOREM SpecIInv == Spec => []IInv
  BY InitIInv, NextIInv, PTL DEF Spec

\* Every value stays in its type: LLDB's queue holds events of stoppoints it
\* created, every number in a map, on record or in the client's hands is one
\* GetOrCreateMiStoppointId has handed out.
THEOREM StoppointsTypeOK == Spec => []TypeOK
  <1>1. IInv => TypeOK
    BY DEF IInv
  <1>2. QED
    BY <1>1, SpecIInv, PTL

\* A number the client was told names one stoppoint, and a stoppoint has one
\* number, in a session with one target: whatever order the break-* commands,
\* LLDB's own creations and deletions, and the handlers of its events come in.
THEOREM NumbersAreNeverShared == Spec => []NumbersNeverShared
  <1>1. IInv => NumbersNeverShared
    BY DEF IInv
  <1>2. QED
    BY <1>1, SpecIInv, PTL

\* The records follow LLDB: there is one for every live stoppoint whose Added
\* event has been handled, until the numbers run out, and the record of a deleted
\* one waits for its Removed event.
THEOREM RecordsFollowLldb == Spec => []RecordsTrackLldb
  <1>1. IInv => RecordsTrackLldb
    BY DEF IInv
  <1>2. QED
    BY <1>1, SpecIInv, PTL

\* When no event about a live stoppoint is pending, the client has last been shown
\* the enabled state LLDB has, although the record keeps the old one.
THEOREM EnabledIsReported == Spec => []EnabledReported
  <1>1. EnabledInv => EnabledReported
    BY DEF EnabledInv, EnabledReported, Pending, Quiet, Event
  <1>2. IInv => EnabledReported
    BY <1>1 DEF IInv
  <1>3. QED
    BY <1>2, SpecIInv, PTL

\* The stop at a live watchpoint is reported under the number the client knows,
\* looked up again after whatever came between the hit and its handling.
THEOREM WatchHitIsNamed == Spec => []WatchHitNamed
  <1>1. IInv => WatchHitNamed
    BY DEF IInv
  <1>2. QED
    BY <1>1, SpecIInv, PTL

(***************************************************************************)
(* The numbers of a session with one target implement StoppointNumbers.    *)
(***************************************************************************)

Open == DOMAIN records \cap {b[1] : b \in told}

\* A stoppoint on record whose Removed event is reported has been announced.
LEMMA DropTold ==
  ASSUME IInv, NEW p \in Points, Drop(p)
  PROVE  told' = told
  <1> TypeOK /\ QueueInv /\ LldbTypeOK
    BY TypeParts DEF IInv
  <1> DEFINE n == NumberOf(KeyOf(p))
  <1>1. Dropped(p)
    BY DropStep
  <1>2. CASE ~Valid(p)
    BY <1>2 DEF Drop
  <1>3. CASE Valid(p)
    <2>1. /\ 1 \in DOMAIN queue /\ queue[1] = Event("Removed", p)
          /\ \A i \in DOMAIN queue : i = 1 \/ 1 < i
      BY HeadIndex DEF Drop
    <2>2. p \notin live /\ ~Pending("Added", p)
      BY <2>1 DEF QueueInv, Pending, Event
    <2>3. p.type \in HandleOutlives
      BY <1>3, <2>2 DEF Valid
    <2>4. <<n, p>> \in told
      BY <1>1, <2>2, <2>3 DEF IInv, RecordsTold, Dropped, Drop
    <2>5. QED
      BY <2>4 DEF Drop, TellOrNot
  <1>4. QED
    BY <1>2, <1>3

LEMMA NumbersStep ==
  IInv /\ IInv' /\ [Next]_vars => [Numbers!Next]_<<told, Open>>
  <1> SUFFICES ASSUME IInv, IInv', [Next]_vars
               PROVE  Numbers!Next \/ (UNCHANGED told /\ Open' = Open)
    BY DEF Open
  <1> TypeOK /\ TypeOK' /\ OneTarget /\ OneTarget' /\ QueueInv /\ NumbersInv
    BY DEF IInv, NumbersInv
  <1> LldbTypeOK'
    BY DEF TypeOK, LldbTypeOK
  <1>1. CASE Keep \/ \E key \in KeySet : Look(key)
    BY <1>1 DEF Keep, Look, Open
  <1>2. ASSUME NEW p \in Points, Give(p)
        PROVE  Numbers!Next \/ (UNCHANGED told /\ Open' = Open)
    <2> DEFINE n == NumberOf(KeyOf(p))
    <2>1. Given(p)
      BY <1>2, GiveStep
    <2>2. p.target = 1 /\ (p \in DOMAIN settings => Busy(p))
      BY <1>2 DEF Give, OneTarget
    <2>3. \A c \in told : c[1] = n <=> c[2] = p
      BY <2>2, TellAgrees
    <2>4. CASE told' = told
      <3>1. ASSUME NEW c \in told, c[1] = n
            PROVE  n \in DOMAIN records
        BY <2>2, <2>3, <3>1, ToldType DEF NumbersInv, ToldKept
      <3>2. Open' = Open
        BY <2>1, <2>4, <3>1 DEF Open, Given
      <3>3. QED
        BY <2>4, <3>2
    <2>5. CASE told' # told
      <3>1. /\ told' = told \cup {<<n, p>>} /\ <<n, p>> \notin told
            /\ n \in DOMAIN records'
        BY <1>2, <2>5 DEF Give, TellOrNot
      <3>2. \A c \in told : c[1] # n /\ c[2] # p
        BY <2>3, <3>1, ToldType
      <3>3. Open' = Open \cup {n}
        BY <2>1, <3>1 DEF Open, Given
      <3>4. Numbers!Announce
        BY <3>1, <3>2, <3>3 DEF Numbers!Announce, Open
      <3>5. QED
        BY <3>4 DEF Numbers!Next
    <2>6. QED
      BY <2>4, <2>5
  <1>3. ASSUME NEW p \in Points, Drop(p)
        PROVE  Numbers!Next \/ (UNCHANGED told /\ Open' = Open)
    <2> DEFINE n == NumberOf(KeyOf(p))
    <2>1. told' = told /\ Dropped(p)
      BY <1>3, DropTold, DropStep
    <2>2. Open' = Open \ {n}
      BY <2>1 DEF Open, Dropped
    <2>3. CASE n \in Open
      BY <2>1, <2>2, <2>3 DEF Numbers!Next, Numbers!Retire, Open
    <2>4. CASE n \notin Open
      BY <2>1, <2>2, <2>4
    <2>5. QED
      BY <2>3, <2>4
  <1>4. QED
    BY <1>1, <1>2, <1>3, Shapes

\* The numbers the client is told, and the records behind them, implement the
\* abstract StoppointNumbers: each step announces one stoppoint under a number
\* never used before, retires one, or changes neither.
THEOREM NumbersRefine == Spec => NumbersKept
  <1>1. Init => Numbers!Init
    BY DEF Init, Numbers!Init
  <1>2. IInv /\ IInv' /\ [Next]_vars => [Numbers!Next]_<<told, Open>>
    BY NumbersStep
  <1>3. QED
    BY <1>1, <1>2, SpecIInv, PTL DEF Spec, NumbersKept, Numbers!Spec, Open

(***************************************************************************)
(* What a failed break-insert leaves behind.                               *)
(***************************************************************************)

\* A breakpoint whose break-insert failed is past the limit if it lives, or has no
\* record; a live one keeps its number as long as it lives.
FailedInv ==
  /\ FailedInsertUnseen
  /\ \A p \in failed :
       /\ p.type = "bp"
       /\ p \in live => KeyOf(p) \in DOMAIN ids /\ ids[KeyOf(p)] > CntMax

\* Whom a step puts on record or tells of: a new stoppoint, a watchpoint, or one
\* whose event has a handle that is valid.
Says(p) ==
  LET n == NumberOf(KeyOf(p)) IN
  /\ p \in DOMAIN settings'
  /\ p \notin DOMAIN settings \/ p.type = "wp" \/ Valid(p)
  /\ told' \subseteq told \cup {<<n, p>>}
  /\ \/ DOMAIN records' \subseteq DOMAIN records
     \/ /\ Number(KeyOf(p))
        /\ DOMAIN records' \subseteq DOMAIN records \cup {n}

LEMMA SaysOf ==
  ASSUME TypeOK, LldbTypeOK', [Next]_vars
  PROVE  \/ told' = told /\ DOMAIN records' \subseteq DOMAIN records
         \/ \E p \in Points : Says(p)
  <1> LldbTypeOK
    BY TypeParts
  <1>1. CASE Lldb \/ BreakInsertFails \/ BreakDelete \/ BreakDisable
             \/ BreakEnable \/ UNCHANGED vars
    BY <1>1 DEF Lldb, BreakInsertFails, BreakDelete, BreakDisable,
       BreakEnable, ConsoleCreates, ConsoleAlters, LldbDeletes, LldbHits, vars,
       session, client
  <1>2. CASE BreakAfter \/ BreakCondition
    <2>1. PICK n \in DOMAIN records :
            \E info : records' = Insert(records, n, info)
      BY <1>2, Zenon DEF BreakAfter, BreakCondition
    <2>2. records' = records
      BY <2>1, RecordedAlready
    <2>3. QED
      BY <1>2, <2>2 DEF BreakAfter, BreakCondition, client
  <1>3. CASE BreakInsert
    <2>1. PICK p \in Points, s \in Settings :
            /\ p \notin DOMAIN settings
            /\ Created(p, s)
            /\ LET n == NumberOf(KeyOf(p)) IN
               /\ \E info : records' = Insert(records, n, info)
               /\ (\E info : Tell(n, p, info)) \/ UNCHANGED <<told, shown>>
            /\ ids' = Numbered(KeyOf(p)) /\ nextMiId' = Counted(KeyOf(p))
      BY <1>3, Zenon DEF BreakInsert, IsNext
    <2>2. p \in DOMAIN settings'
      BY <2>1 DEF Created, Put
    <2>3. Says(p)
      BY <2>1, <2>2 DEF Says, Number, Insert, Tell
    <2>4. QED
      BY <2>3
  <1>4. CASE BreakWatch
    <2>1. PICK p \in Points :
            /\ \/ IsNext(p, "wp") /\ Created(p, Default)
               \/ p \in live /\ p.type = "wp"
            /\ LET n == NumberOf(KeyOf(p)) IN
               /\ \E info : records' = Insert(records, n, info)
               /\ told' = told \cup {<<n, p>>}
            /\ ids' = Numbered(KeyOf(p)) /\ nextMiId' = Counted(KeyOf(p))
      BY <1>4, Zenon DEF BreakWatch
    <2>2. p.type = "wp"
      BY <2>1 DEF IsNext
    <2>3. p \in DOMAIN settings'
      <3>1. CASE Created(p, Default)
        BY <3>1 DEF Created, Put
      <3>2. CASE p \in live
        <4>1. DOMAIN settings \subseteq DOMAIN settings'
          BY <1>4 DEF BreakWatch, Created, Put, Altered
        <4>2. QED
          BY <3>2, <4>1 DEF LldbTypeOK
      <3>3. QED
        BY <2>1, <3>1, <3>2
    <2>4. Says(p)
      BY <2>1, <2>2, <2>3 DEF Says, Number, Insert
    <2>5. QED
      BY <2>4
  <1>5. CASE HandleEvent
    <2> DEFINE p == Head(queue).point
               n == NumberOf(KeyOf(p))
    <2>1. p \in Points /\ p \in DOMAIN settings'
      BY <1>5, HeadBusy DEF HandleEvent
    <2> HIDE DEF p
    <2>2. CASE HandleAdded(p)
      <3>1. CASE Valid(p)
        <4>1. Number(KeyOf(p))
          BY <2>2, <3>1 DEF HandleAdded, Number
        <4>2. told' \subseteq told \cup {<<n, p>>}
          BY <2>2, <3>1 DEF HandleAdded, Tell, client
        <4>3. DOMAIN records' \subseteq DOMAIN records \cup {n}
          BY <2>2, <3>1 DEF HandleAdded, Insert
        <4>4. QED
          BY <2>1, <3>1, <4>1, <4>2, <4>3 DEF Says
      <3>2. QED
        BY <2>2, <3>1 DEF HandleAdded, session, client
    <2>3. CASE HandleChanged(p)
      <3>1. CASE Valid(p)
        <4>1. told' \subseteq told \cup {<<n, p>>} /\ records' = records
          BY <2>3, <3>1 DEF HandleChanged, Tell, client
        <4>2. QED
          BY <2>1, <3>1, <4>1 DEF Says
      <3>2. QED
        BY <2>3, <3>1 DEF HandleChanged, session, client
    <2>4. CASE HandleRemoved(p)
      <3>1. DOMAIN records' \subseteq DOMAIN records
        BY <2>4 DEF HandleRemoved, Erase
      <3>2. CASE Valid(p)
        <4>1. told' \subseteq told \cup {<<n, p>>}
          BY <2>4, <3>2 DEF HandleRemoved, Tell, client
        <4>2. QED
          BY <2>1, <3>1, <3>2, <4>1 DEF Says
      <3>3. CASE ~Valid(p)
        BY <2>4, <3>1, <3>3 DEF HandleRemoved, client
      <3>4. QED
        BY <3>2, <3>3
    <2>5. CASE HandleHit(p)
      BY <2>5 DEF HandleHit, session
    <2>6. QED
      BY <1>5, <2>2, <2>3, <2>4, <2>5 DEF HandleEvent, p
  <1>6. QED
    BY <1>1, <1>2, <1>3, <1>4, <1>5 DEF Next, Command, Lldb

\* Numbers are given to keys and taken from those whose record goes, only.
LEMMA IdsKept ==
  ASSUME TypeOK, LldbTypeOK', QueueInv, [Next]_vars, NEW key \in DOMAIN ids'
  PROVE  \/ key \in DOMAIN ids /\ ids'[key] = ids[key]
         \/ key \notin DOMAIN ids /\ ids'[key] = nextMiId
            /\ nextMiId \notin DOMAIN records
  <1>1. CASE Keep
    BY <1>1 DEF Keep
  <1>2. ASSUME NEW k, Assigned(k)
        PROVE  \/ key \in DOMAIN ids /\ ids'[key] = ids[key]
               \/ key \notin DOMAIN ids /\ ids'[key] = nextMiId
                  /\ nextMiId \notin DOMAIN records
    BY <1>2 DEF Assigned
  <1>3. ASSUME NEW p, Dropped(p)
        PROVE  key \in DOMAIN ids /\ ids'[key] = ids[key]
    BY <1>3 DEF Dropped
  <1>4. QED
    BY <1>1, <1>2, <1>3, Shapes, NumberStep, GiveStep, DropStep DEF Look

\* The number of a live stoppoint's key is kept.
LEMMA LiveKept ==
  ASSUME TypeOK, TypeOK', OneTarget, QueueInv, [Next]_vars,
         NEW p \in live, p \in live', KeyOf(p) \in DOMAIN ids
  PROVE  KeyOf(p) \in DOMAIN ids'
  <1> LldbTypeOK'
    BY DEF TypeOK, LldbTypeOK
  <1>1. CASE Keep
    BY <1>1 DEF Keep
  <1>2. ASSUME NEW k, Assigned(k)
        PROVE  KeyOf(p) \in DOMAIN ids'
    BY <1>2 DEF Assigned
  <1>3. ASSUME NEW q \in Points, Drop(q)
        PROVE  KeyOf(p) \in DOMAIN ids'
    <2>1. Dropped(q) /\ p # q
      BY <1>3, DropStep, DropEnds DEF Busy
    <2>2. KeyOf(p) # KeyOf(q)
      BY <2>1, OneKey DEF Dropped, TypeOK
    <2>3. QED
      BY <2>1, <2>2 DEF Dropped
  <1>4. QED
    BY <1>1, <1>2, <1>3, Shapes, NumberStep, GiveStep DEF Look

\* What holds of a stoppoint that failed before the step holds after it.
LEMMA FailedStays ==
  ASSUME IInv, IInv', FailedInv, "bp" \notin HandleOutlives, [Next]_vars,
         NEW p \in failed
  PROVE  /\ p.type = "bp"
         /\ p \in live' => KeyOf(p) \in DOMAIN ids' /\ ids'[KeyOf(p)] > CntMax
         /\ KeyOf(p) \in DOMAIN ids' /\ ids'[KeyOf(p)] \in DOMAIN records'
              => ids'[KeyOf(p)] > CntMax
         /\ \A b \in told' : b[2] = p => b[1] > CntMax
  <1> /\ TypeOK /\ TypeOK' /\ OneTarget /\ OneTarget' /\ QueueInv /\ KeysApart'
    BY DEF IInv
  <1> LldbTypeOK'
    BY DEF TypeOK, LldbTypeOK
  <1>1. p.type = "bp" /\ p \in DOMAIN settings /\ p \in DOMAIN settings'
    <2>1. p \in DOMAIN settings /\ failed' \subseteq DOMAIN settings'
      BY DEF TypeOK
    <2>2. p \in failed'
      BY DEF Next, Command, Lldb, BreakInsertFails, BreakInsert, BreakWatch,
         BreakDelete, BreakDisable, BreakEnable, BreakAfter, BreakCondition,
         ConsoleCreates, ConsoleAlters, LldbDeletes, LldbHits, HandleEvent,
         HandleAdded, HandleChanged, HandleRemoved, HandleHit, Tell, client, vars
    <2>3. QED
      BY <2>1, <2>2 DEF FailedInv
  <1>2. p \in live' => p \in live
    BY <1>1, LiveOrNew
  <1>3. p \in live' => KeyOf(p) \in DOMAIN ids' /\ ids'[KeyOf(p)] > CntMax
    BY <1>2, IdsKept, LiveKept DEF FailedInv
  <1>4. ASSUME NEW q \in Points, Says(q), q = p
        PROVE  p \in live /\ NumberOf(KeyOf(p)) > CntMax
    BY <1>1, <1>4 DEF Says, Valid, FailedInv, NumberOf
  <1>5. ASSUME KeyOf(p) \in DOMAIN ids', ids'[KeyOf(p)] \in DOMAIN records'
        PROVE  ids'[KeyOf(p)] > CntMax
    <2>1. CASE ids'[KeyOf(p)] \in DOMAIN records
      BY <1>5, <2>1, IdsKept DEF FailedInv, FailedInsertUnseen
    <2>2. CASE ids'[KeyOf(p)] \notin DOMAIN records
      <3>1. PICK q \in Points : Says(q)
        BY <1>5, <2>2, SaysOf
      <3>2. ids'[KeyOf(p)] = NumberOf(KeyOf(q)) /\ Number(KeyOf(q))
        BY <1>5, <2>2, <3>1 DEF Says
      <3>3. KeyOf(q) \in DOMAIN ids' /\ ids'[KeyOf(q)] = NumberOf(KeyOf(q))
        BY <3>2, KeyOfType, NumberStep DEF Assigned
      <3>4. KeyOf(p) = KeyOf(q)
        BY <1>5, <3>2, <3>3 DEF KeysApart
      <3>5. p = q
        <4>1. p.target = 1 /\ q.target = 1 /\ p \in Points
          BY <1>1, <3>1 DEF OneTarget, Says, TypeOK
        <4>2. QED
          BY <3>4, <4>1, KeyOfApart
      <3>6. QED
        BY <1>4, <3>1, <3>2, <3>5
    <2>3. QED
      BY <2>1, <2>2
  <1>6. ASSUME NEW b \in told', b[2] = p
        PROVE  b[1] > CntMax
    <2>1. CASE b \in told
      BY <1>6, <2>1 DEF FailedInv, FailedInsertUnseen
    <2>2. CASE b \notin told
      <3>1. PICK q \in Points : Says(q)
        BY <2>2, SaysOf
      <3>2. b = <<NumberOf(KeyOf(q)), q>>
        BY <2>2, <3>1 DEF Says
      <3>3. QED
        BY <1>4, <1>6, <3>1, <3>2
    <2>3. QED
      BY <2>1, <2>2
  <1>7. QED
    BY <1>1, <1>3, <1>5, <1>6

\* Who is answered ^error in a step: a new breakpoint, which LLDB has deleted or
\* which has a number past the limit.
LEMMA FailsNow ==
  ASSUME [Next]_vars
  PROVE  \/ failed' = failed
         \/ \E p \in Points :
              /\ p \notin DOMAIN settings /\ p.type = "bp" /\ p.target = selected
              /\ failed' = failed \cup {p} /\ UNCHANGED told
              /\ \/ live' = live /\ UNCHANGED <<ids, records>>
                 \/ /\ ids' = Numbered(KeyOf(p))
                    /\ nextMiId' = Counted(KeyOf(p))
                    /\ NumberOf(KeyOf(p)) > CntMax
  <1>1. CASE BreakInsertFails \/ BreakInsert
    BY <1>1, Zenon DEF BreakInsertFails, BreakInsert, IsNext, Tell, session
  <1>2. QED
    BY <1>1 DEF Next, Command, Lldb, BreakWatch,
         BreakDelete, BreakDisable, BreakEnable, BreakAfter, BreakCondition,
         ConsoleCreates, ConsoleAlters, LldbDeletes, LldbHits, HandleEvent,
         HandleAdded, HandleChanged, HandleRemoved, HandleHit, Tell, client, vars

\* A stoppoint that LLDB has not had has no record.
LEMMA NewUnrecorded ==
  ASSUME IInv, NEW p \in Points, p \notin DOMAIN settings, p.target = 1,
         KeyOf(p) \in DOMAIN ids
  PROVE  ids[KeyOf(p)] \notin DOMAIN records
  <1> SUFFICES ASSUME ids[KeyOf(p)] \in DOMAIN records PROVE FALSE
    OBVIOUS
  <1> DEFINE n == ids[KeyOf(p)]
  <1>1. records[n].key \in DOMAIN ids /\ ids[records[n].key] = n
    BY DEF IInv, RecordsKeyed
  <1>2. records[n].key = KeyOf(p)
    BY <1>1 DEF IInv, KeysApart
  <1>3. PICK q \in DOMAIN settings : KeyOf(q) = records[n].key
    BY DEF IInv, RecordsTrackLldb
  <1>4. q \in Points /\ q.target = 1
    BY DEF IInv, TypeOK, OneTarget
  <1>5. QED
    BY <1>2, <1>3, <1>4, KeyOfApart

LEMMA NextFailedInv ==
  ASSUME "bp" \notin HandleOutlives
  PROVE  IInv /\ IInv' /\ FailedInv /\ [Next]_vars => FailedInv'
  <1> SUFFICES ASSUME IInv, IInv', FailedInv, [Next]_vars PROVE FailedInv'
    OBVIOUS
  <1>1. SUFFICES ASSUME NEW p \in failed'
        PROVE  /\ p.type = "bp"
               /\ p \in live' => KeyOf(p) \in DOMAIN ids' /\ ids'[KeyOf(p)] > CntMax
               /\ KeyOf(p) \in DOMAIN ids' /\ ids'[KeyOf(p)] \in DOMAIN records'
                    => ids'[KeyOf(p)] > CntMax
               /\ \A b \in told' : b[2] = p => b[1] > CntMax
    BY DEF FailedInv, FailedInsertUnseen, KeyOf
  <1>2. CASE p \in failed
    BY <1>2, FailedStays
  <1>3. CASE p \notin failed
    <2>1. /\ p \in Points /\ p \notin DOMAIN settings /\ p.type = "bp"
          /\ p.target = 1 /\ UNCHANGED told
          /\ \/ live' = live /\ UNCHANGED <<ids, records>>
             \/ /\ ids' = Numbered(KeyOf(p))
                /\ nextMiId' = Counted(KeyOf(p))
                /\ NumberOf(KeyOf(p)) > CntMax
      BY <1>3, FailsNow DEF IInv, OneTarget
    <2>2. \A b \in told' : b[2] # p
      BY <2>1, ToldType DEF IInv
    <2>3. CASE live' = live /\ UNCHANGED <<ids, records>>
      <3>1. p \notin live'
        BY <2>1, <2>3 DEF IInv, TypeOK
      <3>2. QED
        BY <2>1, <2>2, <2>3, <3>1, NewUnrecorded
    <2>4. CASE /\ ids' = Numbered(KeyOf(p)) /\ nextMiId' = Counted(KeyOf(p))
               /\ NumberOf(KeyOf(p)) > CntMax
      <3>1. KeyOf(p) \in DOMAIN ids' /\ ids'[KeyOf(p)] > CntMax
        BY <2>1, <2>4, KeyOfType, NumberStep DEF IInv, Number, Assigned
      <3>2. QED
        BY <2>1, <2>2, <3>1
    <2>5. QED
      BY <2>1, <2>3, <2>4
  <1>4. QED
    BY <1>2, <1>3

\* A break-insert that found no location leaves nothing the client could see, if
\* the handle of a deleted breakpoint is not valid, as LLDB has it: the Added
\* event of its breakpoint is handled after the breakpoint is gone.
THEOREM FailedInsertsAreUnseen ==
  ASSUME "bp" \notin HandleOutlives
  PROVE  Spec => []FailedInsertUnseen
  <1>1. Init => FailedInv
    BY DEF Init, FailedInv, FailedInsertUnseen
  <1>2. IInv /\ IInv' /\ FailedInv /\ [Next]_vars => FailedInv'
    BY NextFailedInv
  <1>3. FailedInv => FailedInsertUnseen
    BY DEF FailedInv
  <1>4. QED
    BY <1>1, <1>2, <1>3, SpecIInv, PTL DEF Spec
=============================================================================
