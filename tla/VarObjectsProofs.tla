-------------------------- MODULE VarObjectsProofs --------------------------
(***************************************************************************)
(* What VarObjects guarantees for any variables' values, any number of     *)
(* objects and any names the client gives: a value that has changed is not *)
(* missed, an assignment is reported however many stops later, and a name  *)
(* keeps its variable.                                                     *)
(***************************************************************************)
EXTENDS VarObjects, SequenceTheorems, TLAPS

\* Members are entered under the names of members only.
NameInv ==
  \A n \in DOMAIN objects : objects[n].expr = "m" <=> n \notin Names

\* Names produced so far: the next one is free.
NumberInv ==
  \A n \in DOMAIN objects : \A i \in DOMAIN AutoNames : n[1] = AutoNames[i] => i <= id

\* An assignment is remembered by the object until it is updated or its entry is
\* overwritten.
AssignedInv == \A n \in assigned \ forgotten : objects[n].changed

\* What LLDB answers, or would answer, of the variable c at this stop.
Did(values, m, c) == Examined(values, m, c)[c].did

\* Of an object in step when the process was resumed LLDB notices a new value, and
\* the answer stands until the value is shown.
SureInv ==
  frame = "in" => \A n \in sure \cap DOMAIN objects :
    ~IsConst(objects[n]) => Did(vo, mem, objects[n].expr) \/ Known(n)

IInv == TypeOK /\ NameInv /\ NumberInv /\ AssignedInv /\ SureInv

(***************************************************************************)
(* The constants, names and maps.                                          *)
(***************************************************************************)

AutoName == {AutoNames[i] : i \in DOMAIN AutoNames}

LEMMA Constants ==
  /\ Exprs \subseteq {"x", "p", "e"} /\ Vals \subseteq Nat
  /\ MaxIds \in Nat /\ DOMAIN AutoNames = 1..Len(AutoNames) /\ Len(AutoNames) \in Nat
  /\ MaxIds <= Len(AutoNames)
  /\ \A i, j \in DOMAIN AutoNames : AutoNames[i] = AutoNames[j] => i = j
  /\ AutoName \cap Given = {}
  <1>1. AutoNames \in Seq(STRING) /\ MaxIds \in 0..Len(AutoNames)
    BY Zenon, VarObjectsAssumption
  <1>2. /\ Exprs \subseteq AllExprs /\ Vals \subseteq Nat
        /\ \A i, j \in DOMAIN AutoNames : AutoNames[i] = AutoNames[j] => i = j
        /\ \A i \in DOMAIN AutoNames : AutoNames[i] \notin Given
    BY Zenon, VarObjectsAssumption
  <1>3. QED
    BY <1>1, <1>2 DEF AllExprs, AutoName

\* A name is a sequence of one word; that of a member has a second.
LEMMA NameFacts ==
  /\ \A w : w \in Given \cup AutoName => <<w>> \in Names /\ <<w>>[1] = w
  /\ \A n \in Names : n[1] \in Given \cup AutoName /\ n = <<n[1]>>
  /\ \A n \in Names : Member(n)[1] = n[1] /\ Member(n) \notin Names /\ Member(n) \in AllNames
  <1>1. Names = {<<w>> : w \in Given \cup AutoName}
    BY DEF Names, AutoName
  <1>2. ASSUME NEW n \in Names
        PROVE  /\ n[1] \in Given \cup AutoName /\ n = <<n[1]>>
               /\ Member(n)[1] = n[1] /\ Len(Member(n)) = 2
    <2>1. PICK w \in Given \cup AutoName : n = <<w>>
      BY <1>1
    <2> DEFINE S == {w, "m"}
    <2>2. <<w>> \in Seq(S) /\ "m" \in S /\ Len(<<w>>) = 1 /\ <<w>>[1] = w
      OBVIOUS
    <2> HIDE DEF S
    <2>3. Append(<<w>>, "m")[1] = w /\ Len(Append(<<w>>, "m")) = 2
      BY <2>2, AppendProperties
    <2>4. QED
      BY <2>1, <2>2, <2>3 DEF Member
  <1>3. \A w : w \in Given \cup AutoName => <<w>> \in Names /\ <<w>>[1] = w /\ Len(<<w>>) = 1
    BY <1>1
  <1>4. \A n \in Names : Member(n) \notin Names
    BY <1>1, <1>2, <1>3
  <1>5. QED
    BY <1>2, <1>3, <1>4 DEF AllNames

\* A typed map stays one.
LEMMA PutType ==
  ASSUME NEW T, NEW map, map \in [DOMAIN map -> T], NEW k, NEW v \in T
  PROVE  Put(map, k, v) \in [DOMAIN Put(map, k, v) -> T]
  BY DEF Put

(***************************************************************************)
(* LLDB's value objects.                                                   *)
(***************************************************************************)

Values  == Vals \cup {None}
VoEntry == [seen : Values, did : BOOLEAN, fresh : BOOLEAN]
VoType  == [Cells -> VoEntry]

\* To examine a value that has not been examined since the stop is to compare it
\* with the one seen last.
LEMMA ExaminedFacts ==
  ASSUME NEW values \in VoType, NEW m \in [Cells -> Vals], NEW c \in Cells
  PROVE  /\ Examined(values, m, c) \in VoType
         /\ \A d \in Cells : d # c => Examined(values, m, c)[d] = values[d]
         /\ frame = "in" => Examined(values, m, c)[c].fresh
         /\ frame # "in" \/ values[c].fresh => Examined(values, m, c) = values
         /\ frame = "in" /\ ~values[c].fresh =>
              /\ Examined(values, m, c)[c].seen = m[c]
              /\ Examined(values, m, c)[c].did <=> values[c].seen # None /\ values[c].seen # m[c]
  <1>1. CASE frame # "in" \/ values[c].fresh
    BY <1>1 DEF Examined
  <1>2. CASE frame = "in" /\ ~values[c].fresh
    <2> DEFINE did == values[c].seen # None /\ values[c].seen # m[c]
    <2> DEFINE entry == [seen |-> m[c], did |-> did, fresh |-> TRUE]
    <2>1. Examined(values, m, c) = [values EXCEPT ![c] = entry]
      BY <1>2 DEF Examined
    <2>2. entry \in VoEntry
      BY DEF VoEntry, Values
    <2>3. entry.seen = m[c] /\ (entry.did <=> did) /\ entry.fresh
      OBVIOUS
    <2> HIDE DEF entry
    <2>4. QED
      BY <1>2, <2>1, <2>2, <2>3 DEF VoType
  <1>3. QED
    BY <1>1, <1>2

\* Another look at a value gives the same answer.
LEMMA AnswerStands ==
  ASSUME NEW values \in VoType, NEW m \in [Cells -> Vals], NEW c \in Cells, NEW d \in Cells
  PROVE  Did(Examined(values, m, c), m, d) <=> Did(values, m, d)
  <1>1. Examined(values, m, c) \in VoType
    BY ExaminedFacts
  <1>2. CASE d # c
    <2>1. Examined(values, m, c)[d] = values[d]
      BY <1>2, ExaminedFacts
    <2>2. QED
      BY <1>1, <2>1, ExaminedFacts DEF Did, Examined, VoType
  <1>3. CASE d = c
    BY <1>1, <1>3, ExaminedFacts DEF Did
  <1>4. QED
    BY <1>2, <1>3

(***************************************************************************)
(* What each command does to the map, the client's view and LLDB's answers. *)
(***************************************************************************)

Entries == [expr : Cells \cup {"e"}, value : Values, changed : BOOLEAN]

LEMMA Typed ==
  TypeOK => /\ mem \in [Cells -> Vals] /\ vo \in VoType /\ id \in 0..MaxIds
            /\ DOMAIN objects \subseteq AllNames /\ objects \in [DOMAIN objects -> Entries]
            /\ view \in [DOMAIN objects -> Values] /\ DOMAIN view = DOMAIN objects
            /\ assigned \subseteq DOMAIN objects /\ forgotten \subseteq assigned
            /\ sure \subseteq AllNames
  BY DEF TypeOK, VoType, VoEntry, Values, Entries, Objects

LEMMA ExaminedForFacts ==
  ASSUME TypeOK, NEW o \in Entries
  PROVE  /\ Actual(o) \in Values /\ ExaminedFor(o) \in VoType
         /\ \A d \in Cells : Did(ExaminedFor(o), mem, d) <=> Did(vo, mem, d)
         /\ frame = "in" /\ ~IsConst(o) => Actual(o) = mem[o.expr]
  <1>1. mem \in [Cells -> Vals] /\ vo \in VoType /\ o.expr \in Cells \cup {"e"} /\ o.value \in Values
    BY Typed DEF Entries
  <1>2. Actual(o) \in Values /\ (frame = "in" /\ ~IsConst(o) => Actual(o) = mem[o.expr])
    BY <1>1 DEF Actual, IsConst, Cells, Values
  <1>3. CASE IsConst(o)
    BY <1>1, <1>2, <1>3 DEF ExaminedFor
  <1>4. CASE ~IsConst(o)
    <2>1. o.expr \in Cells /\ ExaminedFor(o) = Examined(vo, mem, o.expr)
      BY <1>1, <1>4 DEF IsConst, ExaminedFor
    <2>2. QED
      BY <1>1, <1>2, <2>1, ExaminedFacts, AnswerStands
  <1>5. QED
    BY <1>3, <1>4

LEMMA EnterFacts ==
  ASSUME TypeOK, NEW n \in AllNames, NEW o \in Entries, NEW shown \in Values,
         Enter(n, o, shown)
  PROVE  /\ DOMAIN objects' = DOMAIN objects \cup {n} /\ DOMAIN objects' \subseteq AllNames
         /\ objects' \in [DOMAIN objects' -> Entries] /\ objects'[n] = o
         /\ view' \in [DOMAIN objects' -> Values] /\ view'[n] = shown
         /\ \A k \in DOMAIN objects : k # n => objects'[k] = objects[k] /\ view'[k] = view[k]
  <1>1. objects' = Put(objects, n, o) /\ view' = Put(view, n, shown)
    BY DEF Enter
  <1>2. /\ DOMAIN objects' = DOMAIN objects \cup {n} /\ DOMAIN view' = DOMAIN objects \cup {n}
        /\ objects'[n] = o /\ view'[n] = shown
        /\ \A k \in DOMAIN objects : k # n => objects'[k] = objects[k] /\ view'[k] = view[k]
    BY <1>1, Typed DEF Put
  <1>3. objects' \in [DOMAIN objects' -> Entries] /\ view' \in [DOMAIN view' -> Values]
    BY <1>1, Typed, PutType
  <1>4. QED
    BY <1>1, <1>2, <1>3, Typed

\* A creation that succeeds enters a name of the client's or the next one produced.
LEMMA CreateFacts ==
  ASSUME TypeOK, VarCreate
  PROVE  /\ UNCHANGED <<mem, frame, sure>> /\ id' \in 0..MaxIds /\ id <= id'
         /\ \/ UNCHANGED <<objects, vo, view, assigned, forgotten>>
            \/ \E n \in Names, o \in Entries :
                 /\ frame = "in" /\ o.expr # "m"
                 /\ vo' = ExaminedFor(o) /\ Enter(n, o, Actual(o)) /\ Settled(n)
                 /\ n[1] \in Given \/ (n[1] = AutoNames[id'] /\ id' = id + 1)
  <1>1. PICK arg \in Given \cup {"-"}, e \in Exprs :
          /\ arg = "-" => id < MaxIds
          /\ id' = IF arg = "-" THEN id + 1 ELSE id
          /\ \/ UNCHANGED <<objects, vo, view, assigned, forgotten>>
             \/ /\ frame = "in"
                /\ LET n == <<IF arg = "-" THEN AutoNames[id + 1] ELSE arg>>
                       o == [expr |-> e, value |-> IF e = "e" THEN mem["x"] ELSE None,
                             changed |-> FALSE]
                   IN  /\ vo' = ExaminedFor(o)
                       /\ Enter(n, o, Actual(o)) /\ Settled(n)
          /\ UNCHANGED <<mem, frame, sure>>
    BY DEF VarCreate, VarCreateNumbered
  <1> DEFINE w == IF arg = "-" THEN AutoNames[id + 1] ELSE arg
             n == <<w>>
             o == [expr |-> e, value |-> IF e = "e" THEN mem["x"] ELSE None, changed |-> FALSE]
  <1>2. id' \in 0..MaxIds /\ id <= id' /\ (arg = "-" => id' = id + 1 /\ id' \in DOMAIN AutoNames)
    BY <1>1, Typed, Constants
  <1>3. w \in Given \cup AutoName
    BY <1>1, <1>2 DEF AutoName
  <1>4. n \in Names /\ n[1] = w
    BY <1>3, NameFacts
  <1>5. o \in Entries /\ o.expr # "m"
    BY Typed, Constants DEF Entries, Cells, Values
  <1>6. w \in Given \/ (w = AutoNames[id'] /\ id' = id + 1)
    BY <1>1
  <1> HIDE DEF n, o, w
  <1>7. \/ UNCHANGED <<objects, vo, view, assigned, forgotten>>
        \/ frame = "in" /\ vo' = ExaminedFor(o) /\ Enter(n, o, Actual(o)) /\ Settled(n)
    BY <1>1 DEF n, o, w
  <1>8. QED
    BY <1>1, <1>2, <1>4, <1>5, <1>6, <1>7

\* Children are entered under their own names.
LEMMA ListFacts ==
  ASSUME TypeOK, NameInv, VarListChildren
  PROVE  /\ UNCHANGED <<mem, frame, id, assigned, sure>> /\ frame = "in"
         /\ \E n \in DOMAIN objects \cap Names, o \in Entries, shown \in Values :
              /\ o.expr = "m" /\ ~IsConst(o) /\ vo' = ExaminedFor(o)
              /\ Enter(Member(n), o, shown)
              /\ forgotten' = forgotten \cup ({Member(n)} \cap assigned)
              /\ \/ shown = None \/ shown = mem["m"]
                 \/ Member(n) \in DOMAIN objects /\ shown = view[Member(n)]
  <1>1. PICK n \in DOMAIN objects, withValues \in BOOLEAN :
          /\ objects[n].expr = "p" /\ frame = "in"
          /\ LET o == [expr |-> "m", value |-> None, changed |-> FALSE]
                 k == Member(n)
             IN  /\ vo' = ExaminedFor(o)
                 /\ Enter(k, o, IF withValues THEN Actual(o)
                                ELSE IF k \in DOMAIN view THEN view[k] ELSE None)
                 /\ forgotten' = forgotten \cup ({k} \cap assigned)
          /\ UNCHANGED <<mem, frame, id, assigned, sure>>
    BY DEF VarListChildren
  <1> DEFINE o == [expr |-> "m", value |-> None, changed |-> FALSE]
             shown == IF withValues THEN Actual(o)
                      ELSE IF Member(n) \in DOMAIN view THEN view[Member(n)] ELSE None
  <1>2. o \in Entries /\ o.expr = "m" /\ ~IsConst(o)
    BY DEF Entries, Cells, Values, IsConst
  <1> HIDE DEF o
  <1>3. Actual(o) \in Values /\ Actual(o) = mem["m"]
    BY <1>1, <1>2, ExaminedForFacts
  <1>4. /\ shown \in Values
        /\ \/ shown = None \/ shown = mem["m"]
           \/ Member(n) \in DOMAIN objects /\ shown = view[Member(n)]
    BY <1>3, Typed DEF Values
  <1>5. n \in Names
    BY <1>1 DEF NameInv
  <1>6. /\ vo' = ExaminedFor(o) /\ Enter(Member(n), o, shown)
        /\ forgotten' = forgotten \cup ({Member(n)} \cap assigned)
    BY <1>1 DEF o
  <1> HIDE DEF shown
  <1>7. QED
    BY <1>1, <1>2, <1>4, <1>5, <1>6

\* An update changes at most the object's flag and value, and shows values of now.
LEMMA UpdateFacts ==
  ASSUME TypeOK, VarUpdate
  PROVE  /\ UNCHANGED <<mem, frame, id, sure>> /\ vo' \in VoType
         /\ \A d \in Cells : Did(vo', mem, d) <=> Did(vo, mem, d)
         /\ objects' \in [DOMAIN objects -> Entries]
         /\ view' \in [DOMAIN objects -> Values]
         /\ \A k \in DOMAIN objects :
              /\ objects'[k].expr = objects[k].expr
              /\ view'[k] \in {view[k], None, Actual(objects'[k])}
         /\ \E n \in DOMAIN objects :
              /\ Settled(n)
              /\ \A k \in DOMAIN objects : k # n => objects'[k] = objects[k]
  <1>1. PICK n \in DOMAIN objects, withValues \in BOOLEAN :
          LET o == objects[n]
              all == IF o.expr = "p" /\ Changed(o)
                     THEN Examined(ExaminedFor(o), mem, "m") ELSE ExaminedFor(o)
              new == [o EXCEPT !.changed = FALSE,
                               !.value = IF Evaluated(o) THEN mem["x"] ELSE @]
          IN  /\ vo' = all
              /\ objects' = IF Changelist(n) # {} THEN Put(objects, n, new) ELSE objects
              /\ view' = [k \in DOMAIN view |->
                            IF k \notin Changelist(n) THEN view[k]
                            ELSE IF withValues THEN Actual(objects'[k]) ELSE None]
              /\ Settled(n)
              /\ UNCHANGED <<mem, frame, id, sure>>
    BY DEF VarUpdate
  <1> DEFINE o == objects[n]
             new == [o EXCEPT !.changed = FALSE,
                              !.value = IF Evaluated(o) THEN mem["x"] ELSE @]
  <1>2. o \in Entries /\ "m" \in Cells /\ "x" \in Cells
    BY Typed DEF Cells
  <1>3. vo' \in VoType /\ \A d \in Cells : Did(vo', mem, d) <=> Did(vo, mem, d)
    <2>1. vo' = Examined(ExaminedFor(o), mem, "m") \/ vo' = ExaminedFor(o)
      BY <1>1
    <2>2. /\ ExaminedFor(o) \in VoType
          /\ \A d \in Cells : Did(ExaminedFor(o), mem, d) <=> Did(vo, mem, d)
      BY <1>2, ExaminedForFacts
    <2> HIDE DEF o
    <2>3. /\ Examined(ExaminedFor(o), mem, "m") \in VoType
          /\ \A d \in Cells :
               Did(Examined(ExaminedFor(o), mem, "m"), mem, d) <=> Did(ExaminedFor(o), mem, d)
      BY <1>2, <2>2, Typed, ExaminedFacts, AnswerStands
    <2>4. QED
      BY <2>1, <2>2, <2>3
  <1>4. new \in Entries /\ new.expr = o.expr
    BY <1>2, Typed DEF Entries, Values
  <1>5. objects' = Put(objects, n, new) \/ objects' = objects
    BY <1>1
  <1> HIDE DEF new
  <1>6. /\ objects' \in [DOMAIN objects -> Entries]
        /\ \A k \in DOMAIN objects : /\ objects'[k].expr = objects[k].expr
                                     /\ k # n => objects'[k] = objects[k]
    <2>1. CASE objects' = objects
      BY <2>1, Typed
    <2>2. CASE objects' = Put(objects, n, new)
      <3>1. DOMAIN objects' = DOMAIN objects /\ objects'[n] = new
        BY <2>2 DEF Put
      <3>2. objects' \in [DOMAIN objects' -> Entries]
        BY <1>4, <2>2, Typed, PutType
      <3>3. \A k \in DOMAIN objects : k # n => objects'[k] = objects[k]
        BY <2>2 DEF Put
      <3>4. QED
        BY <1>4, <3>1, <3>2, <3>3
    <2>3. QED
      BY <1>5, <2>1, <2>2
  <1>7. UNCHANGED <<mem, frame, id, sure>> /\ Settled(n)
    BY <1>1
  <1>8. \A k \in DOMAIN objects : Actual(objects'[k]) \in Values
    BY <1>6, ExaminedForFacts
  <1>9. /\ view' \in [DOMAIN objects -> Values]
        /\ \A k \in DOMAIN objects : view'[k] \in {view[k], None, Actual(objects'[k])}
    <2>1. view' = [k \in DOMAIN view |->
                     IF k \notin Changelist(n) THEN view[k]
                     ELSE IF withValues THEN Actual(objects'[k]) ELSE None]
      BY <1>1
    <2>2. None \in Values /\ DOMAIN view = DOMAIN objects
          /\ \A k \in DOMAIN objects : view[k] \in Values
      BY Typed DEF Values
    <2>3. QED
      BY <1>8, <2>1, <2>2
  <1>10. QED
    BY <1>3, <1>6, <1>7, <1>9

\* An assignment is to one object; LLDB's write to memory is the end of what was sure.
LEMMA AssignFacts ==
  ASSUME TypeOK, VarAssign
  PROVE  /\ UNCHANGED <<frame, id>> /\ mem' \in [Cells -> Vals] /\ vo' \in VoType
         /\ objects' \in [DOMAIN objects -> Entries]
         /\ \A k \in DOMAIN objects : objects'[k].expr = objects[k].expr
         /\ view' \in [DOMAIN objects -> Values]
         /\ \/ /\ UNCHANGED <<mem, objects, view, assigned, forgotten, sure>>
               /\ \A d \in Cells : Did(vo', mem, d) <=> Did(vo, mem, d)
            \/ \E n \in DOMAIN objects :
                 /\ \A k \in DOMAIN objects : k # n => objects'[k] = objects[k] /\ view'[k] = view[k]
                 /\ Assigned(n, objects'[n].changed)
                 /\ sure' = {} \/ (UNCHANGED <<mem, vo>> /\ sure' = sure \ {n})
  <1>1. PICK n \in DOMAIN objects, v \in Vals :
          LET o == objects[n]
              new == [o EXCEPT !.changed = Actual(o) # v,
                               !.value = IF IsConst(o) THEN v ELSE @]
          IN  \/ /\ ~IsConst(o) /\ frame = "in"
                 /\ mem' \in Written(o.expr, v)
                 /\ vo' = Examined(Expired(ExaminedFor(o)), mem', o.expr)
                 /\ objects' = Put(objects, n, new)
                 /\ view' = Put(view, n, v)
                 /\ Assigned(n, new.changed)
                 /\ sure' = {}
                 /\ UNCHANGED <<frame, id>>
              \/ /\ IsConst(o)
                 /\ objects' = Put(objects, n, new)
                 /\ view' = Put(view, n, v)
                 /\ Assigned(n, new.changed)
                 /\ sure' = sure \ {n}
                 /\ UNCHANGED <<lldb, id>>
              \/ /\ vo' = ExaminedFor(o)
                 /\ UNCHANGED <<mem, frame, objects, id, history>>
    BY DEF VarAssign
  <1> DEFINE o == objects[n]
             other == Actual(o) # v
             new == [o EXCEPT !.changed = other,
                              !.value = IF IsConst(o) THEN v ELSE @]
  <1>2. o \in Entries
    BY Typed
  <1> HIDE DEF o
  <1>3. other \in BOOLEAN
    OBVIOUS
  <1> HIDE DEF other
  <1>4. new \in Entries /\ new.expr = o.expr
    BY <1>2, <1>3 DEF Entries, Values
  <1> HIDE DEF new
  <1>5. /\ ExaminedFor(o) \in VoType
        /\ \A d \in Cells : Did(ExaminedFor(o), mem, d) <=> Did(vo, mem, d)
    BY <1>2, ExaminedForFacts
  <1>6. ASSUME objects' = Put(objects, n, new), view' = Put(view, n, v),
               Assigned(n, new.changed)
        PROVE  /\ objects' \in [DOMAIN objects -> Entries] /\ view' \in [DOMAIN objects -> Values]
               /\ \A k \in DOMAIN objects : objects'[k].expr = objects[k].expr
               /\ \A k \in DOMAIN objects : k # n => objects'[k] = objects[k] /\ view'[k] = view[k]
               /\ Assigned(n, objects'[n].changed)
    <2>1. DOMAIN objects' = DOMAIN objects /\ DOMAIN view' = DOMAIN objects /\ objects'[n] = new
      BY <1>6, Typed DEF Put
    <2>2. objects' \in [DOMAIN objects' -> Entries] /\ view' \in [DOMAIN view' -> Values]
      BY <1>4, <1>6, Typed, PutType DEF Values
    <2>3. \A k \in DOMAIN objects : k # n => objects'[k] = objects[k] /\ view'[k] = view[k]
      BY <1>6, Typed DEF Put
    <2>4. \A k \in DOMAIN objects : objects'[k].expr = objects[k].expr
      BY <1>4, <2>1, <2>3 DEF o
    <2>5. Assigned(n, objects'[n].changed)
      BY <1>6, <2>1
    <2>6. QED
      BY <2>1, <2>2, <2>3, <2>4, <2>5
  <1>7. CASE /\ ~IsConst(o) /\ frame = "in"
             /\ mem' \in Written(o.expr, v)
             /\ vo' = Examined(Expired(ExaminedFor(o)), mem', o.expr)
             /\ objects' = Put(objects, n, new)
             /\ view' = Put(view, n, v)
             /\ Assigned(n, new.changed)
             /\ sure' = {}
             /\ UNCHANGED <<frame, id>>
    <2>1. mem' \in [Cells -> Vals]
      BY <1>7 DEF Written
    <2>2. Expired(ExaminedFor(o)) \in VoType
      BY <1>5 DEF Expired, VoType, VoEntry
    <2>3. o.expr \in Cells
      BY <1>2, <1>7 DEF Entries, IsConst
    <2>4. vo' \in VoType
      BY <1>7, <2>1, <2>2, <2>3, ExaminedFacts
    <2>5. QED
      BY <1>6, <1>7, <2>1, <2>4
  <1>8. CASE /\ IsConst(o)
             /\ objects' = Put(objects, n, new)
             /\ view' = Put(view, n, v)
             /\ Assigned(n, new.changed)
             /\ sure' = sure \ {n}
             /\ UNCHANGED <<lldb, id>>
    BY <1>6, <1>8, Typed DEF lldb
  <1>9. CASE /\ vo' = ExaminedFor(o)
             /\ UNCHANGED <<mem, frame, objects, id, history>>
    BY <1>5, <1>9, Typed DEF history
  <1>10. QED
    BY <1>1, <1>7, <1>8, <1>9 DEF o, new, other

LEMMA EvaluateFacts ==
  ASSUME TypeOK, VarEvaluateExpression
  PROVE  /\ UNCHANGED <<mem, frame, objects, id, assigned, forgotten, sure>> /\ vo' \in VoType
         /\ \A d \in Cells : Did(vo', mem, d) <=> Did(vo, mem, d)
         /\ view' \in [DOMAIN objects -> Values]
         /\ \A k \in DOMAIN objects : view'[k] \in {view[k], Actual(objects[k])}
  <1>1. PICK n \in DOMAIN objects :
          /\ vo' = ExaminedFor(objects[n])
          /\ view' = Put(view, n, Actual(objects[n]))
          /\ UNCHANGED <<mem, frame, objects, id, assigned, forgotten, sure>>
    BY DEF VarEvaluateExpression
  <1>2. objects[n] \in Entries /\ DOMAIN view = DOMAIN objects
    BY Typed
  <1>3. /\ Actual(objects[n]) \in Values /\ ExaminedFor(objects[n]) \in VoType
        /\ \A d \in Cells : Did(ExaminedFor(objects[n]), mem, d) <=> Did(vo, mem, d)
    BY <1>2, ExaminedForFacts
  <1>4. DOMAIN view' = DOMAIN objects
    BY <1>1, <1>2 DEF Put
  <1>5. view' \in [DOMAIN view' -> Values]
    BY <1>1, <1>3, Typed, PutType
  <1>6. \A k \in DOMAIN objects : view'[k] \in {view[k], Actual(objects[k])}
    BY <1>1, <1>2 DEF Put
  <1>7. QED
    BY <1>1, <1>3, <1>4, <1>5, <1>6

LEMMA DeleteFacts ==
  ASSUME TypeOK, VarDelete
  PROVE  /\ UNCHANGED <<lldb, id, sure>>
         /\ DOMAIN objects' \subseteq DOMAIN objects
         /\ objects' \in [DOMAIN objects' -> Entries] /\ view' \in [DOMAIN objects' -> Values]
         /\ \A k \in DOMAIN objects' : objects'[k] = objects[k] /\ view'[k] = view[k]
         /\ \E n : Settled(n) /\ n \notin DOMAIN objects' /\ DOMAIN objects' = DOMAIN objects \ {n}
  <1>1. PICK n \in DOMAIN objects :
          LET rest == DOMAIN objects \ {n}
          IN  /\ objects' = [k \in rest |-> objects[k]]
              /\ view' = [k \in rest |-> view[k]]
              /\ Settled(n)
              /\ UNCHANGED <<lldb, id, sure>>
    BY DEF VarDelete
  <1>2. DOMAIN objects' = DOMAIN objects \ {n}
    BY <1>1
  <1>3. QED
    BY <1>1, <1>2, Typed

LEMMA StopFacts ==
  ASSUME TypeOK, Stop
  PROVE  /\ frame = "in" /\ mem' \in [Cells -> Vals] /\ frame' \in {"in", "out"}
         /\ vo' = Expired(vo) /\ vo' \in VoType
         /\ sure' = {n \in DOMAIN objects : InStep(n)}
         /\ UNCHANGED <<objects, id, view, assigned, forgotten>>
  BY Typed DEF Stop, Expired, VoType, VoEntry

(***************************************************************************)
(* The invariants, one at a time.                                          *)
(***************************************************************************)

LEMMA TypedBack ==
  /\ mem' \in [Cells -> Vals] /\ frame' \in {"in", "out"} /\ vo' \in VoType
  /\ id' \in 0..MaxIds /\ DOMAIN objects' \subseteq AllNames
  /\ objects' \in [DOMAIN objects' -> Entries] /\ view' \in [DOMAIN objects' -> Values]
  /\ assigned' \subseteq DOMAIN objects' /\ forgotten' \subseteq assigned'
  /\ sure' \subseteq AllNames
  => TypeOK'
  BY DEF TypeOK, VoType, VoEntry, Values, Entries, Objects

LEMMA NextTypeOK ==
  ASSUME TypeOK, NameInv, [Next]_vars
  PROVE  TypeOK'
  <1>1. CASE Stop
    BY <1>1, StopFacts, Typed, TypedBack
  <1>2. CASE VarCreate
    <2>1. CASE UNCHANGED <<objects, vo, view, assigned, forgotten>>
      BY <1>2, <2>1, CreateFacts, Typed, TypedBack DEF TypeOK
    <2>2. CASE \E n \in Names, o \in Entries :
                 vo' = ExaminedFor(o) /\ Enter(n, o, Actual(o)) /\ Settled(n)
      <3>1. PICK n \in Names, o \in Entries :
              vo' = ExaminedFor(o) /\ Enter(n, o, Actual(o)) /\ Settled(n)
        BY <2>2
      <3>2. Actual(o) \in Values /\ vo' \in VoType /\ n \in AllNames
        BY <3>1, ExaminedForFacts DEF AllNames
      <3>3. /\ DOMAIN objects' = DOMAIN objects \cup {n} /\ DOMAIN objects' \subseteq AllNames
            /\ objects' \in [DOMAIN objects' -> Entries] /\ view' \in [DOMAIN objects' -> Values]
        BY <3>1, <3>2, EnterFacts
      <3>4. assigned' \subseteq DOMAIN objects' /\ forgotten' \subseteq assigned'
        BY <3>1, <3>3, Typed DEF Settled
      <3>5. QED
        BY <1>2, <3>2, <3>3, <3>4, CreateFacts, Typed, TypedBack DEF TypeOK
    <2>3. QED
      BY <1>2, <2>1, <2>2, CreateFacts
  <1>3. CASE VarUpdate
    <2>1. assigned' \subseteq DOMAIN objects /\ forgotten' \subseteq assigned'
      BY <1>3, UpdateFacts, Typed DEF Settled
    <2>2. QED
      BY <1>3, <2>1, UpdateFacts, Typed, TypedBack DEF TypeOK
  <1>4. CASE VarAssign
    <2>1. sure' \subseteq AllNames
      BY <1>4, AssignFacts, Typed
    <2>2. assigned' \subseteq DOMAIN objects /\ forgotten' \subseteq assigned'
      <3>1. CASE UNCHANGED <<assigned, forgotten>>
        BY <3>1, Typed
      <3>2. ASSUME NEW n \in DOMAIN objects, Assigned(n, objects'[n].changed)
            PROVE  assigned' \subseteq DOMAIN objects /\ forgotten' \subseteq assigned'
        BY <3>2, Typed DEF Assigned
      <3>3. QED
        BY <1>4, <3>1, <3>2, AssignFacts
    <2>3. QED
      BY <1>4, <2>1, <2>2, AssignFacts, Typed, TypedBack DEF TypeOK
  <1>5. CASE VarEvaluateExpression
    BY <1>5, EvaluateFacts, Typed, TypedBack DEF TypeOK
  <1>6. CASE VarSetFormat
    BY <1>6, EvaluateFacts, Typed, TypedBack DEF TypeOK, VarSetFormat
  <1>7. CASE VarListChildren
    <2>1. PICK n \in DOMAIN objects \cap Names, o \in Entries, shown \in Values :
            /\ vo' = ExaminedFor(o) /\ Enter(Member(n), o, shown)
            /\ forgotten' = forgotten \cup ({Member(n)} \cap assigned)
      BY <1>7, ListFacts
    <2>2. vo' \in VoType /\ Member(n) \in AllNames
      BY <2>1, ExaminedForFacts, NameFacts
    <2>3. /\ DOMAIN objects' = DOMAIN objects \cup {Member(n)} /\ DOMAIN objects' \subseteq AllNames
          /\ objects' \in [DOMAIN objects' -> Entries] /\ view' \in [DOMAIN objects' -> Values]
      BY <2>1, <2>2, EnterFacts
    <2>4. assigned' = assigned /\ forgotten' \subseteq assigned'
      BY <1>7, <2>1, ListFacts, Typed
    <2>5. QED
      BY <1>7, <2>2, <2>3, <2>4, ListFacts, Typed, TypedBack DEF TypeOK
  <1>8. CASE VarDelete
    <2>1. assigned' \subseteq DOMAIN objects' /\ forgotten' \subseteq assigned'
      BY <1>8, DeleteFacts, Typed DEF Settled
    <2>2. QED
      BY <1>8, <2>1, DeleteFacts, Typed, TypedBack DEF TypeOK, lldb
  <1>9. CASE UNCHANGED vars
    BY <1>9, Typed, TypedBack DEF TypeOK, vars, lldb, history
  <1>10. QED
    BY <1>1, <1>2, <1>3, <1>4, <1>5, <1>6, <1>7, <1>8, <1>9 DEF Next

LEMMA NextNameInv ==
  ASSUME TypeOK, NameInv, [Next]_vars
  PROVE  NameInv'
  <1>1. CASE Stop
    BY <1>1, StopFacts DEF NameInv
  <1>2. CASE VarCreate
    <2>1. CASE UNCHANGED <<objects, vo, view, assigned, forgotten>>
      BY <2>1 DEF NameInv
    <2>2. CASE \E n \in Names, o \in Entries : o.expr # "m" /\ Enter(n, o, Actual(o))
      <3>1. PICK n \in Names, o \in Entries : o.expr # "m" /\ Enter(n, o, Actual(o))
        BY <2>2
      <3>2. Actual(o) \in Values /\ n \in AllNames
        BY ExaminedForFacts DEF AllNames
      <3>3. /\ DOMAIN objects' = DOMAIN objects \cup {n} /\ objects'[n] = o
            /\ \A k \in DOMAIN objects : k # n => objects'[k] = objects[k]
        BY <3>1, <3>2, EnterFacts
      <3>4. QED
        BY <3>1, <3>3 DEF NameInv
    <2>3. QED
      BY <1>2, <2>1, <2>2, CreateFacts
  <1>3. CASE VarUpdate
    BY <1>3, UpdateFacts DEF NameInv
  <1>4. CASE VarAssign
    BY <1>4, AssignFacts DEF NameInv
  <1>5. CASE VarEvaluateExpression
    BY <1>5, EvaluateFacts DEF NameInv
  <1>6. CASE VarSetFormat
    BY <1>6, EvaluateFacts DEF NameInv, VarSetFormat
  <1>7. CASE VarListChildren
    <2>1. PICK n \in DOMAIN objects \cap Names, o \in Entries, shown \in Values :
            o.expr = "m" /\ Enter(Member(n), o, shown)
      BY <1>7, ListFacts
    <2>2. Member(n) \notin Names /\ Member(n) \in AllNames
      BY NameFacts
    <2>3. /\ DOMAIN objects' = DOMAIN objects \cup {Member(n)} /\ objects'[Member(n)] = o
          /\ \A k \in DOMAIN objects : k # Member(n) => objects'[k] = objects[k]
      BY <2>1, <2>2, EnterFacts
    <2>4. QED
      BY <2>1, <2>2, <2>3 DEF NameInv
  <1>8. CASE VarDelete
    BY <1>8, DeleteFacts DEF NameInv
  <1>9. CASE UNCHANGED vars
    BY <1>9 DEF NameInv, vars
  <1>10. QED
    BY <1>1, <1>2, <1>3, <1>4, <1>5, <1>6, <1>7, <1>8, <1>9 DEF Next

LEMMA NextNumberInv ==
  ASSUME TypeOK, NameInv, NumberInv, [Next]_vars
  PROVE  NumberInv'
  <1>1. CASE Stop
    BY <1>1, StopFacts DEF NumberInv
  <1>2. CASE VarCreate
    <2>1. id \in Nat /\ id' \in Nat /\ id <= id'
      BY <1>2, CreateFacts, Typed, Constants
    <2>2. CASE UNCHANGED <<objects, vo, view, assigned, forgotten>>
      BY <2>1, <2>2, Constants DEF NumberInv
    <2>3. CASE \E n \in Names, o \in Entries :
                 /\ Enter(n, o, Actual(o))
                 /\ n[1] \in Given \/ (n[1] = AutoNames[id'] /\ id' = id + 1)
      <3>1. PICK n \in Names, o \in Entries :
              /\ Enter(n, o, Actual(o))
              /\ n[1] \in Given \/ (n[1] = AutoNames[id'] /\ id' = id + 1)
        BY <2>3
      <3>2. Actual(o) \in Values /\ n \in AllNames
        BY ExaminedForFacts DEF AllNames
      <3>3. DOMAIN objects' = DOMAIN objects \cup {n}
        BY <3>1, <3>2, EnterFacts
      <3>4. ASSUME NEW i \in DOMAIN AutoNames, n[1] = AutoNames[i]
            PROVE  i <= id'
        <4>1. n[1] \notin Given
          BY <3>4, Constants DEF AutoName
        <4>2. id' \in DOMAIN AutoNames
          BY <1>2, <2>1, <3>1, <4>1, CreateFacts, Typed, Constants
        <4>3. i = id'
          BY <3>1, <3>4, <4>1, <4>2, Constants
        <4>4. QED
          BY <2>1, <4>3
      <3>5. \A k \in DOMAIN objects : \A i \in DOMAIN AutoNames : k[1] = AutoNames[i] => i <= id'
        BY <2>1, Constants DEF NumberInv
      <3>6. QED
        BY <3>3, <3>4, <3>5 DEF NumberInv
    <2>4. QED
      BY <1>2, <2>2, <2>3, CreateFacts
  <1>3. CASE VarUpdate
    BY <1>3, UpdateFacts DEF NumberInv
  <1>4. CASE VarAssign
    BY <1>4, AssignFacts DEF NumberInv
  <1>5. CASE VarEvaluateExpression
    BY <1>5, EvaluateFacts DEF NumberInv
  <1>6. CASE VarSetFormat
    BY <1>6, EvaluateFacts DEF NumberInv, VarSetFormat
  <1>7. CASE VarListChildren
    <2>1. PICK n \in DOMAIN objects \cap Names, o \in Entries, shown \in Values :
            Enter(Member(n), o, shown)
      BY <1>7, ListFacts
    <2>2. Member(n)[1] = n[1] /\ Member(n) \in AllNames
      BY NameFacts
    <2>3. DOMAIN objects' = DOMAIN objects \cup {Member(n)} /\ id' = id
      BY <1>7, <2>1, <2>2, ListFacts, EnterFacts
    <2>4. QED
      BY <2>2, <2>3 DEF NumberInv
  <1>8. CASE VarDelete
    BY <1>8, DeleteFacts DEF NumberInv
  <1>9. CASE UNCHANGED vars
    BY <1>9 DEF NumberInv, vars
  <1>10. QED
    BY <1>1, <1>2, <1>3, <1>4, <1>5, <1>6, <1>7, <1>8, <1>9 DEF Next

LEMMA NextAssignedInv ==
  ASSUME TypeOK, NameInv, AssignedInv, [Next]_vars
  PROVE  AssignedInv'
  <1>1. CASE Stop
    BY <1>1, StopFacts DEF AssignedInv
  <1>2. CASE VarCreate
    <2>1. CASE UNCHANGED <<objects, vo, view, assigned, forgotten>>
      BY <2>1 DEF AssignedInv
    <2>2. CASE \E n \in Names, o \in Entries : Enter(n, o, Actual(o)) /\ Settled(n)
      <3>1. PICK n \in Names, o \in Entries : Enter(n, o, Actual(o)) /\ Settled(n)
        BY <2>2
      <3>2. Actual(o) \in Values /\ n \in AllNames
        BY ExaminedForFacts DEF AllNames
      <3>3. \A k \in DOMAIN objects : k # n => objects'[k] = objects[k]
        BY <3>1, <3>2, EnterFacts
      <3>4. QED
        BY <3>1, <3>3, Typed DEF AssignedInv, Settled
    <2>3. QED
      BY <1>2, <2>1, <2>2, CreateFacts
  <1>3. CASE VarUpdate
    BY <1>3, UpdateFacts, Typed DEF AssignedInv, Settled
  <1>4. CASE VarAssign
    <2>1. CASE UNCHANGED <<mem, objects, view, assigned, forgotten, sure>>
      BY <2>1 DEF AssignedInv
    <2>2. CASE \E n \in DOMAIN objects :
                 /\ \A k \in DOMAIN objects : k # n => objects'[k] = objects[k]
                 /\ Assigned(n, objects'[n].changed)
      <3>1. PICK n \in DOMAIN objects :
              /\ \A k \in DOMAIN objects : k # n => objects'[k] = objects[k]
              /\ Assigned(n, objects'[n].changed)
        BY <2>2
      <3>2. ASSUME NEW k \in assigned' \ forgotten'
            PROVE  objects'[k].changed
        <4>1. CASE objects'[n].changed
          BY <3>1, <3>2, <4>1, Typed DEF Assigned, AssignedInv
        <4>2. CASE ~objects'[n].changed
          <5>1. k \in assigned \ forgotten /\ k # n
            BY <3>1, <3>2, <4>2 DEF Assigned
          <5>2. QED
            BY <3>1, <5>1, Typed DEF AssignedInv
        <4>3. QED
          BY <4>1, <4>2
      <3>3. QED
        BY <3>2 DEF AssignedInv
    <2>3. QED
      BY <1>4, <2>1, <2>2, AssignFacts
  <1>5. CASE VarEvaluateExpression
    BY <1>5, EvaluateFacts DEF AssignedInv
  <1>6. CASE VarSetFormat
    BY <1>6, EvaluateFacts DEF AssignedInv, VarSetFormat
  <1>7. CASE VarListChildren
    <2>1. PICK n \in DOMAIN objects \cap Names, o \in Entries, shown \in Values :
            /\ Enter(Member(n), o, shown)
            /\ forgotten' = forgotten \cup ({Member(n)} \cap assigned)
      BY <1>7, ListFacts
    <2>2. Member(n) \in AllNames
      BY NameFacts
    <2>3. \A k \in DOMAIN objects : k # Member(n) => objects'[k] = objects[k]
      BY <2>1, <2>2, EnterFacts
    <2>4. assigned' = assigned
      BY <1>7, ListFacts
    <2>5. QED
      BY <2>1, <2>3, <2>4, Typed DEF AssignedInv
  <1>8. CASE VarDelete
    BY <1>8, DeleteFacts, Typed DEF AssignedInv, Settled
  <1>9. CASE UNCHANGED vars
    BY <1>9 DEF AssignedInv, vars, history
  <1>10. QED
    BY <1>1, <1>2, <1>3, <1>4, <1>5, <1>6, <1>7, <1>8, <1>9 DEF Next

\* An object that has not been entered anew stays sure: LLDB's answer about its
\* variable stands, and a value shown is the present one.
LEMMA StaysSure ==
  ASSUME TypeOK, SureInv, frame = "in", NEW k \in DOMAIN objects, k \in sure,
         mem' = mem, \A d \in Cells : Did(vo', mem, d) <=> Did(vo, mem, d),
         frame' = frame,
         objects'[k] \in Entries, objects'[k].expr = objects[k].expr,
         view'[k] \in {view[k], None, Actual(objects'[k])},
         ~IsConst(objects'[k])
  PROVE  Did(vo, mem, objects[k].expr)' \/ Known(k)'
  <1>1. objects[k].expr = objects'[k].expr /\ ~IsConst(objects[k]) /\ objects'[k].expr \in Cells
    BY DEF IsConst, Entries
  <1>2. Did(vo, mem, objects[k].expr) \/ Known(k)
    BY <1>1 DEF SureInv
  <1>3. Did(vo, mem, objects[k].expr)' <=> Did(vo', mem, objects'[k].expr)
    BY DEF Did, Examined
  <1>4. Value(k)' = Value(k) /\ Actual(objects'[k]) = Value(k)
    BY <1>1, ExaminedForFacts DEF Value, IsConst
  <1>5. Known(k) => Known(k)'
    BY <1>4 DEF Known
  <1>6. QED
    BY <1>1, <1>2, <1>3, <1>5

\* A value shown when an object is entered is the present one.
LEMMA EnteredSure ==
  ASSUME TypeOK, frame = "in", NEW k, mem' = mem, frame' = frame,
         objects'[k] \in Entries, ~IsConst(objects'[k]),
         view'[k] \in {None, Actual(objects'[k])}
  PROVE  Known(k)'
  <1>1. Actual(objects'[k]) = mem[objects'[k].expr]
    BY ExaminedForFacts
  <1>2. QED
    BY <1>1 DEF Known, Value, IsConst

LEMMA NextSureInv ==
  ASSUME TypeOK, NameInv, SureInv, [Next]_vars
  PROVE  SureInv'
  <1>1. CASE Stop
    <2> SUFFICES ASSUME frame' = "in", NEW n \in DOMAIN objects, InStep(n), ~IsConst(objects[n])
                 PROVE  Did(vo, mem, objects[n].expr)' \/ Known(n)'
      BY <1>1, StopFacts DEF SureInv
    <2>1. /\ frame = "in" /\ UNCHANGED <<objects, view>> /\ vo' = Expired(vo)
          /\ mem' \in [Cells -> Vals] /\ mem \in [Cells -> Vals] /\ vo \in VoType
      BY <1>1, StopFacts, Typed
    <2>2. PICK c \in Cells : c = objects[n].expr
      BY Typed DEF Entries, IsConst
    <2>3. vo[c].seen = mem[c] /\ view[n] \in {None, mem[c]}
      BY <2>2 DEF InStep, Known, Value
    <2>4. vo'[c].seen = mem[c] /\ ~vo'[c].fresh
      BY <2>1, <2>2, <2>3 DEF Expired, VoType, VoEntry
    <2>5. CASE mem'[c] = mem[c]
      BY <2>1, <2>2, <2>3, <2>5 DEF Known, Value
    <2>6. CASE mem'[c] # mem[c]
      <3>1. mem[c] \in Nat
        BY <2>1, <2>2, Constants
      <3>2. Examined(vo, mem, c)' = Examined(vo', mem', c) /\ vo' \in VoType
        BY <1>1, <2>1, StopFacts DEF Examined
      <3>3. vo'[c].seen # None /\ vo'[c].seen # mem'[c] /\ c \in DOMAIN vo'
        <4>1. c \in DOMAIN vo'
          BY <3>2 DEF VoType
        <4>2. QED
          BY <2>4, <2>6, <3>1, <4>1 DEF None
      <3>4. Examined(vo, mem, c)'[c].did
        BY <2>1, <2>2, <2>4, <3>2, <3>3, ExaminedFacts
      <3>5. QED
        BY <2>1, <2>2, <3>4 DEF Did
    <2>7. QED
      BY <2>5, <2>6
  <1>2. CASE VarCreate
    <2>1. UNCHANGED <<mem, frame, sure>>
      BY <1>2, CreateFacts
    <2>2. CASE UNCHANGED <<objects, vo, view, assigned, forgotten>>
      BY <2>1, <2>2 DEF SureInv, Did, Examined, Known, Value
    <2>3. CASE \E n \in Names, o \in Entries :
                 frame = "in" /\ vo' = ExaminedFor(o) /\ Enter(n, o, Actual(o))
      <3>1. PICK n \in Names, o \in Entries :
              frame = "in" /\ vo' = ExaminedFor(o) /\ Enter(n, o, Actual(o))
        BY <2>3
      <3>2. /\ Actual(o) \in Values /\ n \in AllNames
            /\ \A d \in Cells : Did(vo', mem, d) <=> Did(vo, mem, d)
        BY <3>1, ExaminedForFacts DEF AllNames
      <3>3. /\ objects'[n] = o /\ view'[n] = Actual(o) /\ DOMAIN objects' = DOMAIN objects \cup {n}
            /\ \A k \in DOMAIN objects : k # n => objects'[k] = objects[k] /\ view'[k] = view[k]
            /\ \A k \in DOMAIN objects' : objects'[k] \in Entries
        BY <3>1, <3>2, EnterFacts
      <3>4. ASSUME NEW k \in sure \cap DOMAIN objects', ~IsConst(objects'[k])
            PROVE  Did(vo, mem, objects[k].expr)' \/ Known(k)'
        <4>1. CASE k = n
          BY <2>1, <3>1, <3>3, <3>4, <4>1, EnteredSure
        <4>2. CASE k # n
          BY <2>1, <3>1, <3>2, <3>3, <3>4, <4>2, StaysSure
        <4>3. QED
          BY <4>1, <4>2
      <3>5. QED
        BY <2>1, <3>4 DEF SureInv
    <2>4. QED
      BY <1>2, <2>2, <2>3, CreateFacts
  <1>3. CASE VarUpdate
    <2>1. ASSUME frame' = "in", NEW k \in sure' \cap DOMAIN objects', ~IsConst(objects'[k])
          PROVE  Did(vo, mem, objects[k].expr)' \/ Known(k)'
      <3>1. /\ UNCHANGED <<mem, frame, sure>> /\ k \in DOMAIN objects /\ objects'[k] \in Entries
            /\ objects'[k].expr = objects[k].expr
            /\ view'[k] \in {view[k], None, Actual(objects'[k])}
            /\ \A d \in Cells : Did(vo', mem, d) <=> Did(vo, mem, d)
        BY <1>3, <2>1, UpdateFacts
      <3>2. QED
        BY <2>1, <3>1, StaysSure
    <2>2. QED
      BY <2>1 DEF SureInv
  <1>4. CASE VarAssign
    <2>1. ASSUME frame' = "in", NEW k \in sure' \cap DOMAIN objects', ~IsConst(objects'[k])
          PROVE  Did(vo, mem, objects[k].expr)' \/ Known(k)'
      <3>1. /\ frame' = frame /\ k \in DOMAIN objects /\ objects'[k] \in Entries
            /\ objects'[k].expr = objects[k].expr
        BY <1>4, <2>1, AssignFacts
      <3>2. /\ mem' = mem /\ k \in sure /\ view'[k] = view[k]
            /\ \A d \in Cells : Did(vo', mem, d) <=> Did(vo, mem, d)
        BY <1>4, <2>1, AssignFacts DEF Did
      <3>3. QED
        BY <2>1, <3>1, <3>2, StaysSure
    <2>2. QED
      BY <2>1 DEF SureInv
  <1>5. CASE VarEvaluateExpression
    <2>1. ASSUME frame' = "in", NEW k \in sure' \cap DOMAIN objects', ~IsConst(objects'[k])
          PROVE  Did(vo, mem, objects[k].expr)' \/ Known(k)'
      <3>1. /\ UNCHANGED <<mem, frame, sure>> /\ k \in DOMAIN objects /\ objects'[k] \in Entries
            /\ objects'[k] = objects[k]
            /\ view'[k] \in {view[k], None, Actual(objects'[k])}
            /\ \A d \in Cells : Did(vo', mem, d) <=> Did(vo, mem, d)
        BY <1>5, <2>1, EvaluateFacts, Typed
      <3>2. QED
        BY <2>1, <3>1, StaysSure
    <2>2. QED
      BY <2>1 DEF SureInv
  <1>6. CASE VarSetFormat
    <2>1. ASSUME frame' = "in", NEW k \in sure' \cap DOMAIN objects', ~IsConst(objects'[k])
          PROVE  Did(vo, mem, objects[k].expr)' \/ Known(k)'
      <3>1. /\ UNCHANGED <<mem, frame, sure>> /\ k \in DOMAIN objects /\ objects'[k] \in Entries
            /\ objects'[k] = objects[k]
            /\ view'[k] \in {view[k], None, Actual(objects'[k])}
            /\ \A d \in Cells : Did(vo', mem, d) <=> Did(vo, mem, d)
        BY <1>6, <2>1, EvaluateFacts, Typed DEF VarSetFormat
      <3>2. QED
        BY <2>1, <3>1, StaysSure
    <2>2. QED
      BY <2>1 DEF SureInv
  <1>7. CASE VarListChildren
    <2>1. UNCHANGED <<mem, frame, sure>> /\ frame = "in"
      BY <1>7, ListFacts
    <2>2. PICK n \in DOMAIN objects \cap Names, o \in Entries, shown \in Values :
            /\ o.expr = "m" /\ ~IsConst(o) /\ vo' = ExaminedFor(o)
            /\ Enter(Member(n), o, shown)
            /\ \/ shown = None \/ shown = mem["m"]
               \/ Member(n) \in DOMAIN objects /\ shown = view[Member(n)]
      BY <1>7, ListFacts
    <2>3. \A d \in Cells : Did(vo', mem, d) <=> Did(vo, mem, d)
      BY <2>2, ExaminedForFacts
    <2>4. Member(n) \in AllNames /\ Member(n) \notin Names
      BY NameFacts
    <2> DEFINE c == Member(n)
    <2>5. /\ objects'[c] = o /\ view'[c] = shown /\ DOMAIN objects' = DOMAIN objects \cup {c}
          /\ \A k \in DOMAIN objects : k # c => objects'[k] = objects[k] /\ view'[k] = view[k]
          /\ \A k \in DOMAIN objects' : objects'[k] \in Entries
      BY <2>2, <2>4, EnterFacts
    <2>6. Actual(o) = mem["m"]
      BY <2>1, <2>2, ExaminedForFacts
    <2>7. c \in DOMAIN objects => objects[c].expr = "m"
      BY <2>4 DEF NameInv
    <2>8. ASSUME NEW k \in sure \cap DOMAIN objects', ~IsConst(objects'[k])
          PROVE  Did(vo, mem, objects[k].expr)' \/ Known(k)'
      <3>1. CASE k = c /\ shown \in {None, mem["m"]}
        BY <2>1, <2>2, <2>5, <2>6, <2>8, <3>1, EnteredSure
      <3>2. CASE k = c /\ c \in DOMAIN objects /\ shown = view[c]
        BY <2>1, <2>2, <2>3, <2>5, <2>7, <2>8, <3>2, StaysSure
      <3>3. CASE k # c
        BY <2>1, <2>3, <2>5, <2>8, <3>3, StaysSure
      <3>4. QED
        BY <2>2, <3>1, <3>2, <3>3
    <2>9. QED
      BY <2>1, <2>8 DEF SureInv
  <1>8. CASE VarDelete
    BY <1>8, DeleteFacts DEF SureInv, lldb, Did, Examined, Known, Value
  <1>9. CASE UNCHANGED vars
    BY <1>9 DEF SureInv, vars, lldb, history, Did, Examined, Known, Value
  <1>10. QED
    BY <1>1, <1>2, <1>3, <1>4, <1>5, <1>6, <1>7, <1>8, <1>9 DEF Next

(***************************************************************************)
(* The theorems.                                                           *)
(***************************************************************************)

LEMMA InitIInv == Init => IInv
  <1> SUFFICES ASSUME Init
               PROVE  IInv
    OBVIOUS
  <1>1. TypeOK
    BY Constants DEF Init, TypeOK
  <1>2. DOMAIN objects = {} /\ assigned = {} /\ forgotten = {} /\ sure = {}
    BY DEF Init
  <1>3. QED
    BY <1>1, <1>2 DEF IInv, NameInv, NumberInv, AssignedInv, SureInv

LEMMA NextIInv == IInv /\ [Next]_vars => IInv'
  <1> SUFFICES ASSUME IInv, [Next]_vars
               PROVE  IInv'
    OBVIOUS
  <1>1. TypeOK /\ NameInv /\ NumberInv /\ AssignedInv /\ SureInv
    BY DEF IInv
  <1>2. QED
    BY <1>1, NextTypeOK, NextNameInv, NextNumberInv, NextAssignedInv, NextSureInv DEF IInv

\* The invariant is inductive, so every state has it.
THEOREM SpecIInv == Spec => []IInv
  <1>1. QED
    BY InitIInv, NextIInv, PTL DEF Spec

\* The map, LLDB's value objects and the client's view have their types: no number
\* of a name beyond the last is used, and what is remembered is of objects there are.
THEOREM VarObjectsTypeOK == Spec => []TypeOK
  <1>1. IInv => TypeOK
    BY DEF IInv
  <1>2. QED
    BY <1>1, SpecIInv, PTL

\* An object LLDB calls changed is printed, by itself or by its member.
LEMMA PrintedFacts ==
  ASSUME NEW n \in DOMAIN objects
  PROVE  /\ Printed(n) # {}
         /\ DidChange(objects[n]) \/ IsConst(objects[n]) => n \in Printed(n)
  BY DEF Printed, IsConst

\* -var-update prints an object whose value is not the one the client knows, if the
\* client and LLDB knew the value when the process was last resumed.
THEOREM UpdatesMissNothing == Spec => []UpdateMissesNothing
  <1>1. ASSUME IInv, NEW n \in sure \cap DOMAIN objects, frame = "in", n \notin Changelist(n)
        PROVE  Known(n)
    <2>1. TypeOK /\ SureInv
      BY <1>1 DEF IInv
    <2>2. ~IsConst(objects[n])
      BY <1>1, PrintedFacts DEF Changelist, Evaluated
    <2>3. ~DidChange(objects[n])
      BY <1>1, PrintedFacts DEF Changelist, Changed
    <2>4. ~Did(vo, mem, objects[n].expr)
      BY <2>2, <2>3 DEF DidChange, ExaminedFor, Did
    <2>5. QED
      BY <1>1, <2>1, <2>2, <2>4 DEF SureInv
  <1>2. IInv => UpdateMissesNothing
    BY <1>1 DEF UpdateMissesNothing
  <1>3. QED
    BY <1>2, SpecIInv, PTL

\* The first -var-update after a -var-assign that has changed the value prints the
\* object or its member, however many stops later and whatever else has examined the
\* value since, unless the entry has been overwritten: by a -var-assign of the value
\* it has, or by a -var-list-children of its parent.
THEOREM AssignmentsAreReported == Spec => []AssignmentReported
  <1>1. ASSUME IInv, NEW n \in assigned \ forgotten
        PROVE  Changelist(n) # {}
    <2>1. n \in DOMAIN objects /\ objects[n].changed
      BY <1>1 DEF IInv, TypeOK, AssignedInv
    <2>2. QED
      BY <2>1, PrintedFacts DEF Changelist, Changed
  <1>2. IInv => AssignmentReported
    BY <1>1 DEF AssignmentReported
  <1>3. QED
    BY <1>2, SpecIInv, PTL

\* No name that lldb-mi produces, and no name of a member, comes to stand for another
\* expression.
THEOREM NamesKeepTheirVariable == Spec => ObjectsKeepTheirVariable
  <1>1. ASSUME IInv, Next, NEW k \in DOMAIN objects \cap DOMAIN objects',
               objects'[k].expr # objects[k].expr
        PROVE  k[1] \in Given
    <2>1. TypeOK /\ NameInv /\ NumberInv
      BY <1>1 DEF IInv
    <2>2. CASE VarCreate
      <3>1. PICK n \in Names, o \in Entries :
              /\ Enter(n, o, Actual(o))
              /\ n[1] \in Given \/ (n[1] = AutoNames[id'] /\ id' = id + 1)
        BY <1>1, <2>1, <2>2, CreateFacts
      <3>2. k = n
        <4>1. Actual(o) \in Values /\ n \in AllNames
          BY <2>1, ExaminedForFacts DEF AllNames
        <4>2. QED
          BY <1>1, <2>1, <3>1, <4>1, EnterFacts
      <3>3. ASSUME n[1] \notin Given
            PROVE  FALSE
        <4>1. n[1] = AutoNames[id'] /\ id' = id + 1
          BY <3>1, <3>3
        <4>2. id' \in DOMAIN AutoNames /\ id \in Nat
          BY <2>1, <2>2, <4>1, CreateFacts, Typed, Constants
        <4>3. id' <= id
          BY <1>1, <2>1, <3>2, <4>1, <4>2 DEF NumberInv
        <4>4. QED
          BY <4>1, <4>2, <4>3
      <3>4. QED
        BY <3>2, <3>3
    <2>3. CASE VarListChildren
      <3>1. PICK n \in DOMAIN objects \cap Names, o \in Entries, shown \in Values :
              o.expr = "m" /\ Enter(Member(n), o, shown)
        BY <2>1, <2>3, ListFacts
      <3>2. Member(n) \in AllNames /\ Member(n) \notin Names
        BY NameFacts
      <3>3. k = Member(n) /\ objects'[k] = o
        BY <1>1, <2>1, <3>1, <3>2, EnterFacts
      <3>4. QED
        BY <1>1, <2>1, <3>1, <3>2, <3>3 DEF NameInv
    <2>4. CASE Stop \/ VarUpdate \/ VarAssign \/ VarEvaluateExpression \/ VarSetFormat \/ VarDelete
      BY <1>1, <2>1, <2>4, StopFacts, UpdateFacts, AssignFacts, EvaluateFacts, DeleteFacts
         DEF VarSetFormat
    <2>5. QED
      BY <1>1, <2>2, <2>3, <2>4 DEF Next
  <1>2. IInv /\ [Next]_vars =>
          [\A n \in DOMAIN objects \cap DOMAIN objects' :
             objects'[n].expr # objects[n].expr => n[1] \in Given]_vars
    BY <1>1
  <1>3. QED
    BY <1>2, SpecIInv, PTL DEF Spec, ObjectsKeepTheirVariable
=============================================================================
