----------------------------- MODULE VarObjects -----------------------------
(***************************************************************************)
(* Variable objects: the map of CMICmnLLDBDebugSessionInfoVarObj, and the  *)
(* var-* commands, each of which works on a copy of an entry and puts it   *)
(* back with UpdateValue.                                                  *)
(*                                                                         *)
(* Whether an object has changed is LLDB's answer: a value object compares *)
(* its value with the one of the last time it was examined, once for each  *)
(* stop or write to memory, and keeps the answer until the next.  Objects  *)
(* of one variable share LLDB's value object.                              *)
(*                                                                         *)
(* A command is one step; the process is stopped while it runs.  Formats   *)
(* decide nothing and are left out, and so is the text kept of the value,  *)
(* which is renewed whenever it is shown.                                  *)
(***************************************************************************)
EXTENDS Integers, Sequences, FiniteSets

CONSTANTS
  Exprs,     \* expressions considered: a subset of AllExprs
  Given,     \* names that the client gives, "<unnamedvariable>" among them or not
  AutoNames, \* the names "var%u" produces, from 0
  MaxIds,    \* bound: objects the client has named for it
  MaxObjects, \* bound: objects at a time
  Vals       \* values of a variable

\* "x" and "p" are variables, "p" is a pointer with one member, "m"; "e" is an
\* expression with x in it.
AllExprs == {"x", "p", "e"}
Cells    == {"x", "p", "m"}
None     == -1

ASSUME VarObjectsAssumption ==
  /\ Exprs \subseteq AllExprs
  /\ AutoNames \in Seq(STRING) /\ MaxIds \in 0..Len(AutoNames) /\ MaxObjects \in Nat
  /\ \A i, j \in DOMAIN AutoNames : AutoNames[i] = AutoNames[j] => i = j
  /\ Given \subseteq STRING
  /\ \A i \in DOMAIN AutoNames : AutoNames[i] \notin Given
  /\ Vals \subseteq Nat

VARIABLES
  mem,     \* LLDB: the values of the variables
  frame,   \* the function's frame is selected ("in") or left, by the end of the
           \* process for one ("out"): LLDB has no values then
  vo,      \* LLDB: the value objects of the variables
  objects, \* ms_mapVarIdToVarObj
  id,      \* ms_nVarUniqueId
  \* History:
  view,     \* the value that the client has last been shown of each object
  assigned, \* objects changed by -var-assign and not updated since
  forgotten, \* those of them whose entry has been overwritten since: by a -var-assign
            \* of the value there was, or by a new entry for the same child
  sure      \* objects of which the client and LLDB's value object knew the value
            \* when the process was last resumed, if no -var-assign has come since

lldb    == <<mem, frame, vo>>
history == <<view, assigned, forgotten, sure>>
vars    == <<lldb, objects, id, history>>

\* <<name>>, and <<name, "m">> for the member.
Names  == {<<n>> : n \in Given \cup {AutoNames[i] : i \in DOMAIN AutoNames}}
Member(n) == Append(n, "m")
AllNames  == Names \cup {Member(n) : n \in Names}

\* value: of an expression, which LLDB evaluates once.
Objects == [expr : Cells \cup {"e"}, value : Vals \cup {None}, changed : BOOLEAN]
IsConst(o) == o.expr = "e"

TypeOK ==
  /\ mem \in [Cells -> Vals]
  /\ frame \in {"in", "out"}
  /\ vo \in [Cells -> [seen : Vals \cup {None}, did : BOOLEAN, fresh : BOOLEAN]]
  /\ DOMAIN objects \subseteq AllNames
  /\ objects \in [DOMAIN objects -> Objects]
  /\ id \in 0..MaxIds
  /\ view \in [DOMAIN objects -> Vals \cup {None}]
  /\ assigned \subseteq DOMAIN objects /\ forgotten \subseteq assigned
  /\ sure \subseteq AllNames

Init ==
  /\ mem \in [Cells -> Vals] /\ frame = "in"
  /\ vo = [c \in Cells |-> [seen |-> None, did |-> FALSE, fresh |-> FALSE]]
  /\ objects = [n \in {} |-> 0] /\ id = 0
  /\ view = [n \in {} |-> None] /\ assigned = {} /\ forgotten = {} /\ sure = {}

Put(map, k, v) ==
  [x \in DOMAIN map \cup {k} |-> IF x = k THEN v ELSE map[x]]

(***************************************************************************)
(* LLDB.                                                                   *)
(***************************************************************************)

\* SBValue::GetValue and GetValueDidChange examine the variable c.
Examined(values, m, c) ==
  IF frame # "in" \/ values[c].fresh THEN values
  ELSE LET seen == values[c].seen
       IN  [values EXCEPT ![c] =
             [seen |-> m[c], did |-> seen # None /\ seen # m[c], fresh |-> TRUE]]

ExaminedFor(o) == IF IsConst(o) THEN vo ELSE Examined(vo, mem, o.expr)

\* A stop or a write to memory: no answer stands until the next examination, and
\* without the frame there is none that says "changed".
Expired(values) == [c \in Cells |-> [values[c] EXCEPT !.fresh = FALSE, !.did = FALSE]]

\* The value of an object; none that means anything when its frame has gone.
Actual(o) ==
  IF IsConst(o) THEN o.value ELSE IF frame = "in" THEN mem[o.expr] ELSE None

\* What the client should see of an object.
Value(n) == IF IsConst(objects[n]) THEN mem["x"] ELSE mem[objects[n].expr]
Known(n) == view[n] \in {None, Value(n)}
InStep(n) ==
  Known(n) /\ (~IsConst(objects[n]) => vo[objects[n].expr].seen = Value(n))

\* The process runs and stops in the same frame, or in another one, or exits; the
\* variables of a frame that is left are not looked at again.
Stop ==
  /\ frame = "in"
  /\ mem' \in [Cells -> Vals]
  /\ frame' \in {"in", "out"} /\ (frame' = "out" => mem' = mem)
  /\ vo' = Expired(vo)
  /\ sure' = {n \in DOMAIN objects : InStep(n)}
  /\ UNCHANGED <<objects, id, view, assigned, forgotten>>

(***************************************************************************)
(* The commands.  An unknown name is answered ^error and nothing else.     *)
(***************************************************************************)

\* The object n is entered, or entered again, and the client shown a value.
Enter(n, o, shown) ==
  /\ Cardinality(DOMAIN objects \cup {n}) <= MaxObjects
  /\ objects' = Put(objects, n, o)
  /\ view' = Put(view, n, shown)

\* History: n is no longer an object with an assignment to report.
Settled(n) == assigned' = assigned \ {n} /\ forgotten' = forgotten \ {n}

\* -var-create.  The number of a name is used up when the creation fails, too.
\* Mutant: it is never used up.
VarCreateNumbered(next) ==
  \E arg \in Given \cup {"-"}, e \in Exprs :
    /\ arg = "-" => id < MaxIds
    /\ id' = IF arg = "-" THEN next ELSE id
    /\ \/ UNCHANGED <<objects, vo, view, assigned, forgotten>>
       \/ /\ frame = "in"
          /\ LET n == <<IF arg = "-" THEN AutoNames[id + 1] ELSE arg>>
                 o == [expr |-> e, value |-> IF e = "e" THEN mem["x"] ELSE None,
                       changed |-> FALSE]
             IN  /\ vo' = ExaminedFor(o)
                 /\ Enter(n, o, Actual(o)) /\ Settled(n)
    /\ UNCHANGED <<mem, frame, sure>>

VarCreateSameNumber == VarCreateNumbered(id)
VarCreate == VarCreateNumbered(id + 1)

\* The changed state that LLDB and the last -var-assign left.  Mutant: LLDB's.
DidChange(o) == ~IsConst(o) /\ ExaminedFor(o)[o.expr].did
ChangedSinceExamined(o) == DidChange(o)
Changed(o) == DidChange(o) \/ o.changed

\* An expression that has not changed is evaluated again and taken for changed.
\* Mutant: it is left as it is.
EvaluatedNever(o) == FALSE
Evaluated(o) == ~Changed(o) /\ IsConst(o) /\ frame = "in"

\* PrintValue: the member, if it has been listed and has changed; the object
\* itself unless the member stands for it.
Printed(n) ==
  LET o == objects[n]
      below == {k \in {Member(n)} \cap DOMAIN objects :
                  o.expr = "p" /\ Examined(vo, mem, "m")["m"].did}
  IN  below \cup IF below = {} \/ DidChange(o) THEN {n} ELSE {}

Changelist(n) ==
  IF Changed(objects[n]) \/ Evaluated(objects[n]) THEN Printed(n) ELSE {}

\* -var-update, with the values printed or not.
VarUpdate ==
  \E n \in DOMAIN objects, withValues \in BOOLEAN :
    LET o == objects[n]
        all == IF o.expr = "p" /\ Changed(o)
               THEN Examined(ExaminedFor(o), mem, "m") ELSE ExaminedFor(o)
        new == [o EXCEPT !.changed = FALSE,
                         !.value = IF Evaluated(o) THEN mem["x"] ELSE @]
    IN  /\ vo' = all
        /\ objects' = IF Changelist(n) # {} THEN Put(objects, n, new) ELSE objects
        /\ view' = [k \in DOMAIN view |->
                      IF k \notin Changelist(n) THEN view[k]
                      ELSE IF withValues THEN Actual(objects'[k]) ELSE None]
        /\ Settled(n)
        /\ UNCHANGED <<mem, frame, id, sure>>

\* What the memory may be after c is set to v; another pointer, another member.
Written(c, v) ==
  {m \in [Cells -> Vals] :
     /\ m[c] = v
     /\ \A k \in Cells \ {c} : m[k] # mem[k] => k = "m" /\ c = "p" /\ v # mem["p"]}

\* History: an assignment to n that has changed its value, or has not; the flag of
\* the object tells of the last one only.
Assigned(n, other) ==
  /\ assigned' = IF other THEN assigned \cup {n} ELSE assigned
  /\ forgotten' = IF other THEN forgotten \ {n} ELSE forgotten \cup ({n} \cap assigned)

\* -var-assign.
VarAssign ==
  \E n \in DOMAIN objects, v \in Vals :
    LET o == objects[n]
        new == [o EXCEPT !.changed = Actual(o) # v,
                         !.value = IF IsConst(o) THEN v ELSE @]
    IN  \/ /\ ~IsConst(o) /\ frame = "in"
           /\ mem' \in Written(o.expr, v)
           /\ vo' = Examined(Expired(ExaminedFor(o)), mem', o.expr)
           /\ objects' = Put(objects, n, new)
           /\ view' = Put(view, n, v)
           /\ Assigned(n, new.changed)
           /\ sure' = {}
           /\ UNCHANGED <<frame, id>>
        \/ /\ IsConst(o)
           /\ objects' = Put(objects, n, new)
           /\ view' = Put(view, n, v)
           /\ Assigned(n, new.changed)
           /\ sure' = sure \ {n}
           /\ UNCHANGED <<lldb, id>>
        \/ /\ vo' = ExaminedFor(o)     \* LLDB refuses the value
           /\ UNCHANGED <<mem, frame, objects, id, history>>

\* -var-evaluate-expression and -var-set-format show the value.
VarEvaluateExpression ==
  \E n \in DOMAIN objects :
    /\ vo' = ExaminedFor(objects[n])
    /\ view' = Put(view, n, Actual(objects[n]))
    /\ UNCHANGED <<mem, frame, objects, id, assigned, forgotten, sure>>

VarSetFormat == VarEvaluateExpression

\* -var-list-children: an object for the member, a new one if there is one; its
\* value is printed or not.
VarListChildren ==
  \E n \in DOMAIN objects, withValues \in BOOLEAN :
    /\ objects[n].expr = "p" /\ frame = "in"
    /\ LET o == [expr |-> "m", value |-> None, changed |-> FALSE]
           k == Member(n)
       IN  /\ vo' = ExaminedFor(o)
           /\ Enter(k, o, IF withValues THEN Actual(o)
                          ELSE IF k \in DOMAIN view THEN view[k] ELSE None)
           /\ forgotten' = forgotten \cup ({k} \cap assigned)
    /\ UNCHANGED <<mem, frame, id, assigned, sure>>

\* -var-delete: the objects of the children stay.
VarDelete ==
  \E n \in DOMAIN objects :
    LET rest == DOMAIN objects \ {n}
    IN  /\ objects' = [k \in rest |-> objects[k]]
        /\ view' = [k \in rest |-> view[k]]
        /\ Settled(n)
        /\ UNCHANGED <<lldb, id, sure>>

Next ==
  \/ Stop
  \/ VarCreate \/ VarUpdate \/ VarAssign \/ VarEvaluateExpression
  \/ VarSetFormat \/ VarListChildren \/ VarDelete

Spec == Init /\ [][Next]_vars

(***************************************************************************)
(* Properties.                                                             *)
(***************************************************************************)

\* Invariant: -var-update of an object prints it if its value is not the one that
\* the client knows, whatever else has examined the value since the stop, if the
\* client knew the value when the process was resumed.  LLDB's answer is used up
\* by a write to memory: not after a -var-assign of another object.
UpdateMissesNothing ==
  \A n \in sure \cap DOMAIN objects :
    frame = "in" /\ n \notin Changelist(n) => Known(n)

\* Invariant: the first -var-update after an assignment that has changed the value
\* prints the object, or its member in its place, however many stops later and
\* whatever has been done to other objects.  Excepted: an object forgotten because,
\* before that update, the value it has was assigned to it or the children of its
\* parent were listed again.
AssignmentReported == \A n \in assigned \ forgotten : Changelist(n) # {}

\* Without the exception: "SBValue changed state due to a -var-assign may have already
\* been cleared so combine it with changed state held by the var object"
\* (CMICmdCmdVarUpdate::Execute).  A second -var-assign clears the state held by the
\* object, too.
AssignmentKept == \A n \in assigned : Changelist(n) # {}

\* Action property: the object that a name stands for is another one only if the
\* client gives the name again.
ObjectsKeepTheirVariable ==
  [][\A n \in DOMAIN objects \cap DOMAIN objects' :
       objects'[n].expr # objects[n].expr => n[1] \in Given]_vars
=============================================================================
