----------------------------- MODULE Arguments -----------------------------
(***************************************************************************)
(* The arguments of commands.                                              *)
(*                                                                         *)
(* A command declares its arguments in ParseArgs, and CMICmdArgSet has     *)
(* them look for their values in the text behind the command's name, one   *)
(* after another.  Each takes out what it finds, so that what an argument  *)
(* sees depends on those before it.                                        *)
(***************************************************************************)
EXTENDS UtilString, FiniteSets, Bags

CONSTANTS
  Commands,   \* commands of Signatures that are tried
  MaxOptions, \* bound: options in a correct line
  MaxWords,   \* bound: words in any other line
  MaxChars,   \* bound: length of a console command
  Typed       \* symbols of a console command

-----------------------------------------------------------------------------
(* Words, by what they look like *)

NumberWords == {"0", "1", "2"}
GroupWords  == {"i1"}
PathWords   == {"dir/file"}
PrintWords  == {"0", "1", "2", "--no-values", "--all-values", "--simple-values"}
LongWords   == {"--thread", "--thread-group", "--frame", "--start", "--waitfor",
                "--available", "--recurse", "--skip-unavailable", "--f",
                "--no-values", "--all-values", "--simple-values"}
ShortWords  == {"-t", "-f", "-d", "-c", "-i", "-p", "-a", "-r", "-s", "-e",
                "-o", "-n"}
Hyphens     == "--"

Nothing == <<>>

Has(w, S) == \E j \in DOMAIN w : w[j] \in S
HasSlash(w)    == Has(w, PathWords \cup {Backslash})

\* Any digits, points and hyphens, other than one hyphen.
IsNumber(w) == w # Nothing /\ \A j \in DOMAIN w : w[j] \in NumberWords \cup {Hyphens}

IsArgLongOption(w)  == w # Nothing /\ w[1] \in LongWords /\ ~HasSlash(w)
IsArgShortOption(w) == Len(w) = 1 /\ w[1] \in ShortWords
IsArgThreadGrp(w)   == Len(w) = 1 /\ w[1] \in GroupWords

IsArgNumber(w) == IsNumber(w) /\ ~Has(w, LongWords \cup {Hyphens})

\* Letters, digits and a string of special characters, which has no backslash.
IsValidChars(w) == ~HasSlash(w)

IsFilePath(w) ==
  /\ w # Nothing
  /\ ~Has(<<w[1]>>, LongWords \cup ShortWords \cup {Hyphens} \cup GroupWords)
  /\ IsValidChars(w) \/ HasSlash(w)

IsStringArgQuotedText(w) == Len(w) > 1 /\ w[1] = Quote /\ w[Len(w)] = Quote

IsStringArgSingleText(w, numbers, paths) ==
  /\ paths \/ ~HasSlash(w)
  /\ w[1] \notin LongWords \cup {Hyphens} \cup GroupWords
  /\ ~IsArgShortOption(w)
  /\ numbers \/ ~IsNumber(w)

IsStringArg(w, quotes, numbers, paths) ==
  (quotes /\ IsStringArgQuotedText(w)) \/ IsStringArgSingleText(w, numbers, paths)

\* What ConsumeArgument makes of a word.
TextOf(w) == StripSlashes(Trim(TrimSpace(w), Quote))

-----------------------------------------------------------------------------
(* The text that is left: CMICmdArgContext *)

GetArgs(ctx) == SplitConsiderQuotes(ctx)

\* Takes out the first place where w stands between spaces: inside a quoted word,
\* if that comes first.
RemoveArg(ctx, w) ==
  LET Ends(p) == p + Len(w) - 1
      places  == {p \in 1..Len(ctx) - Len(w) + 1 :
                    /\ SubSeq(ctx, p, Ends(p)) = w
                    /\ p = 1 \/ ctx[p - 1] = Space
                    /\ Ends(p) = Len(ctx) \/ ctx[Ends(p) + 1] = Space}
      p       == First(places)
  IN IF w = Nothing \/ places = {} THEN ctx
     ELSE TrimSpace(SubSeq(ctx, 1, p - 1) \o SubSeq(ctx, Ends(p) + 2, Len(ctx)))

Joined(words) == TrimSpace(FlattenSeq([j \in DOMAIN words |-> words[j] \o <<Space>>]))

\* Taking out a word with all that follows it (mutant).
RemoveArgsFromPos(ctx, j) == Joined(SubSeq(GetArgs(ctx), 1, j - 1))

\* Taking out the first word of the same text (mutant).
RemoveArgByText(ctx, j) == RemoveArg(ctx, GetArgs(ctx)[j])

\* Takes out a word by its place among the words.
RemoveArgAtPos(ctx, j) == Joined(RemoveAt(GetArgs(ctx), j))

-----------------------------------------------------------------------------
(* The kinds of arguments *)

\* What an argument's Validate leaves behind: the rest of the text, whether it
\* has succeeded, m_bFound, m_bValid, m_bIsMissingOptions, and the words taken.
Failure(ctx) ==
  [ctx |-> ctx, ok |-> FALSE, found |-> FALSE, valid |-> FALSE, missing |-> FALSE,
   taken |-> <<>>]
Taken(ctx, words) ==
  [ctx |-> ctx, ok |-> TRUE, found |-> TRUE, valid |-> TRUE, missing |-> FALSE,
   taken |-> words]

\* How an argument recognises its word.
IsOfKind(w, arg) ==
  CASE arg.kind = "OptionLong"  -> IsArgLongOption(w)
    [] arg.kind = "OptionShort" -> IsArgShortOption(w)
    [] arg.kind = "Consume"     -> w = <<Hyphens>>
    [] arg.kind = "Number"      -> IsArgNumber(w)
    [] arg.kind = "ThreadGrp"   -> IsArgThreadGrp(w)
    [] arg.kind = "File"        -> IsFilePath(w)
    [] arg.kind = "String"      -> IsStringArg(w, arg.quotes, arg.numbers, arg.paths)

\* The first word of its kind, wherever it stands.
ValidateWord(ctx, arg) ==
  LET words == GetArgs(ctx)
      j     == First({i \in DOMAIN words : IsOfKind(words[i], arg)})
  IN IF j = None THEN Failure(ctx) ELSE Taken(RemoveArg(ctx, words[j]), <<words[j]>>)

\* Types of the options of an option and of the members of a list.
IsExpectedCorrectType(w, type) ==
  CASE type = "Number"                   -> IsArgNumber(w)
    [] type = "String"                   -> IsStringArg(w, FALSE, FALSE, FALSE)
    [] type = "StringQuoted"             -> IsStringArg(w, TRUE, FALSE, FALSE)
    [] type = "StringQuotedNumber"       -> IsStringArg(w, TRUE, TRUE, FALSE)
    [] type = "StringQuotedNumberPath"   -> IsStringArg(w, TRUE, TRUE, TRUE)
    [] type = "StringAnything"           -> TRUE
    [] type = "ThreadGrp"                -> IsArgThreadGrp(w)

\* An option's value is the word that has come to its own place.  No command has
\* an option with more than one.
ExtractExpectedOptions(ctx, j, arg) ==
  LET words == GetArgs(ctx) IN
  IF j \in DOMAIN words /\ IsExpectedCorrectType(words[j], arg.type)
    THEN Taken(RemoveArgAtPos(ctx, j), <<<<arg.flag>>, words[j]>>)
    ELSE [Failure(ctx) EXCEPT !.found = TRUE, !.missing = TRUE, !.taken = <<<<arg.flag>>>>]

\* A word that is alone must be a long option: a short one is not recognised.
ValidateOption(ctx, arg) ==
  LET words == GetArgs(ctx)
      alone == Len(words) = 1
      Is(w) == w = <<arg.flag>> /\ IF alone THEN IsArgLongOption(w) ELSE IsOfKind(w, arg)
      j     == First({i \in DOMAIN words : Is(words[i])})
  IN CASE j = None          -> Failure(ctx)
       [] arg.type = "none" -> Taken(RemoveArg(ctx, words[j]), <<words[j]>>)
       [] OTHER             -> ExtractExpectedOptions(RemoveArg(ctx, words[j]), j, arg)

\* With quotes the first word, without the first that is a string.
ValidateString(ctx, arg) ==
  LET words == GetArgs(ctx) IN
  IF ~arg.quotes THEN ValidateWord(ctx, arg)
  ELSE IF words # <<>> /\ IsOfKind(words[1], arg)
         THEN Taken(RemoveArg(ctx, words[1]), <<words[1]>>)
  ELSE Failure(ctx)

\* Any first word; m_bFound is not set.
ValidateText(ctx) ==
  LET words == GetArgs(ctx) IN
  IF words = <<>> THEN Failure(ctx)
  ELSE [Taken(RemoveArg(ctx, words[1]), <<words[1]>>) EXCEPT !.found = FALSE]

ValidatePrintValues(ctx) ==
  LET words == GetArgs(ctx) IN
  IF words # <<>> /\ Len(words[1]) = 1 /\ words[1][1] \in PrintWords
    THEN Taken(RemoveArg(ctx, words[1]), <<words[1]>>)
    ELSE Failure(ctx)

\* All of the text, if each member is of the type.
ValidateListOfN(ctx, arg) ==
  LET quoted == arg.type \in {"StringQuotedNumber", "StringAnything"}
      words  == IF quoted THEN SplitConsiderQuotes(ctx) ELSE Split(ctx)
  IN IF words # <<>> /\ \A j \in DOMAIN words : IsExpectedCorrectType(words[j], arg.type)
       THEN Taken(RemoveArg(ctx, ctx), words)
       ELSE Failure(ctx)

\* An argument with some text to look at.
ValidateIn(ctx, arg) ==
  CASE arg.kind \in {"OptionLong", "OptionShort"} -> ValidateOption(ctx, arg)
    [] arg.kind \in {"Consume", "Number", "ThreadGrp", "File"} -> ValidateWord(ctx, arg)
    [] arg.kind = "String"      -> ValidateString(ctx, arg)
    [] arg.kind = "Text"        -> ValidateText(ctx)
    [] arg.kind = "PrintValues" -> ValidatePrintValues(ctx)
    [] arg.kind = "ListOfN"     -> ValidateListOfN(ctx, arg)

\* Succeeding whenever there is no text (mutant).
ValidateOptional(ctx, arg) ==
  IF ctx = Nothing THEN [Failure(ctx) EXCEPT !.ok = TRUE] ELSE ValidateIn(ctx, arg)

\* An argument that sees no text succeeds unless it is mandatory.
Validate(ctx, arg) ==
  IF ctx = Nothing THEN [Failure(ctx) EXCEPT !.ok = ~arg.mandatory]
  ELSE ValidateIn(ctx, arg)

-----------------------------------------------------------------------------
(* What the commands declare *)

Argument(kind, flag, mandatory, type) ==
  [kind |-> kind, flag |-> flag, mandatory |-> mandatory, type |-> type,
   quotes |-> FALSE, numbers |-> FALSE, paths |-> FALSE]

OptionLong(flag, type)  == Argument("OptionLong", flag, FALSE, type)
OptionShort(flag, type) == Argument("OptionShort", flag, FALSE, type)
Number(mandatory)       == Argument("Number", "none", mandatory, "none")
File                    == Argument("File", "none", TRUE, "none")
Text                    == Argument("Text", "none", TRUE, "none")
PrintValues(mandatory)  == Argument("PrintValues", "none", mandatory, "none")
ThreadGrp               == Argument("ThreadGrp", "none", FALSE, "none")
Consume                 == Argument("Consume", "none", FALSE, "none")
ListOfN(mandatory, type) == Argument("ListOfN", "none", mandatory, type)
String(mandatory)       == Argument("String", "none", mandatory, "none")

Mandatory(arg)   == [arg EXCEPT !.mandatory = TRUE]
WithQuotes(arg)  == [arg EXCEPT !.quotes = TRUE]
WithNumbers(arg) == [arg EXCEPT !.numbers = TRUE]
WithPaths(arg)   == [arg EXCEPT !.paths = TRUE]

\* Added to every command before its own.
CommonArgs ==
  << OptionLong("--thread-group", "ThreadGrp"), OptionLong("--thread", "Number"),
     OptionLong("--frame", "Number"), Consume >>

BreakInsert ==
  << OptionShort("-t", "none"), OptionShort("-f", "none"), OptionShort("-d", "none"),
     OptionShort("-c", "StringQuoted"), OptionShort("-i", "Number"),
     OptionShort("-p", "Number"), WithPaths(String(FALSE)) >>
BreakDelete    == << ListOfN(TRUE, "Number") >>
BreakDisable   == << ListOfN(TRUE, "Number") >>
BreakEnable    == << ListOfN(TRUE, "Number") >>
BreakAfter     == << Number(TRUE), Number(TRUE) >>
BreakCondition ==
  << Number(TRUE), WithNumbers(WithQuotes(String(TRUE))),
     ListOfN(FALSE, "StringQuotedNumber") >>
BreakWatch     == << OptionShort("-a", "none"), OptionShort("-r", "none"), Text >>

DataEvaluateExpression == << Text >>
DataDisassemble ==
  << Mandatory(OptionShort("-s", "StringQuotedNumber")),
     Mandatory(OptionShort("-e", "StringQuotedNumber")), Number(TRUE) >>
DataReadMemoryBytes ==
  << OptionShort("-o", "Number"), WithNumbers(WithQuotes(String(TRUE))), Number(TRUE) >>
DataListRegisterNames  == << ListOfN(FALSE, "Number") >>
DataListRegisterValues ==
  << OptionLong("--thread", "Number"), OptionLong("--skip-unavailable", "none"),
     String(TRUE), ListOfN(FALSE, "Number") >>
DataWriteMemoryBytes ==
  << WithNumbers(String(TRUE)), WithNumbers(WithQuotes(String(TRUE))), Number(FALSE) >>
DataWriteMemory ==
  << OptionShort("-o", "Number"), Number(TRUE), String(TRUE), Number(TRUE), Number(TRUE) >>
DataInfoLine   == << String(TRUE) >>

EnvironmentCd      == << File >>
ExecRun            == << OptionLong("--start", "none") >>
ExecNext           == << Number(FALSE) >>
ExecStep           == << Number(FALSE) >>
ExecNextInstruction == << Number(FALSE) >>
ExecStepInstruction == << Number(FALSE) >>
ExecArguments      == << ListOfN(FALSE, "StringAnything") >>
FileExecAndSymbols ==
  << File, OptionShort("-p", "String"), OptionShort("-r", "StringQuotedNumberPath") >>
GdbInfo            == << String(TRUE) >>
GdbSet             == << ListOfN(TRUE, "StringAnything") >>
GdbShow            == << ListOfN(TRUE, "StringAnything") >>
ListThreadGroups ==
  << OptionLong("--available", "none"), OptionLong("--recurse", "Number"),
     ListOfN(FALSE, "Number"), ThreadGrp >>
InterpreterExec    == << String(TRUE), WithQuotes(String(TRUE)) >>

StackInfoDepth     == << Number(FALSE) >>
StackListFrames    == << Number(FALSE), Number(FALSE) >>
StackListArguments == << PrintValues(TRUE), Number(FALSE), Number(FALSE) >>
StackListLocals    == << PrintValues(TRUE) >>
StackListVariables == << PrintValues(TRUE) >>
StackSelectFrame   == << Number(TRUE) >>
SupportInfo        == << String(TRUE) >>
SymbolListLines    == << File >>
TargetSelect       == << String(TRUE), String(TRUE) >>
TargetAttach ==
  << Number(FALSE), OptionShort("-n", "String"), OptionLong("--waitfor", "none") >>
ThreadInfo         == << Number(FALSE) >>
ThreadSelect       == << Number(TRUE) >>

VarCreate          == << String(FALSE), String(FALSE), Text >>
VarUpdate          == << PrintValues(FALSE), String(TRUE) >>
VarDelete          == << String(TRUE) >>
VarAssign          == << String(TRUE), Text >>
VarSetFormat       == << String(TRUE), String(TRUE) >>
VarListChildren ==
  << PrintValues(FALSE), WithQuotes(String(TRUE)), Number(FALSE), Number(FALSE) >>
\* The option's name is "-f", with its hyphen, and is never recognised.
VarEvaluateExpression == << OptionShort("--f", "String"), String(TRUE) >>
VarInfoPathExpression == << String(TRUE) >>
VarShowAttributes     == << String(TRUE) >>

Signatures ==
  [ break_insert |-> BreakInsert, break_delete |-> BreakDelete,
    break_disable |-> BreakDisable, break_enable |-> BreakEnable,
    break_after |-> BreakAfter, break_condition |-> BreakCondition,
    break_watch |-> BreakWatch,
    data_evaluate_expression |-> DataEvaluateExpression,
    data_disassemble |-> DataDisassemble,
    data_read_memory_bytes |-> DataReadMemoryBytes,
    data_list_register_names |-> DataListRegisterNames,
    data_list_register_values |-> DataListRegisterValues,
    data_write_memory_bytes |-> DataWriteMemoryBytes,
    data_write_memory |-> DataWriteMemory, data_info_line |-> DataInfoLine,
    environment_cd |-> EnvironmentCd, exec_run |-> ExecRun, exec_next |-> ExecNext,
    exec_step |-> ExecStep, exec_next_instruction |-> ExecNextInstruction,
    exec_step_instruction |-> ExecStepInstruction, exec_arguments |-> ExecArguments,
    file_exec_and_symbols |-> FileExecAndSymbols, gdb_info |-> GdbInfo,
    gdb_set |-> GdbSet, gdb_show |-> GdbShow, list_thread_groups |-> ListThreadGroups,
    interpreter_exec |-> InterpreterExec, stack_info_depth |-> StackInfoDepth,
    stack_list_frames |-> StackListFrames, stack_list_arguments |-> StackListArguments,
    stack_list_locals |-> StackListLocals, stack_list_variables |-> StackListVariables,
    stack_select_frame |-> StackSelectFrame, support_info |-> SupportInfo,
    symbol_list_lines |-> SymbolListLines, target_select |-> TargetSelect,
    target_attach |-> TargetAttach, thread_info |-> ThreadInfo,
    thread_select |-> ThreadSelect, var_create |-> VarCreate, var_update |-> VarUpdate,
    var_delete |-> VarDelete, var_assign |-> VarAssign,
    var_set_format |-> VarSetFormat, var_list_children |-> VarListChildren,
    var_evaluate_expression |-> VarEvaluateExpression,
    var_info_path_expression |-> VarInfoPathExpression,
    var_show_attributes |-> VarShowAttributes ]

ArgsOf(c) == CommonArgs \o Signatures[c]

ASSUME ArgumentsAssumption ==
  /\ Commands \subseteq DOMAIN Signatures
  /\ MaxOptions \in Nat /\ MaxWords \in Nat /\ MaxChars \in Nat

-----------------------------------------------------------------------------
(* Lines to try *)

\* A console command is shielded and wrapped before the line is taken apart.
Shielded(content) == <<Quote>> \o AddSlashes(content) \o <<Quote>>
Wrapped(content)  == <<"command", Space>> \o Shielded(content)

Names == {<<"name">>, <<"other">>}
Exprs == {<<"a", Space, "--thread", Space, "b">>, <<"a", Space, "1", Space, "b">>,
          <<"a", Quote, "b">>}

\* The words with which an argument's value can be written.
NumbersWritten == {<<"1">>, <<"2">>}
TextsWritten   == Names \cup {Shielded(e) : e \in Exprs}
AnyWritten     == {<<"name">>, <<"1">>, Shielded(<<"a", Space, "--thread", Space, "b">>)}

\* Of the type of an option or a list.
WrittenAs(type) ==
  CASE type = "Number"       -> NumbersWritten
    [] type = "ThreadGrp"    -> {<<"i1">>}
    [] type = "String"       -> Names
    [] type = "StringQuoted" -> AnyWritten \ {<<"1">>}
    [] OTHER                 -> AnyWritten

Written(arg) ==
  CASE arg.kind = "Number"      -> NumbersWritten
    [] arg.kind = "ThreadGrp"   -> {<<"i1">>}
    [] arg.kind = "PrintValues" -> {<<"1">>, <<"--all-values">>}
    [] arg.kind = "File"        -> {<<"dir/file">>, <<Quote, "dir/file", Space, "name", Quote>>}
    [] arg.kind = "Text"        -> TextsWritten
    [] arg.kind = "String"      -> (IF arg.quotes THEN TextsWritten ELSE Names)
                                     \cup (IF arg.numbers THEN {<<"1">>} ELSE {})
                                     \cup (IF arg.paths THEN {<<"dir/file">>} ELSE {})

\* An argument in a line is its place in the signature and its words.
IsOption(arg) == arg.kind \in {"OptionLong", "OptionShort"}
WordsFor(arg) ==
  CASE IsOption(arg) /\ arg.type = "none" -> {<<<<arg.flag>>>>}
    [] IsOption(arg)         -> {<<<<arg.flag>>, w>> : w \in WrittenAs(arg.type)}
    [] arg.kind = "Consume"  -> {<<<<Hyphens>>>>}
    [] arg.kind = "ListOfN"  ->
         UNION {{<<w>>, <<w, v>>} : w, v \in WrittenAs(arg.type)}
    [] OTHER                 -> {<<w>> : w \in Written(arg)}

\* All lines with the arguments at these places of the signature, in this order.
LinesWith(args, places) ==
  FoldLeft(LAMBDA lines, j : {Append(l, [arg |-> j, words |-> ws]) :
                                l \in lines, ws \in WordsFor(args[j])},
           {<<>>}, places)

\* Which arguments a line may have besides options: the mandatory ones, and others
\* as far as the place of one left out is not taken by the next.  Nothing can follow
\* a list.
Parameters(args) ==
  LET all == {j \in DOMAIN args : ~IsOption(args[j]) /\ args[j].kind # "Consume"} IN
  {P \in SUBSET all :
     /\ \A j \in all : args[j].mandatory => j \in P
     /\ \A j \in all \ P, k \in P :
          j < k => args[j].kind \in {"PrintValues", "ListOfN"}
     /\ \A j, k \in P : j < k => args[j].kind # "ListOfN"}

\* Not the ones that are never found: declared after a common one of the same name,
\* or with a wrong name.
Options(args) ==
  LET all == {j \in DOMAIN args :
                /\ IsOption(args[j]) /\ args[j].flag # "--f"
                /\ \A k \in 1..j - 1 : args[k].flag # args[j].flag}
  IN
  {O \in SUBSET all :
     /\ \A j \in all : args[j].mandatory => j \in O
     /\ Cardinality({j \in O : ~args[j].mandatory}) <= MaxOptions
     /\ Cardinality(O \cap DOMAIN CommonArgs) <= 1}

Ascending(S) == SortSeq(SetToSeq(S), <)

\* The options in any order, on the side of the parameters on which the signature
\* has them; the common ones on either side.
Orders(args) ==
  UNION {
    LET common == O \cap DOMAIN CommonArgs
        first  == IF P = {} THEN Len(args) + 1 ELSE CHOOSE j \in P : \A k \in P : j <= k
        before == {j \in O \ common : j < first}
        after  == {j \in O \ common : j > first}
        Order(b, h, a) == {s \o h \o Ascending(P) \o t : s \in SetToSeqs(b), t \in SetToSeqs(a)}
        hyphens == << Len(CommonArgs) >>
    IN UNION {Order(before \cup common, <<>>, after), Order(before, <<>>, after \cup common),
              IF after = {} THEN Order(before \cup common, hyphens, after) ELSE {}}
    : O \in Options(args), P \in Parameters(args)}

Correct(c) == UNION {LinesWith(ArgsOf(c), places) : places \in Orders(ArgsOf(c))}

WordsOf(line) == FlattenSeq([j \in DOMAIN line |-> line[j].words])

\* Correct lines without optional parameters, less one mandatory argument.
Incomplete(c) ==
  LET args == ArgsOf(c)
      mandatory == {j \in DOMAIN args : args[j].mandatory}
  IN UNION {LinesWith(args, Ascending(mandatory \ {j})) : j \in mandatory}

AnyWords(c) ==
  {<<"name">>, <<"1">>, <<"--thread">>, Shielded(<<"a", Space, "1", Space, "b">>)}
    \cup {<<arg.flag>> : arg \in {a \in ToSet(Signatures[c]) : IsOption(a)}}
AnyLine(c) == UNION {[1..n -> AnyWords(c)] : n \in 0..MaxWords}

-----------------------------------------------------------------------------
(* CMICmdArgSet *)

VARIABLES
  cmd,         \* the command
  purpose,     \* what kind of line it is: "correct", "incomplete", "any", "console"
  line,        \* the arguments of a correct line
  text,        \* its text
  ctx,         \* the text that is left
  next,        \* the argument whose turn it is
  taken,       \* the words that each argument has taken
  missing,     \* m_setCmdArgsThatAreMissing
  invalid,     \* m_setCmdArgsThatNotValid
  missingInfo, \* m_setCmdArgsMissingInfo
  result       \* "accepted", "refused", or "none" yet

vars == <<cmd, purpose, line, text, ctx, next, taken, missing, invalid, missingInfo, result>>

Args == ArgsOf(cmd)

TypeOK ==
  /\ cmd \in Commands
  /\ next \in 1..Len(Args) + 1
  /\ DOMAIN taken = 1..Len(Args)
  /\ missing \subseteq DOMAIN Args /\ invalid \subseteq DOMAIN Args
  /\ missingInfo \subseteq DOMAIN Args
  /\ result \in {"none", "accepted", "refused"}
  /\ Len(ctx) <= Len(text)

InitWith(c, p, l, t) ==
  /\ cmd = c /\ purpose = p /\ line = l /\ text = t
  /\ ctx = t
  /\ next = 1
  /\ taken = [j \in 1..Len(ArgsOf(c)) |-> <<>>]
  /\ missing = {} /\ invalid = {} /\ missingInfo = {}
  /\ result = "none"

Init ==
  \E c \in Commands :
    \/ \E l \in Correct(c) : InitWith(c, "correct", l, Joined(WordsOf(l)))
    \/ \E l \in Incomplete(c) : InitWith(c, "incomplete", l, Joined(WordsOf(l)))
    \/ \E ws \in AnyLine(c) : InitWith(c, "any", <<>>, Joined(ws))
    \/ /\ c = "interpreter_exec"
       /\ \E content \in BoundedSeq(Typed, MaxChars) \ {<<>>} :
            InitWith(c, "console", content, Wrapped(content))

ValidateNext ==
  /\ next <= Len(Args)
  /\ LET Listed(list, if) == IF if THEN list \cup {next} ELSE list
     IN \E v \in {Validate(ctx, Args[next])} :
        /\ ctx' = v.ctx
        /\ taken' = [taken EXCEPT ![next] = v.taken]
        /\ missing' = Listed(missing, ~v.ok /\ ~v.found /\ Args[next].mandatory)
        /\ missingInfo' = Listed(missingInfo, ~v.ok /\ v.found /\ v.missing)
        /\ invalid' = Listed(invalid, ~v.ok /\ v.found /\ ~v.missing /\ ~v.valid)
  /\ next' = next + 1
  /\ UNCHANGED <<cmd, purpose, line, text, result>>

\* What is left over is mentioned in an error message, but is not an error.
ValidationFormErrorMessages ==
  /\ next > Len(Args) /\ result = "none"
  /\ result' = IF missing = {} /\ invalid = {} /\ missingInfo = {} THEN "accepted" ELSE "refused"
  /\ UNCHANGED <<cmd, purpose, line, text, ctx, next, taken, missing, invalid, missingInfo>>

Next == ValidateNext \/ ValidationFormErrorMessages

Spec == Init /\ [][Next]_vars

-----------------------------------------------------------------------------
(* Properties *)

\* An option's word stands in a quoted word before it, and would be cut out of that.
HiddenInQuotes ==
  \E j, k \in DOMAIN line :
    j < k /\ \E w \in ToSet(line[j].words) : Len(w) > 1 /\ Has(w, {line[k].words[1][1]})

\* When its turn comes there is nothing else left: a short option is not recognised.
LoneShortOption ==
  \E k \in DOMAIN line :
    /\ Args[line[k].arg].kind = "OptionShort" /\ Args[line[k].arg].type = "none"
    /\ \A j \in DOMAIN line \ {k} : line[j].arg < line[k].arg

\* In a correct line, options in any order and common options on either side of the
\* parameters, each argument takes its own words and nothing is left over.
ArgumentsFound ==
  purpose = "correct" /\ result # "none" /\ ~HiddenInQuotes /\ ~LoneShortOption =>
    /\ result = "accepted"
    /\ ctx = Nothing
    /\ \A j \in DOMAIN Args :
         taken[j] = FlattenSeq([k \in DOMAIN line |-> IF line[k].arg = j THEN line[k].words ELSE <<>>])

\* A line without a mandatory argument is refused, whatever stands in its place.
OmissionRefused ==
  purpose = "incomplete" /\ result # "none" => result = "refused"

\* A line that is accepted has each of its words in one argument or left over,
\* unless a word has been found inside a quoted one.
WordsKept ==
  purpose = "any" /\ result = "accepted" =>
    LET words == GetArgs(text)
        inQuotes == \E w \in ToSet(words) : Len(w) > 1 /\ \E v \in ToSet(words) : Len(v) = 1 /\ Has(w, {v[1]})
        Count(s, w) == Cardinality({j \in DOMAIN s : s[j] = w})
        kept  == FlattenSeq(taken) \o GetArgs(ctx)
    IN inQuotes \/ \A w \in ToSet(words) \cup ToSet(kept) : Count(words, w) = Count(kept, w)

\* LLDB's interpreter is given the console command as it was typed.
ConsoleCommandKept ==
  purpose = "console" /\ result # "none" =>
    result = "accepted" /\ TextOf(taken[Len(Args)][1]) = line

\* A list of anything gets all words of the line (CMICmdArgValListBase.h: "Accept
\* any words for a string 'type' even if they look like --longOptions for example").
AnyWordsAccepted ==
  Signatures[cmd] \in {<<ListOfN(m, "StringAnything")>> : m \in BOOLEAN} /\ result = "accepted"
    => taken[Len(Args)] = GetArgs(text)
=============================================================================
