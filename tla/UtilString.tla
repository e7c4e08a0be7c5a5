----------------------------- MODULE UtilString -----------------------------
(***************************************************************************)
(* CMIUtilString, as far as commands are taken apart with it.              *)
(*                                                                         *)
(* A text is a sequence of symbols.  A space, a quote and a backslash are  *)
(* symbols of their own; any other symbol is a run of characters between   *)
(* them.                                                                   *)
(***************************************************************************)
EXTENDS Integers, Sequences, SequencesExt

Space     == " "
Quote     == "\""
Backslash == "\\"
Nul       == "NUL"

None      == 0     \* std::string::npos; positions start at 1
Unmatched == -1    \* npos, with vrwbNotFoundClosedQuote set

\* The first of a set of positions.
First(ps) == IF ps = {} THEN None ELSE CHOOSE p \in ps : \A q \in ps : p <= q

FindSymbol(s, x, from) == First({p \in from..Len(s) : s[p] = x})

\* One past the end is not a delimiter.
FindFirstNot(s, x, from) == First({p \in from..Len(s) : s[p] # x})

\* A backslash hides the symbol after it: in a row of them, every other one is
\* hidden itself.
IsHidden(s, p, from) ==
  (p - First({q \in from..p : \A r \in q..p - 1 : s[r] = Backslash})) % 2 = 1

FindFirstQuote(s, from) ==
  First({p \in from..Len(s) : s[p] = Quote /\ ~IsHidden(s, p, from)})

\* FindFirst with vbSkipQuotedText.
FindFirstUnquoted(s, x, from) ==
  LET find[p \in 1..Len(s) + 1] ==
        LET opening == FindFirstQuote(s, p)
            closing == FindFirstQuote(s, opening + 1)
            found   == FindSymbol(s, x, p)
        IN CASE p > Len(s) /\ p # from            -> None
             [] opening = None                    -> found
             [] closing = None                    -> Unmatched
             [] found = None \/ found < opening   -> found
             [] OTHER                             -> find[closing + 1]
  IN find[from]

\* The sections of s between spaces, of any or only those outside quotes; none at
\* all if a quote is left open.
Sections(s, skipQuoted) ==
  LET End(p) == IF skipQuoted THEN FindFirstUnquoted(s, Space, p) ELSE FindSymbol(s, Space, p)
      from[p \in 1..Len(s) + 2] ==
        LET start == FindFirstNot(s, Space, p)
            end   == End(start)
        IN CASE start = None    -> {<<>>}
             [] end = Unmatched -> {}
             [] end = None      -> {<<SubSeq(s, start, Len(s))>>}
             [] OTHER -> {<<SubSeq(s, start, end - 1)>> \o rest : rest \in from[end + 1]}
  IN IF from[1] = {} THEN <<>> ELSE CHOOSE sections \in from[1] : TRUE

Split(s) == Sections(s, FALSE)

SplitConsiderQuotes(s) == Sections(s, TRUE)

\* A text of spaces only is left as it is.
TrimSpace(s) ==
  LET inside == {p \in DOMAIN s : s[p] # Space} IN
  IF inside = {} THEN s
  ELSE SubSeq(s, First(inside), CHOOSE p \in inside : \A q \in inside : q <= p)

\* One pair of the character around the text.
Trim(s, x) ==
  IF Len(s) > 1 /\ s[1] = x /\ s[Len(s)] = x THEN SubSeq(s, 2, Len(s) - 1) ELSE s

Escaped(s, symbols) ==
  FoldLeft(LAMBDA r, x : IF x \in symbols THEN r \o <<Backslash, x>> ELSE Append(r, x),
           <<>>, s)

\* Escaping quotes only (mutant).
AddSlashesToQuotes(s) == Escaped(s, {Quote})

AddSlashes(s) == Escaped(s, {Quote, Backslash})

\* A backslash that hides neither a quote nor a backslash is kept.  One at the end
\* is taken to hide the terminating NUL, which is appended.
StripSlashes(s) ==
  LET from[p \in 1..Len(s) + 2] ==
        IF p > Len(s) THEN <<>>
        ELSE IF s[p] # Backslash THEN <<s[p]>> \o from[p + 1]
        ELSE LET hidden == IF p = Len(s) THEN Nul ELSE s[p + 1] IN
             (IF hidden \in {Quote, Backslash} THEN <<hidden>> ELSE <<Backslash, hidden>>)
               \o from[p + 2]
  IN from[1]
=============================================================================
