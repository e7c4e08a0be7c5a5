-------------------------- MODULE OutputDrainProofs --------------------------
(***************************************************************************)
(* Proofs about OutputDrain: for any size of the reads and any amount of   *)
(* output, what the program writes is printed once and in order, provided  *)
(* that it writes no newline to stderr; and it is printed before the       *)
(* handler goes on, whatever it writes.                                    *)
(*                                                                         *)
(* OutputPreserved is nearly inductive.  It lacks that there is no newline *)
(* of stderr, where a printed line would not be erased; text is empty when *)
(* a handler is entered; and the history is never cut off, because written *)
(* is bounded.                                                             *)
(*                                                                         *)
(* Lines of stderr are printed over and over, so OutputBeforePrompt rests  *)
(* on lengths instead: what is printed, held and buffered is at least what *)
(* was written, and a read that returns nothing leaves nothing buffered.   *)
(***************************************************************************)
EXTENDS OutputDrain, SequenceTheorems, TLAPS

Bounded == \A s \in Streams : Len(written[s]) <= MaxWritten

Lines == \A s \in Streams \ Breaks : ~HasNewline(written[s])

NothingHeld == pc = "idle" => text = <<>>

IInv == TypeOK /\ Bounded /\ Lines /\ NothingHeld /\ OutputPreserved

Held(s) == IF s = stream THEN text ELSE <<>>

NoneMissing ==
  \A s \in Streams :
    \/ Len(printed[s]) >= MaxWritten
    \/ Len(printed[s]) + Len(Held(s)) + Len(buffer[s]) >= Len(written[s])

\* After a read that has returned nothing, all there was at the entry is in hand.
AllRead ==
  pc \in {"find", "print"} /\ nBytes = 0 =>
    \/ Len(printed[stream]) >= MaxWritten
    \/ Len(printed[stream]) + Len(text) >= due[stream]

\* The streams that the handler is done with, or does not read.
DonePrinted ==
  \A s \in Streams :
    pc = "idle" \/ s \notin {stream, last} => Len(printed[s]) >= due[s]

DueWritten == \A s \in Streams : due[s] <= Len(written[s])

PInv == /\ TypeOK /\ Bounded /\ NothingHeld
        /\ NoneMissing /\ AllRead /\ DonePrinted /\ DueWritten

(***************************************************************************)
(* Sequences.                                                              *)
(***************************************************************************)

\* A sequence cut in two is its two parts.
LEMMA CutInTwo ==
  ASSUME NEW S, NEW t \in Seq(S), NEW n \in 0..Len(t)
  PROVE  /\ SubSeq(t, 1, n) \in Seq(S)
         /\ SubSeq(t, n + 1, Len(t)) \in Seq(S)
         /\ SubSeq(t, 1, n) \o SubSeq(t, n + 1, Len(t)) = t
  <1>1. Len(t) \in Nat /\ \A i \in 1..Len(t) : t[i] \in S
    BY LenProperties, ElementOfSeq
  <1>2. SubSeq(t, 1, n) \in Seq(S)
    BY <1>1, SubSeqProperties
  <1>3. SubSeq(t, n + 1, Len(t)) \in Seq(S)
    BY <1>1, SubSeqProperties
  <1>4. SubSeq(t, 1, n) \o SubSeq(t, n + 1, Len(t)) = SubSeq(t, 1, Len(t))
    <2>1. 1 \in 1..(Len(t) + 1) /\ n \in (1 - 1)..Len(t) /\ Len(t) \in n..Len(t)
      BY <1>1
    <2>2. QED
      BY <2>1, ConcatAdjacentSubSeq
  <1>5. QED
    BY <1>2, <1>3, <1>4, SubSeqFull

LEMMA Associative ==
  \A s, t, u \in Seq(Bytes) : (s \o t) \o u = s \o (t \o u)
  BY ConcatAssociative

\* A history within its bound is kept whole.
LEMMA KeptWhole ==
  ASSUME NEW t \in Seq(Bytes), Len(t) <= MaxWritten
  PROVE  SubSeq(t, 1, Smaller(MaxPrinted, Len(t))) = t
  <1>1. Len(t) \in Nat
    BY LenProperties
  <1>2. Smaller(MaxPrinted, Len(t)) = Len(t)
    BY <1>1, OutputDrainAssumption DEF Smaller, MaxPrinted
  <1>3. QED
    BY <1>2, SubSeqFull

(***************************************************************************)
(* The parts of what was written.                                          *)
(***************************************************************************)

LEMMA PartsAreSeqs ==
  ASSUME TypeOK, NEW s \in Streams
  PROVE  /\ written[s] \in Seq(Bytes) /\ printed[s] \in Seq(Bytes)
         /\ buffer[s] \in Seq(Bytes) /\ Held(s) \in Seq(Bytes)
         /\ text \in Seq(Bytes)
  BY DEF TypeOK, Held

\* What is in the hands of the event thread is no longer than what was written.
LEMMA PartsFit ==
  ASSUME IInv
  PROVE  Len(printed[stream] \o text) <= MaxWritten
  <1> stream \in Streams
    BY DEF IInv, TypeOK
  <1>1. written[stream] = (printed[stream] \o text) \o buffer[stream]
    BY DEF IInv, OutputPreserved
  <1>2. /\ printed[stream] \o text \in Seq(Bytes)
        /\ buffer[stream] \in Seq(Bytes)
    BY PartsAreSeqs, ConcatProperties DEF IInv
  <1>3. Len(written[stream]) = Len(printed[stream] \o text) + Len(buffer[stream])
    BY <1>1, <1>2, ConcatProperties
  <1>4. Len(printed[stream] \o text) \in Nat /\ Len(buffer[stream]) \in Nat
    BY <1>2, LenProperties
  <1>5. Len(written[stream]) <= MaxWritten
    BY DEF IInv, Bounded
  <1>6. QED
    <2> DEFINE a == Len(printed[stream] \o text)
               c == Len(buffer[stream])
               w == Len(written[stream])
    <2>1. w = a + c /\ a \in Nat /\ c \in Nat /\ w <= MaxWritten
      BY <1>3, <1>4, <1>5
    <2> HIDE DEF a, c, w
    <2>2. a <= MaxWritten
      BY <2>1, OutputDrainAssumption
    <2>3. QED
      BY <2>2 DEF a

\* A stream without newlines has none in text.
LEMMA NoNewlineHeld ==
  ASSUME IInv, stream \notin Breaks
  PROVE  ~HasNewline(text)
  <1> stream \in Streams
    BY DEF IInv, TypeOK
  <1> DEFINE p == printed[stream]
             b == buffer[stream]
             w == written[stream]
  <1>1. w = (p \o text) \o b
    BY DEF IInv, OutputPreserved
  <1>2. p \in Seq(Bytes) /\ text \in Seq(Bytes) /\ b \in Seq(Bytes)
    BY PartsAreSeqs DEF IInv
  <1>3. Len(p) \in Nat /\ Len(text) \in Nat /\ Len(b) \in Nat
    BY <1>2, LenProperties
  <1>4. /\ p \o text \in Seq(Bytes)
        /\ Len(p \o text) = Len(p) + Len(text)
        /\ \A i \in 1..Len(text) : (p \o text)[Len(p) + i] = text[i]
    <2> HIDE DEF p, b, w
    <2> QED
      BY <1>2, <1>3, ConcatProperties
  <1>5. /\ Len(w) = Len(p) + Len(text) + Len(b)
        /\ \A i \in 1..Len(text) : w[Len(p) + i] = text[i]
    <2> HIDE DEF p, b, w
    <2> QED
      BY <1>1, <1>2, <1>3, <1>4, ConcatProperties
  <1>6. ~HasNewline(w)
    BY DEF IInv, Lines
  <1>7. DOMAIN w = 1..Len(w) /\ DOMAIN text = 1..Len(text)
    BY <1>2, PartsAreSeqs, LenProperties DEF IInv
  <1>8. SUFFICES ASSUME NEW i \in 1..Len(text), text[i] = "newline" PROVE FALSE
    BY <1>7 DEF HasNewline
  <1>9. Len(p) + i \in 1..Len(w) /\ w[Len(p) + i] = "newline"
    <2> HIDE DEF p, b, w
    <2> QED
      BY <1>3, <1>5, <1>8
  <1>10. QED
    BY <1>6, <1>7, <1>9 DEF HasNewline

\* What Emit prints, when it is what is in hand or its first part.
LEMMA Emitted ==
  ASSUME IInv, NEW t \in Seq(Bytes), NEW rest \in Seq(Bytes), t \o rest = text,
         Emit(t)
  PROVE  printed' = [printed EXCEPT ![stream] = @ \o t]
  <1> stream \in Streams
    BY DEF IInv, TypeOK
  <1> DEFINE p == printed[stream]
  <1>1. p \in Seq(Bytes) /\ p \o t \in Seq(Bytes)
    BY PartsAreSeqs, ConcatProperties DEF IInv
  <1>2. Len(p \o t) <= MaxWritten
    <2>1. Len(p \o t) = Len(p) + Len(t)
      <3> HIDE DEF p
      <3> QED
        BY <1>1, ConcatProperties
    <2>2. Len(text) = Len(t) + Len(rest)
      BY ConcatProperties
    <2>3. Len(p \o text) = Len(p) + Len(text)
      <3>1. text \in Seq(Bytes)
        BY PartsAreSeqs DEF IInv
      <3> HIDE DEF p
      <3> QED
        BY <1>1, <3>1, ConcatProperties
    <2>4. Len(p) \in Nat /\ Len(t) \in Nat /\ Len(rest) \in Nat
      BY <1>1, LenProperties
    <2>5. Len(p) + Len(text) <= MaxWritten
      BY <2>3, PartsFit
    <2> HIDE DEF p
    <2>6. QED
      BY <2>1, <2>2, <2>4, <2>5, OutputDrainAssumption
  <1>3. SubSeq(p \o t, 1, Smaller(MaxPrinted, Len(p \o t))) = p \o t
    BY <1>1, <1>2, KeptWhole
  <1>4. QED
    BY <1>3 DEF Emit

(***************************************************************************)
(* The steps.                                                              *)
(***************************************************************************)

LEMMA InitIInv == Init => IInv
  <1> SUFFICES ASSUME Init PROVE IInv
    OBVIOUS
  <1>1. /\ \A s \in Streams :
             written[s] = <<>> /\ printed[s] = <<>> /\ buffer[s] = <<>>
        /\ text = <<>>
    BY DEF Init
  <1>2. <<>> \in Seq(Bytes) /\ Len(<<>>) = 0 /\ <<>> \o <<>> \o <<>> = <<>>
    BY EmptySeq, ConcatEmptySeq
  <1>3. TypeOK
    BY <1>2, OutputDrainAssumption DEF Init, TypeOK, Streams
  <1>4. Bounded
    BY <1>1, <1>2, OutputDrainAssumption DEF Bounded
  <1>5. Lines
    <2>1. DOMAIN <<>> = {}
      OBVIOUS
    <2>2. QED
      BY <1>1, <2>1 DEF Lines, HasNewline
  <1>6. NothingHeld
    BY <1>1 DEF NothingHeld
  <1>7. OutputPreserved
    <2>1. \A s \in Streams : (IF s = stream THEN text ELSE <<>>) = <<>>
      BY <1>1
    <2>2. QED
      BY <1>1, <1>2, <2>1 DEF OutputPreserved
  <1>8. QED
    BY <1>3, <1>4, <1>5, <1>6, <1>7 DEF IInv

\* The inferior's step appends the same byte on both sides.
LEMMA WriteIInv ==
  ASSUME IInv, NEW s \in Streams, NEW b \in Bytes, Write(s, b)
  PROVE  IInv'
  <1> USE DEF IInv, thread, history
  <1>1. /\ written' = [written EXCEPT ![s] = Append(written[s], b)]
        /\ buffer' = [buffer EXCEPT ![s] = Append(buffer[s], b)]
        /\ UNCHANGED <<pc, stream, last, text, nBytes, printed, cut, due>>
        /\ Len(written[s]) < MaxWritten
        /\ b = "newline" => s \in Breaks
    BY DEF Write
  <1>2. /\ written[s] \in Seq(Bytes) /\ buffer[s] \in Seq(Bytes)
        /\ Len(written[s]) \in Nat
    BY PartsAreSeqs, LenProperties
  <1>3. /\ Append(written[s], b) \in Seq(Bytes)
        /\ Append(buffer[s], b) \in Seq(Bytes)
        /\ Len(Append(written[s], b)) = Len(written[s]) + 1
        /\ \A i \in 1..Len(written[s]) : Append(written[s], b)[i] = written[s][i]
        /\ Append(written[s], b)[Len(written[s]) + 1] = b
    BY <1>2, AppendProperties
  <1>4. TypeOK'
    BY <1>1, <1>3 DEF TypeOK
  <1>5. Bounded'
    <2> SUFFICES ASSUME NEW q \in Streams PROVE Len(written'[q]) <= MaxWritten
      BY DEF Bounded
    <2>1. CASE q = s
      BY <1>1, <1>2, <1>3, <2>1, OutputDrainAssumption DEF TypeOK
    <2>2. CASE q # s
      BY <1>1, <2>2 DEF Bounded, TypeOK
    <2>3. QED
      BY <2>1, <2>2
  <1>6. Lines'
    <2> SUFFICES ASSUME NEW q \in Streams \ Breaks PROVE ~HasNewline(written'[q])
      BY DEF Lines
    <2>1. CASE q = s
      <3>1. b # "newline" /\ ~HasNewline(written[s])
        BY <1>1, <2>1 DEF Lines
      <3>2. /\ DOMAIN written[s] = 1..Len(written[s])
            /\ DOMAIN Append(written[s], b) = 1..(Len(written[s]) + 1)
        BY <1>2, <1>3, LenProperties
      <3>3. ~HasNewline(Append(written[s], b))
        BY <1>2, <1>3, <3>1, <3>2 DEF HasNewline
      <3>4. QED
        BY <1>1, <2>1, <3>3 DEF TypeOK
    <2>2. CASE q # s
      BY <1>1, <2>2 DEF Lines, TypeOK
    <2>3. QED
      BY <2>1, <2>2
  <1>7. NothingHeld'
    BY <1>1 DEF NothingHeld
  <1>8. OutputPreserved'
    <2> SUFFICES ASSUME NEW q \in Streams
                 PROVE  written'[q] = printed'[q] \o Held(q)' \o buffer'[q]
      BY DEF OutputPreserved, Held
    <2>1. Held(q)' = Held(q) /\ printed'[q] = printed[q]
      BY <1>1 DEF Held
    <2>2. CASE q = s
      <3> DEFINE d == printed[s] \o Held(s)
      <3>1. d \in Seq(Bytes)
        BY PartsAreSeqs, ConcatProperties
      <3>2. written[s] = d \o buffer[s]
        BY DEF OutputPreserved, Held
      <3>3. <<b>> \in Seq(Bytes)
        OBVIOUS
      <3>4. (d \o buffer[s]) \o <<b>> = d \o (buffer[s] \o <<b>>)
        <4> HIDE DEF d
        <4> QED
          BY <1>2, <3>1, <3>3, Associative
      <3>5. /\ Append(written[s], b) = written[s] \o <<b>>
            /\ Append(buffer[s], b) = buffer[s] \o <<b>>
        BY <1>2, AppendIsConcat
      <3>6. Append(written[s], b) = d \o Append(buffer[s], b)
        BY <3>2, <3>4, <3>5
      <3>7. written'[s] = Append(written[s], b) /\ buffer'[s] = Append(buffer[s], b)
        BY <1>1 DEF TypeOK
      <3>8. QED
        BY <2>1, <2>2, <3>6, <3>7
    <2>3. CASE q # s
      <3>1. written'[q] = written[q] /\ buffer'[q] = buffer[q]
        BY <1>1, <2>3 DEF TypeOK
      <3>2. QED
        BY <2>1, <3>1 DEF OutputPreserved, Held
    <2>4. QED
      BY <2>2, <2>3
  <1>9. QED
    BY <1>4, <1>5, <1>6, <1>7, <1>8

\* A handler is entered with nothing in hand.
LEMMA EnterIInv ==
  ASSUME IInv, NEW first \in Streams, NEW final \in Streams, Enter(first, final)
  PROVE  IInv'
  <1> USE DEF IInv
  <1>1. /\ pc = "idle" /\ pc' = "read" /\ stream' = first /\ last' = final
        /\ text = <<>> /\ text' = <<>>
        /\ UNCHANGED <<buffer, nBytes, written, printed, cut>>
        /\ due' = [s \in Streams |-> IF s \in {first, final} THEN Len(written[s])
                                     ELSE due[s]]
    BY DEF Enter, NothingHeld, history
  <1>2. \A s \in Streams : Len(written[s]) \in 0..MaxWritten
    BY PartsAreSeqs, LenProperties, OutputDrainAssumption DEF Bounded
  <1>3. TypeOK'
    BY <1>1, <1>2 DEF TypeOK
  <1>4. Bounded' /\ Lines' /\ NothingHeld'
    BY <1>1 DEF Bounded, Lines, NothingHeld
  <1>5. OutputPreserved'
    BY <1>1 DEF OutputPreserved
  <1>6. QED
    BY <1>3, <1>4, <1>5

\* A read moves bytes from the buffer to the end of text.
LEMMA ReadIInv == ASSUME IInv, Read PROVE IInv'
  <1> USE DEF IInv
  <1> stream \in Streams
    BY DEF TypeOK
  <1> DEFINE b == buffer[stream]
             n == Smaller(ChunkSize, Len(b))
             x == SubSeq(b, 1, n)
             y == SubSeq(b, n + 1, Len(b))
  <1>1. /\ pc = "read" /\ pc' = "find" /\ nBytes' = n /\ text' = text \o x
        /\ buffer' = [buffer EXCEPT ![stream] = y]
        /\ UNCHANGED <<stream, last, written, printed, cut, due>>
    BY DEF Read, Fetch, history
  <1>2. b \in Seq(Bytes) /\ Len(b) \in Nat
    BY PartsAreSeqs, LenProperties
  <1>3. n \in 0..Len(b) /\ n \in 0..ChunkSize
    BY <1>2, OutputDrainAssumption DEF Smaller
  <1>4. x \in Seq(Bytes) /\ y \in Seq(Bytes) /\ x \o y = b
    <2> HIDE DEF n, b
    <2> QED
      BY <1>2, <1>3, CutInTwo
  <1> HIDE DEF n, x, y
  <1>5. text \in Seq(Bytes) /\ text \o x \in Seq(Bytes)
    BY <1>4, ConcatProperties DEF TypeOK
  <1>6. TypeOK'
    BY <1>1, <1>3, <1>4, <1>5 DEF TypeOK
  <1>7. Bounded' /\ Lines' /\ NothingHeld'
    BY <1>1 DEF Bounded, Lines, NothingHeld
  <1>8. OutputPreserved'
    <2> SUFFICES ASSUME NEW q \in Streams
                 PROVE  written'[q] = printed'[q] \o Held(q)' \o buffer'[q]
      BY DEF OutputPreserved, Held
    <2>1. CASE q = stream
      <3> DEFINE p == printed[stream]
      <3>1. p \in Seq(Bytes) /\ p \o text \in Seq(Bytes)
        BY <1>5, PartsAreSeqs, ConcatProperties
      <3>2. written[stream] = (p \o text) \o b
        BY DEF OutputPreserved
      <3>3. (p \o text) \o (x \o y) = (p \o (text \o x)) \o y
        <4> HIDE DEF p
        <4>1. (p \o text) \o (x \o y) = ((p \o text) \o x) \o y
          BY <1>4, <3>1, Associative
        <4>2. (p \o text) \o x = p \o (text \o x)
          BY <1>4, <1>5, <3>1, Associative
        <4>3. QED
          BY <4>1, <4>2
      <3>4. buffer'[stream] = y /\ Held(stream)' = text \o x
        BY <1>1 DEF TypeOK, Held
      <3>5. QED
        BY <1>1, <1>4, <2>1, <3>2, <3>3, <3>4
    <2>2. CASE q # stream
      <3>1. buffer'[q] = buffer[q] /\ Held(q)' = <<>> /\ Held(q) = <<>>
        BY <1>1, <2>2 DEF TypeOK, Held
      <3>2. QED
        BY <1>1, <2>2, <3>1 DEF OutputPreserved, Held
    <2>3. QED
      BY <2>1, <2>2
  <1>9. QED
    BY <1>6, <1>7, <1>8

LEMMA FindNewlineIInv == ASSUME IInv, FindNewline PROVE IInv'
  <1>1. /\ pc = "find" /\ pc' = "print"
        /\ UNCHANGED <<buffer, stream, last, text, nBytes, written, printed, cut,
                       due>>
    BY DEF FindNewline, history
  <1>2. QED
    BY <1>1 DEF IInv, TypeOK, Bounded, Lines, NothingHeld, OutputPreserved

\* The first part of text, or all of it, moves to the end of what is printed.
LEMMA EmitPreserves ==
  ASSUME IInv, NEW t \in Seq(Bytes), NEW rest \in Seq(Bytes), t \o rest = text,
         Emit(t), text' = rest, stream' = stream \/ rest = <<>>,
         stream' \in Streams, UNCHANGED <<buffer, written>>
  PROVE  /\ OutputPreserved'
         /\ printed' \in [Streams -> Seq(Bytes)]
  <1> USE DEF IInv
  <1> stream \in Streams
    BY DEF TypeOK
  <1> DEFINE p == printed[stream]
  <1>1. printed' = [printed EXCEPT ![stream] = p \o t]
    BY Emitted
  <1>2. p \in Seq(Bytes) /\ p \o t \in Seq(Bytes)
    BY PartsAreSeqs, ConcatProperties
  <1>3. printed' \in [Streams -> Seq(Bytes)]
    BY <1>1, <1>2 DEF TypeOK
  <1>4. OutputPreserved'
    <2> SUFFICES ASSUME NEW q \in Streams
                 PROVE  written'[q] = printed'[q] \o Held(q)' \o buffer'[q]
      BY DEF OutputPreserved, Held
    <2>1. CASE q = stream
      <3>1. written[stream] = (p \o text) \o buffer[stream]
        BY DEF OutputPreserved
      <3>2. p \o (t \o rest) = (p \o t) \o rest
        <4> HIDE DEF p
        <4> QED
          BY <1>2, Associative
      <3>3. printed'[stream] = p \o t
        BY <1>1 DEF TypeOK
      <3>4. Held(q)' = rest
        BY <2>1 DEF Held
      <3>5. QED
        BY <2>1, <3>1, <3>2, <3>3, <3>4
    <2>2. CASE q # stream
      <3>1. printed'[q] = printed[q]
        BY <1>1, <2>2 DEF TypeOK
      <3>2. Held(q)' = <<>> /\ Held(q) = <<>>
        BY <2>2 DEF Held
      <3>3. QED
        BY <2>2, <3>1, <3>2 DEF OutputPreserved, Held
    <2>3. QED
      BY <2>1, <2>2
  <1>5. QED
    BY <1>3, <1>4

\* Without newlines on stderr the line that is printed is always erased.
LEMMA PrintLineIInv ==
  ASSUME Breaks \subseteq {"stdout"}, IInv, PrintLine
  PROVE  IInv'
  <1> USE DEF IInv
  <1>1. PICK n \in DOMAIN text :
          /\ IsFirstNewline(text, n)
          /\ Emit(SubSeq(text, 1, n))
          /\ text' = Left(text, n)
    BY DEF PrintLine
  <1>2. /\ pc = "print" /\ pc' = "find"
        /\ UNCHANGED <<buffer, stream, last, nBytes, written, cut, due>>
    BY DEF PrintLine
  <1>3. text \in Seq(Bytes) /\ n \in 0..Len(text)
    BY LenProperties DEF TypeOK
  <1>4. HasNewline(text)
    BY <1>1 DEF HasNewline, IsFirstNewline
  <1>5. stream = "stdout"
    BY <1>4, NoNewlineHeld DEF TypeOK, Streams
  <1> DEFINE t == SubSeq(text, 1, n)
             rest == SubSeq(text, n + 1, Len(text))
  <1>6. t \in Seq(Bytes) /\ rest \in Seq(Bytes) /\ t \o rest = text
    BY <1>3, CutInTwo
  <1>7. Emit(t) /\ text' = rest
    BY <1>1, <1>5 DEF Left
  <1> HIDE DEF t, rest
  <1>8. OutputPreserved' /\ printed' \in [Streams -> Seq(Bytes)]
    BY <1>2, <1>6, <1>7, EmitPreserves DEF TypeOK
  <1>9. TypeOK'
    BY <1>2, <1>6, <1>7, <1>8 DEF TypeOK
  <1>10. Bounded' /\ Lines' /\ NothingHeld'
    BY <1>2 DEF Bounded, Lines, NothingHeld
  <1>11. QED
    BY <1>8, <1>9, <1>10

LEMMA NoNewlineIInv == ASSUME IInv, NoNewline PROVE IInv'
  <1> USE DEF IInv
  <1>1. CASE /\ pc' = "read"
             /\ UNCHANGED <<buffer, stream, last, text, nBytes, written, history,
                            due>>
    BY <1>1 DEF history, TypeOK, Bounded, Lines, NothingHeld, OutputPreserved
  <1>2. CASE Returns
    <2>1. /\ Emit(text) /\ text' = <<>> /\ stream' = last
          /\ cut' = IF text = <<>> THEN cut
                    ELSE [cut EXCEPT ![stream] = Len(printed'[stream])]
          /\ pc' = IF stream = last THEN "idle" ELSE "read"
          /\ UNCHANGED <<buffer, last, nBytes, written, due>>
      BY <1>2 DEF Returns
    <2>2. /\ text \in Seq(Bytes) /\ <<>> \in Seq(Bytes) /\ text \o <<>> = text
          /\ stream \in Streams /\ last \in Streams
      BY ConcatEmptySeq, EmptySeq DEF TypeOK
    <2>3. OutputPreserved' /\ printed' \in [Streams -> Seq(Bytes)]
      BY <2>1, <2>2, EmitPreserves
    <2>4. cut' \in [Streams -> Nat]
      <3>1. Len(printed'[stream]) \in Nat
        BY <2>2, <2>3, LenProperties
      <3>2. QED
        BY <2>1, <2>2, <3>1 DEF TypeOK
    <2>5. TypeOK'
      BY <2>1, <2>2, <2>3, <2>4 DEF TypeOK
    <2>6. Bounded' /\ Lines' /\ NothingHeld'
      BY <2>1 DEF Bounded, Lines, NothingHeld
    <2>7. QED
      BY <2>3, <2>5, <2>6
  <1>3. QED
    BY <1>1, <1>2 DEF NoNewline, NotFound

LEMMA NextIInv ==
  ASSUME Breaks \subseteq {"stdout"}
  PROVE  IInv /\ [Next]_vars => IInv'
  <1> SUFFICES ASSUME IInv, [Next]_vars PROVE IInv'
    OBVIOUS
  <1>1. CASE \E s \in Streams, b \in Bytes : Write(s, b)
    BY <1>1, WriteIInv
  <1>2. CASE HandleStateChanged \/ HandleStdout \/ HandleStderr
    BY <1>2, EnterIInv
       DEF HandleStateChanged, HandleStdout, HandleStderr, Streams
  <1>3. CASE Read BY <1>3, ReadIInv
  <1>4. CASE FindNewline BY <1>4, FindNewlineIInv
  <1>5. CASE PrintLine BY <1>5, PrintLineIInv
  <1>6. CASE NoNewline BY <1>6, NoNewlineIInv
  <1>7. CASE UNCHANGED vars
    BY <1>7 DEF vars, thread, history, IInv, TypeOK, Bounded, Lines, NothingHeld,
                OutputPreserved
  <1>8. QED
    BY <1>1, <1>2, <1>3, <1>4, <1>5, <1>6, <1>7 DEF Next, Drain

(***************************************************************************)
(* The steps again, in lengths, whatever there is on stderr.               *)
(***************************************************************************)

LEMMA Lengths ==
  ASSUME TypeOK, NEW s \in Streams
  PROVE  /\ Len(written[s]) \in Nat /\ Len(printed[s]) \in Nat /\ Len(buffer[s]) \in Nat
         /\ Len(text) \in Nat /\ Len(Held(s)) \in Nat /\ MaxWritten \in Nat
         /\ due[s] \in 0..MaxWritten /\ stream \in Streams /\ last \in Streams
  BY PartsAreSeqs, LenProperties, OutputDrainAssumption DEF TypeOK

LEMMA EmptyLength == Len(<<>>) = 0 /\ <<>> \in Seq(Bytes)
  OBVIOUS

\* What is emitted is added to what was printed, up to the bound of the history.
LEMMA EmittedLength ==
  ASSUME TypeOK, NEW t \in Seq(Bytes), Emit(t)
  PROVE  /\ printed' \in [Streams -> Seq(Bytes)]
         /\ \A s \in Streams : s # stream => printed'[s] = printed[s]
         /\ Len(printed'[stream]) =
              Smaller(MaxPrinted, Len(printed[stream]) + Len(t))
  <1> stream \in Streams
    BY DEF TypeOK
  <1> DEFINE p == printed[stream]
             k == Smaller(MaxPrinted, Len(p \o t))
  <1>1. p \in Seq(Bytes)
    BY PartsAreSeqs
  <1>2. printed' = [printed EXCEPT ![stream] = SubSeq(p \o t, 1, k)]
    BY DEF Emit
  <1> HIDE DEF p
  <1>3. p \o t \in Seq(Bytes) /\ Len(p \o t) = Len(p) + Len(t)
    BY <1>1, ConcatProperties
  <1>4. Len(p \o t) \in Nat
    BY <1>3, LenProperties
  <1>5. k \in 0..Len(p \o t)
    BY <1>4, OutputDrainAssumption DEF Smaller, MaxPrinted
  <1> HIDE DEF k
  <1>6. SubSeq(p \o t, 1, k) \in Seq(Bytes) /\ Len(SubSeq(p \o t, 1, k)) = k
    <2>1. SubSeq(p \o t, 1, k) \in Seq(Bytes)
      BY <1>3, <1>5, CutInTwo
    <2>2. \A i \in 1..k : (p \o t)[i] \in Bytes
      BY <1>3, <1>4, <1>5, ElementOfSeq
    <2>3. Len(SubSeq(p \o t, 1, k)) = k
      BY <1>5, <2>2, SubSeqProperties
    <2>4. QED
      BY <2>1, <2>3
  <1>7. printed' \in [Streams -> Seq(Bytes)] /\ printed'[stream] = SubSeq(p \o t, 1, k)
    BY <1>2, <1>6 DEF TypeOK
  <1>8. \A s \in Streams : s # stream => printed'[s] = printed[s]
    BY <1>2 DEF TypeOK
  <1>9. QED
    BY <1>3, <1>6, <1>7, <1>8 DEF k, p

LEMMA InitPInv == Init => PInv
  <1> SUFFICES ASSUME Init PROVE PInv
    OBVIOUS
  <1>1. /\ TypeOK /\ Bounded /\ NothingHeld
        /\ \A s \in Streams : written[s] = <<>> /\ due[s] = 0
        /\ pc = "idle"
    BY InitIInv DEF IInv, Init
  <1>2. \A s \in Streams : /\ Len(written[s]) = 0 /\ due[s] = 0
                           /\ Len(printed[s]) \in Nat /\ Len(buffer[s]) \in Nat
                           /\ Len(Held(s)) \in Nat
    BY <1>1, Lengths, EmptyLength
  <1>3. NoneMissing
    <2>1. \A i, j, k \in Nat : i + j + k >= 0
      OBVIOUS
    <2>2. QED
      BY <1>2, <2>1 DEF NoneMissing
  <1>4. AllRead /\ DonePrinted /\ DueWritten
    BY <1>1, <1>2 DEF AllRead, DonePrinted, DueWritten
  <1>5. QED
    BY <1>1, <1>3, <1>4 DEF PInv

\* The sums of lengths that the steps need.
LEMMA OneMore ==
  \A p, h, k, w, m \in Nat :
    p >= m \/ p + h + k >= w => p >= m \/ p + h + (k + 1) >= w + 1
  OBVIOUS

LEMMA Moved ==
  \A p, h, i, j, w, m \in Nat :
    p >= m \/ p + h + (i + j) >= w => p >= m \/ p + (h + i) + j >= w
  OBVIOUS

LEMMA Printed ==
  \A p, q, t, r, k, m \in Nat, w \in Int :
    /\ \/ q >= m
       \/ q + r >= p + t /\ ~(p >= m)
    /\ p >= m \/ p + t + k >= w
    => q >= m \/ q + r + k >= w
  OBVIOUS

LEMMA WritePInv ==
  ASSUME PInv, NEW s \in Streams, NEW b \in Bytes, Write(s, b)
  PROVE  PInv'
  <1> USE DEF PInv
  <1>1. /\ written' = [written EXCEPT ![s] = Append(written[s], b)]
        /\ buffer' = [buffer EXCEPT ![s] = Append(buffer[s], b)]
        /\ UNCHANGED <<pc, stream, last, text, nBytes, printed, cut, due>>
        /\ Len(written[s]) < MaxWritten
    BY DEF Write, thread, history
  <1>2. /\ Append(written[s], b) \in Seq(Bytes)
        /\ Append(buffer[s], b) \in Seq(Bytes)
        /\ Len(Append(written[s], b)) = Len(written[s]) + 1
        /\ Len(Append(buffer[s], b)) = Len(buffer[s]) + 1
    BY PartsAreSeqs, AppendProperties
  <1>3. TypeOK'
    BY <1>1, <1>2 DEF TypeOK
  <1>4. \A q \in Streams : IF q = s
          THEN Len(written'[q]) = Len(written[q]) + 1 /\ Len(buffer'[q]) = Len(buffer[q]) + 1
          ELSE written'[q] = written[q] /\ buffer'[q] = buffer[q]
    BY <1>1, <1>2 DEF TypeOK
  <1>5. \A q \in Streams : Held(q)' = Held(q)
    BY <1>1 DEF Held
  <1>6. Bounded' /\ NoneMissing' /\ DueWritten'
    <2> SUFFICES ASSUME NEW q \in Streams
                 PROVE  /\ Len(written'[q]) <= MaxWritten
                        /\ \/ Len(printed'[q]) >= MaxWritten
                           \/ Len(printed'[q]) + Len(Held(q)') + Len(buffer'[q])
                                >= Len(written'[q])
                        /\ due'[q] <= Len(written'[q])
      BY DEF Bounded, NoneMissing, DueWritten
    <2>1. /\ Len(written[q]) <= MaxWritten /\ due[q] <= Len(written[q])
          /\ \/ Len(printed[q]) >= MaxWritten
             \/ Len(printed[q]) + Len(Held(q)) + Len(buffer[q]) >= Len(written[q])
      BY DEF Bounded, NoneMissing, DueWritten
    <2>2. /\ Len(printed[q]) \in Nat /\ Len(Held(q)) \in Nat /\ Len(buffer[q]) \in Nat
          /\ Len(written[q]) \in Nat /\ due[q] \in Nat /\ MaxWritten \in Nat
      BY Lengths
    <2>3. printed'[q] = printed[q] /\ Held(q)' = Held(q) /\ due'[q] = due[q]
      BY <1>1, <1>5
    <2>4. CASE q = s
      <3>1. Len(written'[q]) = Len(written[q]) + 1 /\ Len(buffer'[q]) = Len(buffer[q]) + 1
        BY <1>4, <2>4
      <3>2. Len(written[q]) < MaxWritten
        BY <1>1, <2>4
      <3>3. QED
        <4>1. \/ Len(printed[q]) >= MaxWritten
              \/ Len(printed[q]) + Len(Held(q)) + (Len(buffer[q]) + 1) >= Len(written[q]) + 1
          BY <2>1, <2>2, OneMore
        <4>2. Len(written[q]) + 1 <= MaxWritten /\ due[q] <= Len(written[q]) + 1
          BY <2>1, <2>2, <3>2
        <4>3. QED
          BY <2>3, <3>1, <4>1, <4>2
    <2>5. CASE q # s
      BY <1>4, <2>1, <2>3, <2>5
    <2>6. QED
      BY <2>4, <2>5
  <1>7. NothingHeld' /\ AllRead' /\ DonePrinted'
    BY <1>1 DEF NothingHeld, AllRead, DonePrinted
  <1>8. QED
    BY <1>3, <1>6, <1>7

LEMMA EnterPInv ==
  ASSUME PInv, NEW first \in Streams, NEW final \in Streams, Enter(first, final)
  PROVE  PInv'
  <1> USE DEF PInv
  <1>1. /\ pc = "idle" /\ pc' = "read" /\ stream' = first /\ last' = final
        /\ text = <<>> /\ text' = <<>>
        /\ UNCHANGED <<buffer, nBytes, written, printed, cut>>
        /\ due' = [s \in Streams |-> IF s \in {first, final} THEN Len(written[s])
                                     ELSE due[s]]
    BY DEF Enter, NothingHeld, history
  <1>2. \A s \in Streams : Len(written[s]) \in 0..MaxWritten /\ Held(s) = <<>> /\ Held(s)' = <<>>
    BY <1>1, Lengths DEF Bounded, Held
  <1>3. TypeOK'
    BY <1>1, <1>2, EmptyLength DEF TypeOK
  <1>4. Bounded' /\ NothingHeld' /\ NoneMissing' /\ AllRead'
    BY <1>1, <1>2 DEF Bounded, NothingHeld, NoneMissing, AllRead
  <1>5. DonePrinted'
    BY <1>1 DEF DonePrinted
  <1>6. DueWritten'
    BY <1>1, <1>2 DEF DueWritten
  <1>7. QED
    BY <1>3, <1>4, <1>5, <1>6

LEMMA ReadPInv == ASSUME PInv, Read PROVE PInv'
  <1> USE DEF PInv
  <1> stream \in Streams
    BY DEF TypeOK
  <1> DEFINE b == buffer[stream]
             n == Smaller(ChunkSize, Len(b))
             x == SubSeq(b, 1, n)
             y == SubSeq(b, n + 1, Len(b))
  <1>1. /\ pc = "read" /\ pc' = "find" /\ nBytes' = n /\ text' = text \o x
        /\ buffer' = [buffer EXCEPT ![stream] = y]
        /\ UNCHANGED <<stream, last, written, printed, cut, due>>
    BY DEF Read, Fetch, history
  <1>2. b \in Seq(Bytes) /\ Len(b) \in Nat /\ text \in Seq(Bytes)
    BY PartsAreSeqs, LenProperties
  <1>3. n \in 0..Len(b) /\ n \in 0..ChunkSize /\ (n = 0 => Len(b) = 0)
    BY <1>2, OutputDrainAssumption DEF Smaller
  <1> HIDE DEF n, b
  <1>4. x \in Seq(Bytes) /\ y \in Seq(Bytes) /\ x \o y = b
    BY <1>2, <1>3, CutInTwo
  <1> HIDE DEF x, y
  <1>5. /\ text \o x \in Seq(Bytes) /\ Len(text \o x) = Len(text) + Len(x)
        /\ Len(b) = Len(x) + Len(y) /\ Len(x) \in Nat /\ Len(y) \in Nat
    BY <1>2, <1>4, ConcatProperties, LenProperties
  <1>6. TypeOK'
    BY <1>1, <1>3, <1>4, <1>5 DEF TypeOK
  <1>7. /\ Len(text') = Len(text) + Len(x) /\ Len(buffer'[stream]) = Len(y)
        /\ \A q \in Streams : q # stream => buffer'[q] = buffer[q]
    BY <1>1, <1>5 DEF TypeOK
  <1>8. NoneMissing'
    <2> SUFFICES ASSUME NEW q \in Streams
                 PROVE  \/ Len(printed'[q]) >= MaxWritten
                        \/ Len(printed'[q]) + Len(Held(q)') + Len(buffer'[q]) >= Len(written'[q])
      BY DEF NoneMissing
    <2>1. \/ Len(printed[q]) >= MaxWritten
          \/ Len(printed[q]) + Len(Held(q)) + Len(buffer[q]) >= Len(written[q])
      BY DEF NoneMissing
    <2>2. CASE q = stream
      <3>1. Held(q) = text /\ Held(q)' = text'
        BY <1>1, <2>2 DEF Held
      <3>2. /\ Len(printed[q]) \in Nat /\ Len(text) \in Nat /\ Len(written[q]) \in Nat
            /\ MaxWritten \in Nat
        BY Lengths
      <3>3. Len(buffer[q]) = Len(x) + Len(y) /\ Len(buffer'[q]) = Len(y)
        BY <1>5, <1>7, <2>2 DEF b
      <3>4. printed'[q] = printed[q] /\ written'[q] = written[q]
        BY <1>1
      <3>5. QED
        <4>1. \/ Len(printed[q]) >= MaxWritten
              \/ Len(printed[q]) + Len(text) + (Len(x) + Len(y)) >= Len(written[q])
          BY <2>1, <3>1, <3>3
        <4>2. \/ Len(printed[q]) >= MaxWritten
              \/ Len(printed[q]) + (Len(text) + Len(x)) + Len(y) >= Len(written[q])
          BY <1>5, <3>2, <4>1, Moved
        <4>3. QED
          BY <1>7, <3>1, <3>3, <3>4, <4>2
    <2>3. CASE q # stream
      BY <1>1, <1>7, <2>1, <2>3 DEF Held
    <2>4. QED
      BY <2>2, <2>3
  <1>9. AllRead'
    <2>1. ASSUME nBytes' = 0
          PROVE  \/ Len(printed[stream]) >= MaxWritten
                 \/ Len(printed[stream]) + Len(text') >= due[stream]
      <3>1. Len(buffer[stream]) = 0 /\ Len(x) = 0
        BY <1>1, <1>3, <1>5, <2>1 DEF b
      <3>2. \/ Len(printed[stream]) >= MaxWritten
            \/ Len(printed[stream]) + Len(text) + Len(buffer[stream]) >= Len(written[stream])
        BY DEF NoneMissing, Held
      <3>3. due[stream] <= Len(written[stream])
        BY DEF DueWritten
      <3>4. QED
        BY <1>7, <3>1, <3>2, <3>3, Lengths
    <2>2. QED
      BY <1>1, <2>1 DEF AllRead
  <1>10. Bounded' /\ NothingHeld' /\ DonePrinted' /\ DueWritten'
    BY <1>1 DEF Bounded, NothingHeld, DonePrinted, DueWritten
  <1>11. QED
    BY <1>6, <1>8, <1>9, <1>10

\* A part of text is printed and no more than it erased: as much is left as before.
LEMMA EmitKeeps ==
  ASSUME PInv, NEW t \in Seq(Bytes), NEW rest \in Seq(Bytes), Emit(t),
         Len(t) + Len(rest) >= Len(text)
  PROVE  /\ printed' \in [Streams -> Seq(Bytes)]
         /\ \A s \in Streams : s # stream => printed'[s] = printed[s]
         /\ \A wanted \in Int :
              \/ Len(printed[stream]) >= MaxWritten
              \/ Len(printed[stream]) + Len(text) + Len(buffer[stream]) >= wanted
              => \/ Len(printed'[stream]) >= MaxWritten
                 \/ Len(printed'[stream]) + Len(rest) + Len(buffer[stream]) >= wanted
         /\ \A wanted \in Int :
              \/ Len(printed[stream]) >= MaxWritten
              \/ Len(printed[stream]) + Len(text) >= wanted
              => \/ Len(printed'[stream]) >= MaxWritten
                 \/ Len(printed'[stream]) + Len(rest) >= wanted
  <1> USE DEF PInv
  <1>1. /\ printed' \in [Streams -> Seq(Bytes)]
        /\ \A s \in Streams : s # stream => printed'[s] = printed[s]
        /\ Len(printed'[stream]) = Smaller(MaxPrinted, Len(printed[stream]) + Len(t))
    BY EmittedLength
  <1>2. /\ Len(printed[stream]) \in Nat /\ Len(text) \in Nat /\ Len(buffer[stream]) \in Nat
        /\ MaxWritten \in Nat /\ Len(t) \in Nat /\ Len(rest) \in Nat
    BY Lengths, LenProperties DEF TypeOK
  <1>3. \/ Len(printed'[stream]) >= MaxWritten /\ Len(printed'[stream]) \in Nat
        \/ /\ Len(printed'[stream]) = Len(printed[stream]) + Len(t)
           /\ Len(printed'[stream]) \in Nat
    BY <1>1, <1>2 DEF Smaller, MaxPrinted
  <1>4. \/ Len(printed'[stream]) >= MaxWritten
        \/ /\ Len(printed'[stream]) \in Nat
           /\ Len(printed'[stream]) + Len(rest) >= Len(printed[stream]) + Len(text)
           /\ ~(Len(printed[stream]) >= MaxWritten)
    BY <1>2, <1>3
  <1>5. ASSUME NEW wanted \in Int,
               \/ Len(printed[stream]) >= MaxWritten
               \/ Len(printed[stream]) + Len(text) + Len(buffer[stream]) >= wanted
        PROVE  \/ Len(printed'[stream]) >= MaxWritten
               \/ Len(printed'[stream]) + Len(rest) + Len(buffer[stream]) >= wanted
    BY <1>2, <1>4, <1>5, Printed
  <1>6. ASSUME NEW wanted \in Int,
               \/ Len(printed[stream]) >= MaxWritten
               \/ Len(printed[stream]) + Len(text) >= wanted
        PROVE  \/ Len(printed'[stream]) >= MaxWritten
               \/ Len(printed'[stream]) + Len(rest) >= wanted
    BY <1>2, <1>4, <1>6
  <1>7. QED
    BY <1>1, <1>5, <1>6

LEMMA PrintLinePInv == ASSUME PInv, PrintLine PROVE PInv'
  <1> USE DEF PInv
  <1>1. PICK n \in DOMAIN text : Emit(SubSeq(text, 1, n)) /\ text' = Left(text, n)
    BY DEF PrintLine
  <1>2. /\ pc = "print" /\ pc' = "find"
        /\ UNCHANGED <<buffer, stream, last, nBytes, written, cut, due>>
    BY DEF PrintLine
  <1>3. text \in Seq(Bytes) /\ n \in 0..Len(text) /\ stream \in Streams
    BY LenProperties DEF TypeOK
  <1> DEFINE t == SubSeq(text, 1, n)
             rest == SubSeq(text, n + 1, Len(text))
  <1>4. t \in Seq(Bytes) /\ rest \in Seq(Bytes) /\ t \o rest = text
    BY <1>3, CutInTwo
  <1>5. Emit(t) /\ (text' = rest \/ text' = text)
    BY <1>1 DEF Left
  <1> HIDE DEF t, rest
  <1>6. text' \in Seq(Bytes) /\ Len(t) + Len(text') >= Len(text)
    <2>1. Len(text) = Len(t) + Len(rest) /\ Len(t) \in Nat /\ Len(rest) \in Nat
      BY <1>4, ConcatProperties, LenProperties
    <2>2. QED
      BY <1>3, <1>4, <1>5, <2>1
  <1>7. /\ printed' \in [Streams -> Seq(Bytes)]
        /\ \A s \in Streams : s # stream => printed'[s] = printed[s]
        /\ \A wanted \in Int :
             \/ Len(printed[stream]) >= MaxWritten
             \/ Len(printed[stream]) + Len(text) + Len(buffer[stream]) >= wanted
             => \/ Len(printed'[stream]) >= MaxWritten
                \/ Len(printed'[stream]) + Len(text') + Len(buffer[stream]) >= wanted
        /\ \A wanted \in Int :
             \/ Len(printed[stream]) >= MaxWritten
             \/ Len(printed[stream]) + Len(text) >= wanted
             => \/ Len(printed'[stream]) >= MaxWritten
                \/ Len(printed'[stream]) + Len(text') >= wanted
    BY <1>4, <1>5, <1>6, EmitKeeps
  <1>8. TypeOK'
    BY <1>2, <1>6, <1>7 DEF TypeOK
  <1>9. NoneMissing'
    <2> SUFFICES ASSUME NEW q \in Streams
                 PROVE  \/ Len(printed'[q]) >= MaxWritten
                        \/ Len(printed'[q]) + Len(Held(q)') + Len(buffer'[q]) >= Len(written'[q])
      BY DEF NoneMissing
    <2>1. \/ Len(printed[q]) >= MaxWritten
          \/ Len(printed[q]) + Len(Held(q)) + Len(buffer[q]) >= Len(written[q])
      BY DEF NoneMissing
    <2>2. CASE q = stream
      <3>1. Held(q) = text /\ Held(q)' = text' /\ Len(written[q]) \in Int
        BY <1>2, <2>2, Lengths DEF Held
      <3>2. QED
        BY <1>2, <1>7, <2>1, <2>2, <3>1
    <2>3. CASE q # stream
      BY <1>2, <1>7, <2>1, <2>3 DEF Held
    <2>4. QED
      BY <2>2, <2>3
  <1>10. AllRead'
    <2>1. due[stream] \in Int
      BY <1>3, Lengths
    <2>2. QED
      BY <1>2, <1>7, <2>1 DEF AllRead
  <1>11. DonePrinted'
    BY <1>2, <1>7 DEF DonePrinted
  <1>12. Bounded' /\ NothingHeld' /\ DueWritten'
    BY <1>2 DEF Bounded, NothingHeld, DueWritten
  <1>13. QED
    BY <1>8, <1>9, <1>10, <1>11, <1>12

LEMMA NoNewlinePInv == ASSUME PInv, NoNewline PROVE PInv'
  <1> USE DEF PInv
  <1>1. CASE /\ pc' = "read"
             /\ UNCHANGED <<buffer, stream, last, text, nBytes, written, history,
                            due>>
    <2>1. pc = "find"
      BY DEF NoNewline, NotFound
    <2>2. QED
      BY <1>1, <2>1 DEF history, TypeOK, Bounded, NothingHeld, NoneMissing, Held, AllRead,
                   DonePrinted, DueWritten
  <1>2. CASE nBytes = 0 /\ Returns
    <2>1. /\ Emit(text) /\ text' = <<>> /\ stream' = last
          /\ cut' = IF text = <<>> THEN cut
                    ELSE [cut EXCEPT ![stream] = Len(printed'[stream])]
          /\ pc' = IF stream = last THEN "idle" ELSE "read"
          /\ UNCHANGED <<buffer, last, nBytes, written, due>>
      BY <1>2 DEF Returns
    <2>2. /\ text \in Seq(Bytes) /\ <<>> \in Seq(Bytes) /\ Len(text) + Len(<<>>) >= Len(text)
          /\ stream \in Streams /\ last \in Streams /\ Len(text) \in Nat /\ Len(<<>>) = 0
      BY EmptyLength, LenProperties DEF TypeOK
    <2>3. /\ printed' \in [Streams -> Seq(Bytes)]
          /\ \A s \in Streams : s # stream => printed'[s] = printed[s]
          /\ \A wanted \in Int :
               \/ Len(printed[stream]) >= MaxWritten
               \/ Len(printed[stream]) + Len(text) + Len(buffer[stream]) >= wanted
               => \/ Len(printed'[stream]) >= MaxWritten
                  \/ Len(printed'[stream]) + Len(<<>>) + Len(buffer[stream]) >= wanted
          /\ \A wanted \in Int :
               \/ Len(printed[stream]) >= MaxWritten
               \/ Len(printed[stream]) + Len(text) >= wanted
               => \/ Len(printed'[stream]) >= MaxWritten
                  \/ Len(printed'[stream]) + Len(<<>>) >= wanted
      BY <2>1, <2>2, EmitKeeps
    <2>4. Len(printed'[stream]) \in Nat
      BY <2>2, <2>3, LenProperties
    <2>5. TypeOK'
      BY <2>1, <2>2, <2>3, <2>4 DEF TypeOK
    <2>6. NoneMissing'
      <3> SUFFICES ASSUME NEW q \in Streams
                   PROVE  \/ Len(printed'[q]) >= MaxWritten
                          \/ Len(printed'[q]) + Len(Held(q)') + Len(buffer'[q]) >= Len(written'[q])
        BY DEF NoneMissing
      <3>1. /\ \/ Len(printed[q]) >= MaxWritten
               \/ Len(printed[q]) + Len(Held(q)) + Len(buffer[q]) >= Len(written[q])
            /\ Len(written[q]) \in Int /\ written'[q] = written[q] /\ buffer'[q] = buffer[q]
        <4>1. Len(written[q]) \in Int
          BY Lengths
        <4>2. \/ Len(printed[q]) >= MaxWritten
              \/ Len(printed[q]) + Len(Held(q)) + Len(buffer[q]) >= Len(written[q])
          BY Zenon DEF NoneMissing
        <4>3. QED
          BY <2>1, <4>1, <4>2
      <3>2. Held(q)' = <<>>
        BY <2>1 DEF Held
      <3>3. CASE q = stream
        BY <2>3, <3>1, <3>3, <3>2 DEF Held
      <3>4. CASE q # stream
        BY <2>3, <3>1, <3>4, <3>2 DEF Held
      <3>5. QED
        BY <3>3, <3>4
    <2>7. Len(printed'[stream]) >= due[stream]
      <3>1. \/ Len(printed[stream]) >= MaxWritten
            \/ Len(printed[stream]) + Len(text) >= due[stream]
        BY <1>2 DEF AllRead, NoNewline, NotFound
      <3>2. due[stream] \in 0..MaxWritten /\ MaxWritten \in Nat
        BY <2>2, Lengths
      <3>3. QED
        BY <2>2, <2>3, <2>4, <3>1, <3>2
    <2>8. DonePrinted'
      <3> SUFFICES ASSUME NEW q \in Streams, pc' = "idle" \/ q # last
                   PROVE  Len(printed'[q]) >= due'[q]
        BY <2>1 DEF DonePrinted
      <3>1. CASE q = stream
        BY <2>1, <2>7, <3>1
      <3>2. CASE q # stream
        <4>1. q # last
          BY <2>1, <3>2
        <4>2. Len(printed[q]) >= due[q]
          BY <3>2, <4>1 DEF DonePrinted
        <4>3. QED
          BY <2>1, <2>3, <3>2, <4>2
      <3>3. QED
        BY <3>1, <3>2
    <2>9. Bounded' /\ NothingHeld' /\ AllRead' /\ DueWritten'
      BY <2>1 DEF Bounded, NothingHeld, AllRead, DueWritten
    <2>10. QED
      BY <2>5, <2>6, <2>8, <2>9
  <1>3. QED
    BY <1>1, <1>2 DEF NoNewline, NotFound, TypeOK

LEMMA NextPInv == PInv /\ [Next]_vars => PInv'
  <1> SUFFICES ASSUME PInv, [Next]_vars PROVE PInv'
    OBVIOUS
  <1>1. CASE \E s \in Streams, b \in Bytes : Write(s, b)
    BY <1>1, WritePInv
  <1>2. CASE HandleStateChanged \/ HandleStdout \/ HandleStderr
    BY <1>2, EnterPInv
       DEF HandleStateChanged, HandleStdout, HandleStderr, Streams
  <1>3. CASE Read BY <1>3, ReadPInv
  <1>4. CASE FindNewline
    BY <1>4 DEF FindNewline, history, PInv, TypeOK, Bounded, NothingHeld, NoneMissing,
                Held, AllRead, DonePrinted, DueWritten
  <1>5. CASE PrintLine BY <1>5, PrintLinePInv
  <1>6. CASE NoNewline BY <1>6, NoNewlinePInv
  <1>7. CASE UNCHANGED vars
    BY <1>7 DEF vars, thread, history, PInv, TypeOK, Bounded, NothingHeld, NoneMissing,
                Held, AllRead, DonePrinted, DueWritten
  <1>8. QED
    BY <1>1, <1>2, <1>3, <1>4, <1>5, <1>6, <1>7 DEF Next, Drain

(***************************************************************************)
(* The theorems.                                                           *)
(***************************************************************************)

THEOREM Invariance ==
  ASSUME Breaks \subseteq {"stdout"}
  PROVE  Spec => []IInv
  BY InitIInv, NextIInv, PTL DEF Spec

\* GetProcessStdout and GetProcessStderr print the program's output once and in
\* order, for every size of the array, every amount of output and every moment
\* at which it is written, if there is no newline on stderr.
THEOREM OutputIsPreserved ==
  ASSUME Breaks \subseteq {"stdout"}
  PROVE  Spec => []OutputPreserved
  <1>1. IInv => OutputPreserved
    BY DEF IInv
  <1>2. QED
    BY <1>1, Invariance, PTL

\* PInv holds whatever the program writes, on both streams.
THEOREM PrintedInvariance == Spec => []PInv
  <1>1. QED
    BY InitPInv, NextPInv, PTL DEF Spec

\* The variables keep their types; a read never overruns the array.
THEOREM TypeCorrect == Spec => []TypeOK
  <1>1. PInv => TypeOK
    BY DEF PInv
  <1>2. QED
    BY <1>1, PrintedInvariance, PTL

\* When a handler goes on, to print the prompt or a stop, the output there was when
\* it was entered has been printed: of the streams that it reads and of the others,
\* whatever they contain and whatever is written in the meantime.
THEOREM OutputPrecedesPrompt == Spec => []OutputBeforePrompt
  <1>1. PInv => OutputBeforePrompt
    BY DEF PInv, DonePrinted, OutputBeforePrompt
  <1>2. QED
    BY <1>1, PrintedInvariance, PTL
=============================================================================
