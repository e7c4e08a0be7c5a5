----------------------------- MODULE OutputDrain ----------------------------
(***************************************************************************)
(* Printing what the inferior writes.                                      *)
(*                                                                         *)
(* A handler of a process event calls GetProcessStdout and then            *)
(* GetProcessStderr.  Each reads LLDB's buffer for its stream a chunk at a *)
(* time until a read returns nothing, prints a record for each full line   *)
(* and at the end one for the unfinished line.  The inferior writes in the *)
(* meantime.                                                               *)
(***************************************************************************)
EXTENDS Integers, Sequences

CONSTANTS
  ChunkSize,  \* bytes of a read; 1024 in the code
  MaxWritten, \* bound: bytes that the inferior writes to a stream
  Breaks      \* the streams to which the inferior writes newlines

Streams == {"stdout", "stderr"}
Bytes   == {"char", "newline"}

ASSUME OutputDrainAssumption ==
  /\ ChunkSize \in Nat \ {0}
  /\ MaxWritten \in Nat
  /\ Breaks \subseteq Streams

VARIABLES
  buffer,  \* LLDB's buffer of each stream
  pc,      \* control point of the event thread
  stream,  \* the stream that it reads
  last,    \* the last stream that its handler reads
  text,    \* its local text
  nBytes,  \* its local nBytes
  \* History:
  written, \* what the inferior has written to each stream
  printed, \* what has been printed of each stream
  cut,     \* length of printed after the last record with no newline
  due      \* length of written when the handler was entered

thread  == <<pc, stream, last, text, nBytes>>
history == <<printed, cut>>
vars    == <<buffer, thread, written, history, due>>

TypeOK ==
  /\ buffer \in [Streams -> Seq(Bytes)]
  /\ pc \in {"idle", "read", "find", "print"}
  /\ stream \in Streams /\ last \in Streams
  /\ text \in Seq(Bytes)
  /\ nBytes \in 0..ChunkSize
  /\ written \in [Streams -> Seq(Bytes)]
  /\ printed \in [Streams -> Seq(Bytes)]
  /\ cut \in [Streams -> Nat]
  /\ due \in [Streams -> 0..MaxWritten]

Init ==
  /\ buffer = [s \in Streams |-> <<>>]
  /\ pc = "idle" /\ stream = "stdout" /\ last = "stdout"
  /\ text = <<>> /\ nBytes = 0
  /\ written = buffer
  /\ printed = buffer
  /\ cut = [s \in Streams |-> 0]
  /\ due = cut

\* The inferior writes a byte, whenever it likes.
Write(s, b) ==
  /\ Len(written[s]) < MaxWritten
  /\ b = "newline" => s \in Breaks
  /\ written' = [written EXCEPT ![s] = Append(@, b)]
  /\ buffer' = [buffer EXCEPT ![s] = Append(@, b)]
  /\ UNCHANGED <<thread, history, due>>

\* A change of the process's state reads both streams, the events for new output
\* read one; there is something to print, or not.
Enter(first, final) ==
  /\ pc = "idle"
  /\ pc' = "read" /\ stream' = first /\ last' = final /\ text' = <<>>
  /\ due' = [s \in Streams |-> IF s \in {first, final} THEN Len(written[s])
                             ELSE due[s]]
  /\ UNCHANGED <<buffer, nBytes, written, history>>

HandleStateChanged == Enter("stdout", "stderr")
HandleStdout == Enter("stdout", "stdout")
HandleStderr == Enter("stderr", "stderr")

\* SBProcess::GetSTDOUT or GetSTDERR, and text.append.  Mutant: the text that
\* is left is forgotten.
Smaller(m, n) == IF m < n THEN m ELSE n

Fetch(n, kept) ==
  /\ pc = "read"
  /\ nBytes' = n
  /\ text' = kept \o SubSeq(buffer[stream], 1, n)
  /\ buffer' = [buffer EXCEPT ![stream] = SubSeq(@, n + 1, Len(@))]
  /\ pc' = "find"
  /\ UNCHANGED <<stream, last, written, history, due>>

ReadForgets == Fetch(Smaller(ChunkSize, Len(buffer[stream])), <<>>)
Read == Fetch(Smaller(ChunkSize, Len(buffer[stream])), text)

HasNewline(t) == \E i \in DOMAIN t : t[i] = "newline"
IsFirstNewline(t, n) ==
  t[n] = "newline" /\ \A j \in 1..(n - 1) : t[j] # "newline"

\* text.find.
FindNewline ==
  /\ pc = "find" /\ HasNewline(text)
  /\ pc' = "print"
  /\ UNCHANGED <<buffer, stream, last, text, nBytes, written, history, due>>

\* History: at most MaxPrinted bytes are kept of what is printed of a stream.
MaxPrinted == 2 * MaxWritten
Emit(t) ==
  printed' = [printed EXCEPT ![stream] =
                LET all == @ \o t
                IN  SubSeq(all, 1, Smaller(MaxPrinted, Len(all)))]

\* A line is printed.  GetProcessStdout then erases it from text,
\* GetProcessStderr does not.  Mutant: neither does.
LeftOfAll(t, n) == t
Left(t, n) == IF stream = "stdout" THEN SubSeq(t, n + 1, Len(t)) ELSE t

PrintLine ==
  /\ pc = "print"
  /\ \E n \in DOMAIN text :
       /\ IsFirstNewline(text, n)
       /\ Emit(SubSeq(text, 1, n))
       /\ text' = Left(text, n)
  /\ pc' = "find"
  /\ UNCHANGED <<buffer, stream, last, nBytes, written, cut, due>>

\* What is left is printed, and it is the turn of the other stream, if any.
Returns ==
  /\ Emit(text)
  /\ cut' = IF text = <<>> THEN cut
            ELSE [cut EXCEPT ![stream] = Len(printed'[stream])]
  /\ text' = <<>>
  /\ stream' = last
  /\ pc' = IF stream = last THEN "idle" ELSE "read"
  /\ UNCHANGED <<buffer, last, nBytes, written, due>>

\* Nothing more to find: read again, unless the last read returned nothing.
\* Mutant: never.
NotFound(again) ==
  /\ pc = "find" /\ ~HasNewline(text)
  /\ \/ /\ again
        /\ pc' = "read"
        /\ UNCHANGED <<buffer, stream, last, text, nBytes, written, history, due>>
     \/ /\ ~again
        /\ Returns

NoNewlineReadOnce == NotFound(FALSE)
NoNewline == NotFound(nBytes # 0)

Drain == Read \/ FindNewline \/ PrintLine \/ NoNewline

Next ==
  \/ \E s \in Streams, b \in Bytes : Write(s, b)
  \/ HandleStateChanged \/ HandleStdout \/ HandleStderr
  \/ Drain

Spec == Init /\ [][Next]_vars

\* The handler runs to its end once it is called; calls may stop.
FairSpec == Spec /\ WF_vars(Drain)

(***************************************************************************)
(* Properties.                                                             *)
(***************************************************************************)

\* Invariant: the program's output is neither lost, nor repeated, nor put in
\* another order, wherever the chunks end and whenever it is written.
OutputPreserved ==
  \A s \in Streams :
    written[s] = printed[s] \o (IF s = stream THEN text ELSE <<>>) \o buffer[s]

\* Invariant: "so we don't see any output come after we print our prompts": when
\* the handler goes on, what had been written when it was entered is printed.
OutputBeforePrompt ==
  pc = "idle" => \A s \in Streams : Len(printed[s]) >= due[s]

\* Action property: a record ends inside a line only if LLDB had no more of
\* it at the read before.
LinesAreWhole ==
  [][\A s \in Streams : cut'[s] # cut[s] => nBytes = 0]_vars

\* Liveness: GetProcessStdout and GetProcessStderr return, provided that the
\* program does not write for ever.
DrainEnds == pc # "idle" ~> pc = "idle"
=============================================================================
