---------------------------- MODULE DecodeCommand ---------------------------
(***************************************************************************)
(* `bcur decode`: the lines of a text, one after the other, to a           *)
(* ur::Decoder, until the message is complete.                             *)
(*                                                                         *)
(* A line that is refused is skipped with a warning, a fatal error ends    *)
(* the command, and so does the end of the text.                           *)
(***************************************************************************)
EXTENDS FountainStream, Sequences

CONSTANTS
  MaxProcessed, MaxFrames, Frames,     \* as in UrDecoder
  Texts,          \* the texts given: sequences of frames and Blank lines
  TypeArgs        \* values of --type; NoArg when it is not given

VARIABLES
  phase, stream, equations, processed, last_indexes, message, error, out,
  accept, locked, terminal, frames_processed, result, counted, types,
                  \* the decoder
  ur_type,        \* --type
  lines,          \* the lines that are not blank
  next,           \* index of the next line
  output,         \* what was written
  exit            \* "running", or how the command ended

decoder == <<phase, stream, equations, processed, last_indexes, message, error,
             out, accept, locked, terminal, frames_processed, result, counted,
             types>>
vars == <<decoder, ur_type, lines, next, output, exit>>

Decoder == INSTANCE UrDecoder WITH AcceptLists <- {{}}

Blank == [head |-> "blank"]
Lines(text) == SelectSeq(text, LAMBDA l : l # Blank)
NoArg == "none"
BadToken == "B@d"        \* --type that UrType::new refuses
Nothing == [kind |-> "none"]

\* The lines are frames; none of them has the name that stands for no type.
ASSUME TextsAssumption ==
  /\ MaxProcessed \in Nat /\ MaxFrames \in Nat /\ MaxFrames > MaxProcessed
  /\ \A f \in Frames : Decoder!FrameValid(f)
  /\ \A text \in Texts : Lines(text) \in Seq(Frames)

Init ==
  /\ Decoder!Init
  /\ ur_type \in TypeArgs
  /\ \E text \in Texts : lines = Lines(text)
  /\ next = 0 /\ output = Nothing /\ exit = "running"

Exit(how) == exit' = how /\ UNCHANGED <<ur_type, lines, next, output>>

\* Before the first line: is there one, and is --type a type
NoLines ==
  /\ exit = "running" /\ next = 0 /\ lines = <<>>
  /\ Exit("no_lines")
  /\ UNCHANGED decoder

BadType ==
  /\ exit = "running" /\ next = 0 /\ lines # <<>> /\ ur_type = BadToken
  /\ Exit("bad_type")
  /\ UNCHANGED decoder

Open ==
  /\ exit = "running" /\ next = 0 /\ lines # <<>> /\ ur_type # BadToken
  /\ next' = 1
  /\ IF ur_type = NoArg THEN UNCHANGED decoder ELSE Decoder!Accept({ur_type})
  /\ UNCHANGED <<ur_type, lines, output, exit>>

\* decoder.receive
Call == Decoder!ReceiveTerminal \/ Decoder!Receive(lines[next])

Continue == next' = next + 1 /\ UNCHANGED <<ur_type, lines, output, exit>>

\* The payload is written, or cannot be.
Write ==
  /\ exit' \in {"ok", "io_error"}
  /\ output' = IF exit' = "ok" THEN terminal' ELSE Nothing
  /\ UNCHANGED <<ur_type, lines, next>>

AfterCallFirst ==      \* a complete line is taken for a complete message
  \/ result' = "Accepted" /\ Write
  \/ result' = "Duplicate" /\ Continue
  \/ result' \in Decoder!Fatal /\ Exit("fatal")
  \/ result' \notin {"Accepted", "Duplicate"} \cup Decoder!Fatal /\ Continue

AfterCallStrict ==      \* a refused line ends the loop
  \/ result' \in {"Accepted", "Duplicate"} /\ terminal'.kind = "Complete" /\ Write
  \/ result' \in {"Accepted", "Duplicate"} /\ terminal'.kind # "Complete" /\ Continue
  \/ result' \in Decoder!Fatal /\ Exit("fatal")
  \/ result' \notin {"Accepted", "Duplicate"} \cup Decoder!Fatal /\ Exit("ended")

\* What the loop does with the result of the call
AfterCall ==
  \/ result' \in {"Accepted", "Duplicate"} /\ terminal'.kind = "Complete" /\ Write
  \/ result' \in {"Accepted", "Duplicate"} /\ terminal'.kind # "Complete" /\ Continue
  \/ result' \in Decoder!Fatal /\ Exit("fatal")
  \/ result' \notin {"Accepted", "Duplicate"} \cup Decoder!Fatal /\ Continue

Feed ==
  /\ exit = "running" /\ next \in DOMAIN lines
  /\ Call
  /\ AfterCall

EndOfText ==
  /\ exit = "running" /\ next > Len(lines) /\ lines # <<>>
  /\ Exit("ended")
  /\ UNCHANGED decoder

Next == NoLines \/ BadType \/ Open \/ Feed \/ EndOfText

Spec == Init /\ [][Next]_vars

-----------------------------------------------------------------------------
(* Properties *)

\* What is written is a whole message, of the type asked for; when the parts
\* it was made of are those of one source, it is that source.
WritesTheMessage ==
  exit = "ok" =>
    /\ output.kind = "Complete"
    /\ ur_type # NoArg => output.ur_type = ur_type
    /\ \A src \in Sources :
         stream # NoStream /\ (\A p \in equations : Honest(p, src))
           => output.message = src.bytes /\ output.length = src.length

\* The lines the session could use: read, of its type, and of its stream.
Readable(l) == l.head = "ok" /\ l.text = "ok" /\ Decoder!BodyError(l) = "none"
OfType(l, type) == l.ur_type = type
Useful ==
  {lines[i].body.part : i \in {j \in DOMAIN lines :
     /\ Readable(lines[j]) /\ OfType(lines[j], locked)
     /\ lines[j].body.kind = "multi" /\ StreamOf(lines[j].body.part) = stream}}

\* "stream ended before the fountain message completed" is said only when it
\* is so: with the type and the stream of the first good line, all the lines
\* of the text together leave a fragment undetermined; and when there was no
\* good line, none can be read under the type asked for.  Lines of other
\* types and streams, repeated and unreadable ones never cost a message.
EndsEarlyOnlyIfShort ==
  exit = "ended" =>
    IF stream # NoStream
    THEN \E c \in Columns(stream) : ~Decoder!Fountain!Spans(Useful, {c})
    ELSE \A i \in DOMAIN lines :
           Readable(lines[i]) => ur_type # NoArg /\ ~OfType(lines[i], ur_type)
=============================================================================
