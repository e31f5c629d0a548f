------------------------------ MODULE Carousel ------------------------------
(***************************************************************************)
(* A one-way transfer: `bcur encode` prints the lines of a message,        *)
(* `bcur qr` cycles through the printed lines, and a reader that sees one  *)
(* frame at a time feeds a ur::Decoder.                                    *)
(*                                                                         *)
(* There is no channel back.  The reader may start late, miss frames, read *)
(* the same frame many times and start over; the sender never learns.  The *)
(* sender is UrEncoder and the reader UrDecoder.                           *)
(***************************************************************************)
EXTENDS FountainStream, Sequences

CONSTANTS
  Messages, Options, U32Max, MaxProcessed, MaxFrames, AcceptLists,
  Type,            \* the type token given to `encode`
  Counts,          \* values of --count; NoCount when it is not given
  MinLines,        \* lines printed without --count, at least (20 in the code)
  MaxRestarts      \* bound: times the reader starts over

ASSUME CountAssumption == Counts \subseteq Nat /\ MinLines \in Nat \ {0}

VARIABLES
  options, source, sent, sequence, last_fragment_indexes, result, output,
  ur_type, single, emitted, line,
                                         \* the sender's encoder
  phase, stream, equations, processed, last_indexes, message, error, out,
  accept, locked, terminal, frames_processed, received, counted, types,
                                         \* the reader's decoder
  count,           \* --count
  lines,           \* the lines printed
  shown,           \* index of the line on screen, 0 before the animation
  quit, restarts

encoder == <<options, source, sent, sequence, last_fragment_indexes, result,
             output, ur_type, single, emitted, line>>
decoder == <<phase, stream, equations, processed, last_indexes, message, error,
             out, accept, locked, terminal, frames_processed, received, counted,
             types>>
vars == <<encoder, decoder, count, lines, shown, quit, restarts>>

Sender == INSTANCE UrEncoder WITH stream <- sent
Reader == INSTANCE UrDecoder WITH result <- received, Frames <- {}

\* What the encoder and the decoder assume; the type is not the name that
\* stands for none.
ASSUME TransferAssumption ==
  /\ Sender!Fountain!ConstantsTyped /\ Sender!Fountain!ShufflePicks
  /\ MaxProcessed \in Nat /\ MaxFrames \in Nat /\ MaxFrames > MaxProcessed
  /\ Type # Reader!NoType

NoCount == U32Max + 1

Init ==
  /\ Sender!Init /\ Reader!Init
  /\ count \in Counts /\ lines = <<>>
  /\ shown = 0 /\ quit = FALSE /\ restarts = 0

\* encode: the encoder is built
Start(m, o) ==
  /\ Sender!New(Type, m, o)
  /\ UNCHANGED <<decoder, count, lines, shown, quit, restarts>>

\* The lines to print: --count, or three for each fragment (in a u32) and no
\* fewer than 20.
LinesAsked ==
  IF count # NoCount THEN count
  ELSE Max({Min({3 * sent.sequence_count, U32Max}), MinLines})

Printed == sent # NoStream /\ Len(lines) = LinesAsked

PrintLine ==
  /\ sent # NoStream /\ Len(lines) < LinesAsked
  /\ Sender!NextLine
  /\ lines' = Append(lines, line')
  /\ UNCHANGED <<decoder, count, shown, quit, restarts>>

AdvanceMutant ==      \* the last line is never shown
  shown' = (shown % (Len(lines) - 1)) + 1

Advance == shown' = (shown % Len(lines)) + 1

\* animate_parts: the next line, and the first again after the last.  It is
\* for more than one line: a single one is shown without an animation.
Show ==
  /\ Printed /\ Len(lines) > 1 /\ ~quit
  /\ Advance
  /\ UNCHANGED <<encoder, decoder, count, lines, quit, restarts>>

ShowStatic ==
  /\ Printed /\ Len(lines) = 1 /\ shown = 0 /\ ~quit
  /\ shown' = 1
  /\ UNCHANGED <<encoder, decoder, count, lines, quit, restarts>>

\* The reader takes the frame on screen.
Capture(i) ==
  /\ shown = i /\ ~quit
  /\ Reader!Receive(lines[i])
  /\ UNCHANGED <<encoder, count, lines, shown, quit, restarts>>

\* Frames keep coming after the session has ended.
CaptureMore ==
  /\ shown # 0 /\ ~quit
  /\ Reader!ReceiveTerminal
  /\ UNCHANGED <<encoder, count, lines, shown, quit, restarts>>

Restart ==
  /\ restarts < MaxRestarts /\ restarts' = restarts + 1
  /\ Reader!Reset
  /\ UNCHANGED <<encoder, count, lines, shown, quit>>

\* `q`, Esc or Ctrl-C during the interval
Quit ==
  /\ shown # 0 /\ ~quit /\ quit' = TRUE
  /\ UNCHANGED <<encoder, decoder, count, lines, shown, restarts>>

Next ==
  \/ \E m \in Messages, o \in Options : Start(m, o)
  \/ PrintLine
  \/ Show
  \/ ShowStatic
  \/ \E i \in DOMAIN lines : Capture(i)
  \/ CaptureMore
  \/ Restart
  \/ Quit

Spec == Init /\ [][Next]_vars

\* No encoder prints more lines than this.
MostLines == Max({U32Max, MinLines} \cup Counts)

\* The program prints and animates as long as it runs, and the reader, which
\* samples at its own rate, does not miss the same frame of the cycle forever.
Fairness ==
  /\ WF_vars(\E m \in Messages, o \in Options : Start(m, o))
  /\ WF_vars(PrintLine)
  /\ WF_vars(Show)
  /\ WF_vars(ShowStatic)
  /\ \A i \in 1 .. MostLines : SF_vars(i \in DOMAIN lines /\ Capture(i))

FairSpec == Spec /\ Fairness

-----------------------------------------------------------------------------
(* Properties *)

\* What the reader's limits and accept list let through.  A single-part line
\* is held to the message length only, a part to all three caps.
Acceptable == accept = {} \/ Type \in accept
WithinCaps ==
  /\ source.length <= MaxMessageLength
  /\ ~single => /\ sent.sequence_count <= MaxFragmentCount
                /\ sent.fragment_len <= MaxFragmentLength

\* Encoder and decoder agree on all that a line states: none of the lines of
\* one encoder is refused or fails the session, in whatever order they are
\* seen, unless the reader's own limits or accept list say so, and what the
\* session ends in is the message and the type that were sent.
TransferIsExact ==
  /\ \/ received \in {"none", "Accepted", "Duplicate"}
     \/ ~Acceptable /\ received = "UnexpectedType"
     \/ ~WithinCaps /\ terminal.kind = "Failed" /\ received = terminal.error
  /\ terminal.kind = "Complete" =>
       /\ Acceptable /\ WithinCaps
       /\ terminal = Reader!Complete(Type, source.length, source.bytes)

\* A cycle of at least K lines is on its way to a reader that may take them.
Promised ==
  /\ shown # 0 /\ Acceptable /\ WithinCaps
  /\ single \/ count = NoCount \/ count >= sent.sequence_count

\* However late the reader starts, whatever it misses and even when it starts
\* over, such a cycle is enough: the transfer completes unless the sender
\* quits.  The lines printed without --count always suffice.
CycleDelivers == Promised ~> (terminal.kind = "Complete" \/ quit)
=============================================================================
