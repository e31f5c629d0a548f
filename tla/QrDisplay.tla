------------------------------ MODULE QrDisplay -----------------------------
(***************************************************************************)
(* `bcur encode --qr` and `bcur qr`: QR codes on a terminal.               *)
(*                                                                         *)
(* One line is shown and left there.  Several lines, or the endless parts  *)
(* of an encoder, are shown in turn on the alternate screen in raw mode,   *)
(* until a quit key, an error, or the last sequence number.  The user may  *)
(* press keys and resize the terminal at any time.  A line is its length;  *)
(* its QR code is the least that holds as many characters.                 *)
(***************************************************************************)
EXTENDS Integers, Sequences, SequencesExt, FiniteSetsExt

CONSTANTS
  Jobs,         \* command lines with their payload or lines
  Streams,      \* line lengths of an encoder: functions of the sequence number
  Sizes,        \* terminal sizes: <<columns, rows>>
  U32Max,
  MaxEvents,    \* bound: events of the user
  MaxShown      \* where the history `drawn` stops

\* a job: [command |-> "qr", lines] or
\*        [command |-> "encode", max_chars, animate, max_fragment, empty, single]
NoMax == -1

ASSUME DisplayAssumption ==
  /\ U32Max \in Nat \ {0} /\ MaxShown \in Nat \ {0}
  /\ Streams \subseteq [1 .. U32Max -> Nat]
  /\ Sizes \subseteq Nat \X Nat
  /\ \A j \in Jobs :
       \/ j.command = "qr" /\ j.lines \in Seq(Nat)
       \/ j.command = "encode" /\ j.single \in Nat /\ j.max_chars \in Nat \cup {NoMax}

VARIABLES
  job, tty, size,
  max_chars,       \* resolved --max-chars (0 until then)
  lengths,         \* the encoder: length of each part's line
  sequence,        \* parts taken from it
  pending,         \* the first part, until it is shown (0: none)
  i,               \* next line of a list
  alt, raw,        \* alternate screen and raw mode
  frame,           \* which line is on screen (0: none)
  drawn,           \* history: frames shown, which `shown` counts in the code
  keys,            \* events not read yet
  pc, exit,
  pressed, resized         \* history: events so far, terminal resized since sized

vars == <<job, tty, size, max_chars, lengths, sequence, pending, i, alt, raw,
          frame, drawn, keys, pc, exit, pressed, resized>>

-----------------------------------------------------------------------------
\* ALNUM_Q_CAPACITY: modules and characters of versions 1 .. 10
AlnumQCapacity ==
  <<<<21, 16>>, <<25, 29>>, <<29, 47>>, <<33, 67>>, <<37, 87>>, <<41, 108>>,
    <<45, 125>>, <<49, 157>>, <<53, 177>>, <<57, 207>>>>

MaxOf(n) == IF n < 0 THEN 0 ELSE n      \* saturating_sub

MaxModulesMutant(s) ==      \* the quiet zone is not taken from the rows
  Min({MaxOf(MaxOf(s[1] - 2) - 8), MaxOf(MaxOf(s[2] - 2) * 2)})
\* modules of a QR code that fits with its quiet zone, two to a row
MaxModules(s) ==
  Min({MaxOf(MaxOf(s[1] - 2) - 8), MaxOf(MaxOf(s[2] - 2) * 2 - 8)})

\* tty_max_chars; 0 is None
TtyMaxChars ==
  LET fitting == {k \in DOMAIN AlnumQCapacity : AlnumQCapacity[k][1] <= MaxModules(size)}
  IN  IF ~tty \/ fitting = {} THEN 0 ELSE AlnumQCapacity[Max(fitting)][2]

\* QrCode at level Q: the least version that holds n characters; longer ones
\* need the larger versions, as large as version 40.
Modules(n) ==
  LET holding == {k \in DOMAIN AlnumQCapacity : n <= AlnumQCapacity[k][2]}
  IN  IF holding = {} THEN 177 ELSE AlnumQCapacity[Min(holding)][1]

\* check_fits: the drawing with its quiet zone, and two rows more
FitsScreen(n) ==
  tty => /\ Modules(n) + 8 <= size[1]
         /\ (Modules(n) + 9) \div 2 + 2 <= size[2]

LineOf(k) == IF job.command = "qr" THEN job.lines[k] ELSE lengths[k]

-----------------------------------------------------------------------------
Init ==
  /\ job \in Jobs /\ tty \in BOOLEAN /\ size \in Sizes
  /\ max_chars = 0 /\ lengths \in {[n \in 1 .. U32Max |-> 0]}
  /\ sequence = 0 /\ pending = 0 /\ i = 0
  /\ alt = FALSE /\ raw = FALSE
  /\ frame = 0 /\ drawn = 0 /\ keys = <<>>
  /\ pc = "start" /\ exit = "running" /\ pressed = 0 /\ resized = FALSE

untouched == <<job, tty, size, keys, pressed, resized>>

\* The command ends; the guard of the alternate screen, if there is one, puts
\* the terminal back.
Return(how) ==
  /\ exit' = how /\ pc' = "done" /\ alt' = FALSE /\ raw' = FALSE
  /\ UNCHANGED <<max_chars, lengths, sequence, pending, i, frame, drawn>>

ShowStatic(n) ==
  IF FitsScreen(n)
  THEN /\ exit' = "ok" /\ pc' = "done" /\ frame' = 1 /\ drawn' = 1
       /\ UNCHANGED <<alt, raw, max_chars, lengths, sequence, pending, i>>
  ELSE Return("does_not_fit")

\* bcur qr
StartLines ==
  /\ pc = "start" /\ job.command = "qr"
  /\ \/ job.lines = <<>> /\ Return("no_lines")
     \/ Len(job.lines) = 1 /\ ShowStatic(job.lines[1])
     \/ /\ Len(job.lines) > 1 /\ pc' = "enter"
        /\ UNCHANGED <<max_chars, lengths, sequence, pending, i, alt, raw, frame,
                       drawn, exit>>
  /\ UNCHANGED untouched

\* resolve_max_chars with --qr
Resolve ==
  /\ pc = "start" /\ job.command = "encode"
  /\ \/ job.max_chars = 0 /\ Return("zero_max_chars")
     \/ /\ job.max_chars # 0
        /\ max_chars' = IF job.max_chars # NoMax THEN job.max_chars
                        ELSE IF TtyMaxChars = 0 THEN 80 ELSE TtyMaxChars
        /\ pc' = "payload"
        /\ UNCHANGED <<lengths, sequence, pending, i, alt, raw, frame, drawn, exit>>
  /\ UNCHANGED untouched

\* The payload cannot be read, or the type is none.
BadInput ==
  /\ pc = "payload"
  /\ Return("bad_input")
  /\ UNCHANGED untouched

\* The single-part UR, when it fits and --animate is not given
UseSingle ==
  /\ pc = "payload" /\ ~job.animate /\ job.single <= max_chars
  /\ ShowStatic(job.single)
  /\ UNCHANGED untouched

\* fit_fragment_len leaves 12 characters, --max-fragment what it leaves; the
\* first part is taken out and held to the limit.
Fitting == {s \in Streams : s[1] + 12 <= max_chars}
BuildEncoder ==
  /\ pc = "payload" /\ (job.animate \/ job.single > max_chars)
  /\ \/ job.empty /\ Return("empty")
     \/ ~job.empty /\ job.max_fragment /\ Return("bad_max_fragment")     \* 0
     \/ ~job.empty /\ ~job.max_fragment /\ Fitting = {} /\ Return("cannot_fit")
     \/ /\ ~job.empty
        /\ \E s \in IF job.max_fragment THEN Streams ELSE Fitting :
             \/ s[1] > max_chars /\ Return("too_long")
             \/ /\ s[1] <= max_chars
                /\ lengths' = s /\ sequence' = 1 /\ pending' = 1
                /\ pc' = "enter"
                /\ UNCHANGED <<max_chars, i, alt, raw, frame, drawn, exit>>
  /\ UNCHANGED untouched

\* AltScreen::enter: the second step may fail after the first
EnterScreen ==
  /\ pc = "enter"
  /\ \/ ~tty /\ Return("not_a_tty")
     \/ tty /\ Return("io_error")
     \/ /\ tty /\ alt' = TRUE /\ pc' = "raw"
        /\ UNCHANGED <<max_chars, lengths, sequence, pending, i, raw, frame, drawn, exit>>
  /\ UNCHANGED untouched

EnterRawMutant ==      \* the failing path does not leave the alternate screen
  /\ pc = "raw"
  /\ \/ /\ exit' = "io_error" /\ pc' = "done"
        /\ UNCHANGED <<alt, raw, max_chars, lengths, sequence, pending, i, frame, drawn>>
     \/ /\ raw' = TRUE /\ pc' = "next"
        /\ UNCHANGED <<max_chars, lengths, sequence, pending, i, alt, frame, drawn, exit>>
  /\ UNCHANGED untouched

EnterRaw ==
  /\ pc = "raw"
  /\ \/ Return("io_error")
     \/ /\ raw' = TRUE /\ pc' = "next"
        /\ UNCHANGED <<max_chars, lengths, sequence, pending, i, alt, frame, drawn, exit>>
  /\ UNCHANGED untouched

\* The closures of animate_parts and animate_encoder: the line to show next.
NextLine ==
  IF job.command = "qr" THEN i + 1 ELSE IF pending # 0 THEN pending ELSE sequence + 1

TakeMutant ==      \* the first part is not kept for the first frame
  IF job.command = "qr"
  THEN i' = (i + 1) % Len(job.lines) /\ UNCHANGED <<pending, sequence>>
  ELSE pending' = 0 /\ sequence' = NextLine + 1 /\ UNCHANGED i

\* The cycle wraps around; the encoder goes on after the pending first part.
Take ==
  IF job.command = "qr"
  THEN i' = (i + 1) % Len(job.lines) /\ UNCHANGED <<pending, sequence>>
  ELSE pending' = 0 /\ sequence' = NextLine /\ UNCHANGED i

Exhausted == job.command = "encode" /\ pending = 0 /\ sequence = U32Max

\* A frame of run_animation, drawn when the terminal has room for it
Draw ==
  /\ pc = "next"
  /\ \/ Exhausted /\ Return("exhausted")
     \/ ~Exhausted /\ ~FitsScreen(LineOf(NextLine)) /\ Return("does_not_fit")
     \/ ~Exhausted /\ Return("io_error")
     \/ /\ ~Exhausted /\ FitsScreen(LineOf(NextLine))
        /\ frame' = NextLine
        /\ drawn' = IF drawn < MaxShown THEN drawn + 1 ELSE drawn
        /\ Take
        /\ pc' = "wait"
        /\ UNCHANGED <<max_chars, lengths, alt, raw, exit>>
  /\ UNCHANGED untouched

\* The interval is over.
Deadline ==
  /\ pc = "wait" /\ pc' = "next"
  /\ UNCHANGED <<untouched, max_chars, lengths, sequence, pending, i, alt, raw,
                 frame, drawn, exit>>

PollMutant ==      \* other events are taken for the end of the interval
  /\ pc = "wait" /\ keys # <<>>
  /\ keys' = <<>>
  /\ pc' = "next"
  /\ UNCHANGED <<job, tty, size, pressed, resized, max_chars, lengths, sequence,
                 pending, i, alt, raw, frame, drawn, exit>>

\* quit_requested: one event is read
Poll ==
  /\ pc = "wait" /\ keys # <<>>
  /\ keys' = Tail(keys)
  /\ \/ keys[1] = "quit" /\ Return("ok")
     \/ keys[1] # "quit" /\ UNCHANGED <<max_chars, lengths, sequence, pending, i,
                                         alt, raw, frame, drawn, exit, pc>>
  /\ UNCHANGED <<job, tty, size, pressed, resized>>

\* poll or read of the terminal fails.
PollFails ==
  /\ pc = "wait"
  /\ Return("io_error")
  /\ UNCHANGED untouched

\* The user presses a key, or resizes the terminal (an event too).
UserActs ==
  /\ exit = "running" /\ pressed < MaxEvents /\ pressed' = pressed + 1
  /\ \/ \E e \in {"quit", "other"} :
          keys' = Append(keys, e) /\ UNCHANGED <<size, resized>>
     \/ /\ tty /\ size' \in Sizes \ {size}
        /\ keys' = Append(keys, "other") /\ resized' = TRUE
  /\ UNCHANGED <<job, tty, max_chars, lengths, sequence, pending, i, alt, raw, frame,
                 drawn, pc, exit>>

Program ==
  \/ StartLines \/ Resolve \/ BadInput \/ UseSingle \/ BuildEncoder
  \/ EnterScreen \/ EnterRaw \/ Draw \/ Deadline

Next == Program \/ Poll \/ PollFails \/ UserActs

Spec == Init /\ [][Next]_vars

\* The loop runs, and looks at the keyboard again and again: an interval is at
\* least a millisecond.
FairSpec == Spec /\ WF_vars(Program) /\ SF_vars(Poll)

-----------------------------------------------------------------------------
(* Properties *)

\* However the command returns, at the first step of entering the screen or at a
\* frame that no longer fits, the terminal is left as it was found.
TerminalRestored == exit # "running" => ~alt /\ ~raw

\* The frames are the lines in their order: those of a list over and over, and
\* those of an encoder without a gap, the first one, which was taken to be
\* measured, included.
ShowsEveryLine ==
  drawn > 0 /\ drawn < MaxShown =>
    frame = IF job.command = "qr" THEN ((drawn - 1) % Len(job.lines)) + 1 ELSE drawn

\* --max-chars taken from the terminal is enough: a QR code is refused for its
\* size only if the terminal was too small for any, was resized, or the line is
\* longer than that limit (a part after the first may be, once its number grows).
SizedToFit ==
  exit = "does_not_fit" /\ job.command = "encode" /\ job.max_chars = NoMax /\ ~resized =>
    \/ TtyMaxChars = 0
    \/ /\ sequence # 0 /\ ~Exhausted
       /\ LineOf(NextLine) > max_chars

\* A quit key ends the command, whatever was pressed before it.
QuitHonoured ==
  "quit" \in Range(keys) ~> exit # "running"
=============================================================================
