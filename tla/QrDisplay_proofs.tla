-------------------------- MODULE QrDisplay_proofs --------------------------
(***************************************************************************)
(* What the terminal commands guarantee for every list of lines, every     *)
(* stream of parts, every terminal size and everything the user does.      *)
(*                                                                         *)
(* The invariant says where the program may be while the terminal is in    *)
(* its alternate state, how the position in the list or in the stream      *)
(* follows from the number of frames drawn, and that the limit in use is   *)
(* the one the terminal gave unless it was resized.                        *)
(***************************************************************************)
EXTENDS QrDisplay, NaturalsInduction, WellFoundedInduction, TLAPS

-----------------------------------------------------------------------------
(* Numbers *)

\* A set of numbers has a least member.
LEMMA LeastExists ==
  ASSUME NEW S \in SUBSET Nat, S # {}
  PROVE  \E x \in S : \A y \in S : x <= y
<1> DEFINE Less == OpToRel(<, Nat)
<1>1. \A x, y \in Nat : x < y => <<x, y>> \in Less
  BY Zenon DEF OpToRel
<1>2. IsWellFoundedOn(Less, Nat)
  BY NatLessThanWellFounded
<1> HIDE DEF Less
<1>3. PICK n \in S : \A y \in S : ~(<<y, n>> \in Less)
  BY <1>2, WFMin
<1>4. \A y \in S : ~(y < n)
  BY <1>1, <1>3
<1>5. QED
  BY <1>4

\* Counting modulo n.
LEMMA NextModulo ==
  ASSUME NEW d \in Nat, NEW n \in Nat \ {0}
  PROVE  ((d % n) + 1) % n = (d + 1) % n
<1> DEFINE q == d \div n
           r == d % n
<1>1. q \in Nat /\ r \in 0 .. n - 1
  OBVIOUS
<1>2. r = d - n * q
  OBVIOUS
<1>3. ASSUME NEW a \in Nat, NEW b \in 0 .. n - 1 PROVE (n * a + b) % n = b
  OBVIOUS
<1> HIDE DEF q, r
<1>4. CASE r + 1 < n
  <2>1. d + 1 = n * q + (r + 1) /\ r + 1 \in 0 .. n - 1
    BY <1>1, <1>2, <1>4
  <2>2. (n * q + (r + 1)) % n = r + 1 /\ (n * 0 + (r + 1)) % n = r + 1
    BY <1>1, <1>3, <2>1
  <2>3. n * 0 + (r + 1) = r + 1
    BY <1>1
  <2>4. QED
    BY <2>1, <2>2, <2>3 DEF r
<1>5. CASE r + 1 = n
  <2>1. d + 1 = n * (q + 1) + 0
    BY <1>1, <1>2, <1>5
  <2>2. (n * (q + 1) + 0) % n = 0 /\ (n * 1 + 0) % n = 0
    BY <1>1, <1>3
  <2>3. n * 1 + 0 = r + 1
    BY <1>1, <1>5
  <2>4. QED
    BY <2>1, <2>2, <2>3 DEF r
<1>6. QED
  BY <1>1, <1>4, <1>5

-----------------------------------------------------------------------------
(* The invariant *)

Animating == pc \in {"enter", "raw", "next", "wait"}

\* The terminal is touched only between entering the screen and the end.
ScreenHolds ==
  /\ pc \in {"start", "payload", "enter", "raw", "next", "wait", "done"}
  /\ pc \in {"start", "payload", "enter", "done"} => ~alt /\ ~raw
  /\ exit # "running" => pc = "done"

\* The next line follows from the number of frames drawn.
PositionHolds ==
  /\ drawn \in 0 .. MaxShown
  /\ pc \in {"start", "payload"} => drawn = 0 /\ i = 0
  /\ pc = "payload" => job.command = "encode"
  /\ Animating /\ job.command = "qr" =>
       /\ Len(job.lines) > 1
       /\ drawn < MaxShown => i = drawn % Len(job.lines)
  /\ Animating /\ job.command = "encode" =>
       /\ lengths \in Streams
       /\ \/ pending = 1 /\ sequence = 1 /\ drawn = 0
          \/ /\ pending = 0 /\ sequence \in 1 .. U32Max
             /\ drawn < MaxShown => sequence = drawn

\* The limit taken from the terminal.
LimitHolds ==
  /\ max_chars \in Nat
  /\ /\ job.command = "encode" /\ job.max_chars = NoMax
     /\ ~resized /\ pc # "start"
     => max_chars = IF TtyMaxChars = 0 THEN 80 ELSE TtyMaxChars

QInv ==
  /\ job \in Jobs /\ size \in Sizes
  /\ ScreenHolds /\ PositionHolds /\ LimitHolds
  /\ ShowsEveryLine /\ SizedToFit

-----------------------------------------------------------------------------
(* The capacity table *)

\* Ten versions, larger ones with more modules.
LEMMA TableFacts ==
  /\ DOMAIN AlnumQCapacity = 1 .. 10
  /\ \A k \in 1 .. 10 : /\ AlnumQCapacity[k][1] = 17 + 4 * k
                        /\ AlnumQCapacity[k][2] \in Nat \ {0}
<1>1. DOMAIN AlnumQCapacity = 1 .. 10
  BY DEF AlnumQCapacity
<1>2. ASSUME NEW k \in 1 .. 10
      PROVE  AlnumQCapacity[k][1] = 17 + 4 * k /\ AlnumQCapacity[k][2] \in Nat \ {0}
  <2>1. k \in {1, 2, 3, 4, 5, 6, 7, 8, 9, 10}
    OBVIOUS
  <2>2. QED
    BY <2>1 DEF AlnumQCapacity
<1>3. QED
  BY <1>1, <1>2

\* A set of versions has a least and a greatest one.
LEMMA VersionsBounded ==
  ASSUME NEW S \in SUBSET (1 .. 10), S # {}
  PROVE  /\ Min(S) \in S /\ \A k \in S : Min(S) <= k
         /\ Max(S) \in S /\ \A k \in S : k <= Max(S)
<1>1. \E x \in S : \A y \in S : x <= y
  BY LeastExists
<1>2. \E x \in S : \A y \in S : x >= y
  <2> DEFINE rest == {10 - k : k \in S}
  <2>1. rest \in SUBSET Nat /\ rest # {}
    <3>1. \A k \in S : k \in 1 .. 10 /\ 10 - k \in Nat
      OBVIOUS
    <3>2. QED
      BY <3>1
  <2>2. PICK r \in rest : \A y \in rest : r <= y
    BY <2>1, LeastExists
  <2>3. PICK x \in S : r = 10 - x
    BY <2>2
  <2>4. ASSUME NEW y \in S PROVE x >= y
    <3>1. 10 - y \in rest /\ x \in 1 .. 10 /\ y \in 1 .. 10
      OBVIOUS
    <3>2. 10 - x <= 10 - y
      BY <2>2, <2>3, <3>1
    <3>3. QED
      BY <3>1, <3>2
  <2>5. QED
    BY <2>4
<1>3. QED
  BY <1>1, <1>2 DEF Min, Max

\* A line within the limit the terminal gave has room on it.
LEMMA LimitFits ==
  ASSUME size \in Nat \X Nat, TtyMaxChars # 0, NEW n \in Nat, n <= TtyMaxChars
  PROVE  FitsScreen(n)
<1> DEFINE fitting == {k \in DOMAIN AlnumQCapacity : AlnumQCapacity[k][1] <= MaxModules(size)}
           holding == {k \in DOMAIN AlnumQCapacity : n <= AlnumQCapacity[k][2]}
           w == size[1]
           h == size[2]
<1>1. /\ fitting # {} /\ n <= AlnumQCapacity[Max(fitting)][2]
      /\ fitting \in SUBSET (1 .. 10) /\ holding \in SUBSET (1 .. 10)
  BY TableFacts DEF TtyMaxChars
<1>2. w \in Nat /\ h \in Nat
  OBVIOUS
<1>3. /\ MaxModules(size) \in Nat
      /\ MaxModules(size) <= MaxOf(MaxOf(w - 2) - 8)
      /\ MaxModules(size) <= MaxOf(MaxOf(h - 2) * 2 - 8)
  <2> DEFINE a == MaxOf(MaxOf(w - 2) - 8)
             b == MaxOf(MaxOf(h - 2) * 2 - 8)
  <2>1. a \in Nat /\ b \in Nat
    BY <1>2 DEF MaxOf
  <2>2. MaxModules(size) = Min({a, b})
    BY DEF MaxModules
  <2> HIDE DEF a, b
  <2>3. Min({a, b}) \in {a, b} /\ Min({a, b}) <= a /\ Min({a, b}) <= b
    BY <2>1 DEF Min
  <2>4. QED
    BY <2>1, <2>2, <2>3 DEF a, b
<1>4. /\ Max(fitting) \in 1 .. 10 /\ Max(fitting) \in fitting
      /\ Max(fitting) \in holding
  <2> HIDE DEF fitting
  <2>1. Max(fitting) \in fitting
    BY <1>1, VersionsBounded
  <2>2. QED
    BY <1>1, <2>1, TableFacts
<1> DEFINE f == Max(fitting)
           g == Min(holding)
<1>5. /\ g \in holding /\ g \in 1 .. 10 /\ g <= f
      /\ Modules(n) = AlnumQCapacity[g][1]
  <2>1. holding # {}
    BY <1>4
  <2>2. Modules(n) = AlnumQCapacity[g][1]
    BY <2>1 DEF Modules
  <2> HIDE DEF holding, fitting
  <2>3. g \in holding /\ \A k \in holding : g <= k
    BY <1>1, <2>1, VersionsBounded
  <2>4. QED
    BY <1>1, <1>4, <2>2, <2>3
<1>6. AlnumQCapacity[f][1] <= MaxModules(size)
  BY <1>4
<1> HIDE DEF f, g, fitting, holding
<1>7. f \in 1 .. 10
  BY <1>4 DEF f
<1>8. 17 + 4 * g <= MaxModules(size) /\ Modules(n) = 17 + 4 * g
  <2>1. AlnumQCapacity[f][1] = 17 + 4 * f
    BY <1>7, TableFacts
  <2>2. AlnumQCapacity[g][1] = 17 + 4 * g
    BY <1>5, TableFacts
  <2>3. QED
    BY <1>3, <1>5, <1>6, <1>7, <2>1, <2>2
<1> DEFINE m == Modules(n)
<1>9. m \in Nat /\ m >= 21 /\ m <= MaxModules(size)
  BY <1>3, <1>5, <1>8
<1> HIDE DEF m
<1>10. m + 8 <= w
  BY <1>2, <1>3, <1>9 DEF MaxOf
<1>11. (m + 9) \div 2 + 2 <= h
  <2>1. m + 9 <= 2 * h - 3
    BY <1>2, <1>3, <1>9 DEF MaxOf
  <2>2. QED
    BY <1>2, <1>9, <2>1
<1>12. QED
  BY <1>10, <1>11 DEF FitsScreen, m

-----------------------------------------------------------------------------
(* The steps *)

\* What is known of a command line.
LEMMA JobFacts ==
  ASSUME job \in Jobs
  PROVE  \/ job.command = "qr" /\ job.lines \in Seq(Nat)
         \/ job.command = "encode" /\ job.single \in Nat /\ job.max_chars \in Nat \cup {NoMax}
BY DisplayAssumption

\* The limit of a terminal is a number.
LEMMA LimitIsNumber ==
  TtyMaxChars \in Nat
<1> DEFINE fitting == {k \in DOMAIN AlnumQCapacity : AlnumQCapacity[k][1] <= MaxModules(size)}
<1>1. CASE ~tty \/ fitting = {}
  BY <1>1 DEF TtyMaxChars
<1>2. CASE ~(~tty \/ fitting = {})
  <2>1. TtyMaxChars = AlnumQCapacity[Max(fitting)][2]
    BY <1>2 DEF TtyMaxChars
  <2>2. fitting \in SUBSET (1 .. 10) /\ fitting # {}
    BY <1>2, TableFacts
  <2> HIDE DEF fitting
  <2>3. Max(fitting) \in 1 .. 10
    BY <2>2, VersionsBounded
  <2>4. QED
    BY <2>1, <2>3, TableFacts
<1>3. QED
  BY <1>1, <1>2

\* The terminal's limit is the same while the terminal is.
LEMMA LimitKept ==
  ASSUME UNCHANGED <<tty, size>>
  PROVE  TtyMaxChars' = TtyMaxChars
BY DEF TtyMaxChars, MaxModules

\* At the start.
LEMMA InitQInv ==
  ASSUME Init
  PROVE  QInv
BY DisplayAssumption DEF Init, QInv, ScreenHolds, PositionHolds, LimitHolds, Animating,
   ShowsEveryLine, SizedToFit

\* A return puts the terminal back, and is for the size only for a reason.
LEMMA ReturnQInv ==
  ASSUME QInv, NEW how, how # "running", Return(how), UNCHANGED untouched,
         pc # "start" \/ job.command = "qr" \/ job.max_chars = 0,
         how = "does_not_fit" => SizedToFit'
  PROVE  QInv'
<1> USE DEF QInv, Return, untouched
<1>1. job' \in Jobs /\ size' \in Sizes
  OBVIOUS
<1>2. ScreenHolds'
  BY DEF ScreenHolds
<1>3. PositionHolds'
  BY DEF PositionHolds, Animating
<1>4. LimitHolds'
  BY LimitKept DEF LimitHolds, NoMax
<1>5. ShowsEveryLine'
  BY DEF ShowsEveryLine
<1>6. SizedToFit'
  BY DEF SizedToFit
<1>7. QED
  BY <1>1, <1>2, <1>3, <1>4, <1>5, <1>6

\* A single code is shown when it fits; one within the limit that a terminal
\* not resized gave does fit.
LEMMA ShowStaticQInv ==
  ASSUME QInv, NEW n \in Nat, ShowStatic(n), UNCHANGED untouched,
         \/ pc = "start" /\ job.command = "qr" /\ Len(job.lines) = 1
         \/ pc = "payload" /\ job.command = "encode" /\ n <= max_chars
  PROVE  QInv'
<1>1. CASE FitsScreen(n)
  <2>1. /\ exit' = "ok" /\ pc' = "done" /\ frame' = 1 /\ drawn' = 1
        /\ UNCHANGED <<alt, raw, max_chars, lengths, sequence, pending, i>>
        /\ UNCHANGED <<job, tty, size, keys, pressed, resized>>
    BY <1>1 DEF ShowStatic, untouched
  <2>2. job' \in Jobs /\ size' \in Sizes
    BY <2>1 DEF QInv
  <2>3. ScreenHolds'
    BY <2>1 DEF QInv, ScreenHolds
  <2>4. PositionHolds'
    BY <2>1, DisplayAssumption DEF QInv, PositionHolds, Animating
  <2>5. LimitHolds'
    BY <2>1, LimitKept, JobFacts DEF QInv, LimitHolds
  <2>6. ShowsEveryLine'
    <3>1. CASE job.command = "qr" /\ Len(job.lines) = 1
      <4>1. Len(job'.lines) = 1 /\ ((1 - 1) % 1) + 1 = 1
        BY <2>1, <3>1
      <4>2. QED
        BY <2>1, <4>1 DEF ShowsEveryLine
    <3>2. CASE job.command = "encode"
      BY <2>1, <3>2 DEF ShowsEveryLine
    <3>3. QED
      BY <3>1, <3>2
  <2>7. SizedToFit'
    BY <2>1 DEF SizedToFit
  <2>8. QED
    BY <2>2, <2>3, <2>4, <2>5, <2>6, <2>7 DEF QInv
<1>2. CASE ~FitsScreen(n)
  <2>1. Return("does_not_fit")
    BY <1>2 DEF ShowStatic
  <2>2. SizedToFit'
    <3>1. SUFFICES ASSUME job.command = "encode", job.max_chars = NoMax, ~resized
                   PROVE  TtyMaxChars' = 0
      BY DEF SizedToFit, untouched
    <3>2. TtyMaxChars' = TtyMaxChars
      BY LimitKept DEF untouched
    <3>3. max_chars = (IF TtyMaxChars = 0 THEN 80 ELSE TtyMaxChars) /\ n <= max_chars
      BY <3>1 DEF QInv, LimitHolds
    <3>4. size \in Nat \X Nat
      BY DisplayAssumption DEF QInv
    <3>5. QED
      BY <1>2, <3>2, <3>3, <3>4, LimitFits
  <2>3. QED
    BY <2>1, <2>2, ReturnQInv
<1>3. QED
  BY <1>1, <1>2

\* bcur qr begins.
LEMMA StartLinesQInv ==
  ASSUME QInv, StartLines
  PROVE  QInv'
<1>1. job.command = "qr" /\ job.lines \in Seq(Nat) /\ pc = "start"
  BY JobFacts DEF QInv, StartLines
<1>2. UNCHANGED untouched
  BY DEF StartLines
<1>3. CASE Return("no_lines")
  BY <1>1, <1>2, <1>3, ReturnQInv
<1>4. CASE Len(job.lines) = 1 /\ ShowStatic(job.lines[1])
  <2>1. job.lines[1] \in Nat
    BY <1>1, <1>4
  <2>2. QED
    BY <1>1, <1>2, <1>4, <2>1, ShowStaticQInv
<1>5. CASE /\ Len(job.lines) > 1 /\ pc' = "enter"
           /\ UNCHANGED <<max_chars, lengths, sequence, pending, i, alt, raw, frame,
                          drawn, exit>>
  <2> USE <1>1, <1>2, <1>5 DEF QInv, untouched
  <2>1. drawn = 0 /\ i = 0 /\ Len(job.lines) \in Nat \ {0}
    BY DEF PositionHolds
  <2>2. ScreenHolds'
    BY DEF ScreenHolds
  <2> DEFINE n == Len(job.lines)
  <2>3. i = drawn % n
    <3>1. n \in Nat \ {0} /\ i = 0 /\ drawn = 0
      BY <2>1
    <3> HIDE DEF n
    <3>2. 0 % n = 0
      BY <3>1
    <3>3. QED
      BY <3>1, <3>2
  <2>4. PositionHolds'
    BY <2>1, <2>3 DEF PositionHolds, Animating
  <2>5. QED
    BY <2>2, <2>4 DEF LimitHolds, ShowsEveryLine, SizedToFit
<1>6. QED
  BY <1>3, <1>4, <1>5 DEF StartLines

\* --max-chars is resolved.
LEMMA ResolveQInv ==
  ASSUME QInv, Resolve
  PROVE  QInv'
<1>1. job.command = "encode" /\ pc = "start" /\ UNCHANGED untouched
  BY DEF Resolve
<1>2. CASE job.max_chars = 0 /\ Return("zero_max_chars")
  BY <1>1, <1>2, ReturnQInv
<1>3. CASE /\ job.max_chars # 0
           /\ max_chars' = IF job.max_chars # NoMax THEN job.max_chars
                           ELSE IF TtyMaxChars = 0 THEN 80 ELSE TtyMaxChars
           /\ pc' = "payload"
           /\ UNCHANGED <<lengths, sequence, pending, i, alt, raw, frame, drawn, exit>>
  <2> USE <1>1, <1>3 DEF QInv, untouched
  <2>1. drawn = 0 /\ i = 0
    BY DEF PositionHolds
  <2>2. ScreenHolds' /\ PositionHolds'
    BY <2>1 DEF ScreenHolds, PositionHolds, Animating
  <2>3. max_chars' \in Nat
    BY JobFacts, LimitIsNumber DEF NoMax
  <2>4. LimitHolds'
    BY <2>3, LimitKept DEF LimitHolds
  <2>5. QED
    BY <2>1, <2>2, <2>4 DEF ShowsEveryLine, SizedToFit, ScreenHolds
<1>4. QED
  BY <1>2, <1>3 DEF Resolve

\* The single UR is shown.
LEMMA UseSingleQInv ==
  ASSUME QInv, UseSingle
  PROVE  QInv'
<1>1. pc = "payload" /\ job.single <= max_chars /\ ShowStatic(job.single)
      /\ UNCHANGED untouched
  BY DEF UseSingle
<1>2. job.command = "encode" /\ job.single \in Nat
  BY <1>1, JobFacts DEF QInv, PositionHolds
<1>3. QED
  BY <1>1, <1>2, ShowStaticQInv

\* The encoder is built, and its first part taken.
LEMMA BuildEncoderQInv ==
  ASSUME QInv, BuildEncoder
  PROVE  QInv'
<1>1. pc = "payload" /\ UNCHANGED untouched
  BY DEF BuildEncoder
<1>2. ASSUME NEW how \in {"empty", "bad_max_fragment", "cannot_fit", "too_long"}, Return(how)
      PROVE  QInv'
  BY <1>1, <1>2, ReturnQInv
<1>3. ASSUME NEW s \in Streams,
             lengths' = s, sequence' = 1, pending' = 1, pc' = "enter",
             UNCHANGED <<max_chars, i, alt, raw, frame, drawn, exit>>
      PROVE  QInv'
  <2> USE <1>1, <1>3 DEF QInv, untouched
  <2>1. drawn = 0 /\ i = 0 /\ job.command = "encode"
    BY DEF PositionHolds
  <2>2. ScreenHolds' /\ PositionHolds'
    BY <2>1 DEF ScreenHolds, PositionHolds, Animating
  <2>3. LimitHolds'
    BY LimitKept DEF LimitHolds
  <2>4. QED
    BY <2>1, <2>2, <2>3 DEF ShowsEveryLine, SizedToFit, ScreenHolds
<1>4. QED
  BY <1>2, <1>3 DEF BuildEncoder, Fitting

\* The screen is entered, in two steps that may each fail.
LEMMA EnterQInv ==
  ASSUME QInv, EnterScreen \/ EnterRaw
  PROVE  QInv'
<1>1. pc \in {"enter", "raw"} /\ UNCHANGED untouched
  BY DEF EnterScreen, EnterRaw
<1>2. ASSUME NEW how \in {"not_a_tty", "io_error"}, Return(how)
      PROVE  QInv'
  BY <1>1, <1>2, ReturnQInv
<1>3. ASSUME \/ pc' = "raw" /\ alt' = TRUE /\ UNCHANGED raw
             \/ pc' = "next" /\ raw' = TRUE /\ UNCHANGED alt,
             UNCHANGED <<max_chars, lengths, sequence, pending, i, frame, drawn, exit>>
      PROVE  QInv'
  <2> USE <1>1, <1>3 DEF QInv, untouched
  <2>1. ScreenHolds'
    BY DEF ScreenHolds
  <2>2. PositionHolds'
    BY DEF PositionHolds, Animating
  <2>3. LimitHolds'
    BY LimitKept DEF LimitHolds
  <2>4. exit = "running"
    BY DEF ScreenHolds
  <2>5. QED
    BY <2>1, <2>2, <2>3, <2>4 DEF ShowsEveryLine, SizedToFit
<1>4. CASE EnterScreen
  BY <1>2, <1>3, <1>4 DEF EnterScreen
<1>5. CASE EnterRaw
  BY <1>2, <1>3, <1>5 DEF EnterRaw
<1>6. QED
  BY <1>4, <1>5

\* A frame is drawn: the next line of the list or of the stream.
LEMMA DrawQInv ==
  ASSUME QInv, Draw
  PROVE  QInv'
<1>1. pc = "next" /\ UNCHANGED untouched
  BY DEF Draw
<1>2. ASSUME NEW how \in {"exhausted", "io_error"}, Return(how)
      PROVE  QInv'
  BY <1>1, <1>2, ReturnQInv
<1>3. CASE ~Exhausted /\ ~FitsScreen(LineOf(NextLine)) /\ Return("does_not_fit")
  <2>1. SizedToFit'
    <3>1. SUFFICES ASSUME job.command = "encode", job.max_chars = NoMax, ~resized,
                          TtyMaxChars' # 0
                   PROVE  (sequence # 0 /\ ~Exhausted /\ LineOf(NextLine) > max_chars)'
      BY <1>1 DEF SizedToFit, untouched
    <3>2. TtyMaxChars' = TtyMaxChars
      BY <1>1, LimitKept DEF untouched
    <3>3. max_chars = TtyMaxChars /\ max_chars \in Nat
      BY <1>1, <3>1, <3>2 DEF QInv, LimitHolds
    <3>4. /\ lengths \in [1 .. U32Max -> Nat]
          /\ pending \in {0, 1} /\ sequence \in 1 .. U32Max
          /\ U32Max \in Nat \ {0}
      BY <1>1, <3>1, DisplayAssumption DEF QInv, PositionHolds, Animating
    <3>5. NextLine \in 1 .. U32Max
      BY <1>3, <3>1, <3>4 DEF NextLine, Exhausted
    <3>6. LineOf(NextLine) \in Nat
      BY <3>1, <3>4, <3>5 DEF LineOf
    <3>7. size \in Nat \X Nat
      BY DisplayAssumption DEF QInv
    <3>8. LineOf(NextLine) > max_chars
      BY <1>3, <3>1, <3>2, <3>3, <3>6, <3>7, LimitFits
    <3>9. UNCHANGED <<job, lengths, sequence, pending, i, max_chars>>
      BY <1>1, <1>3 DEF Return, untouched
    <3>10. (LineOf(NextLine))' = LineOf(NextLine) /\ Exhausted' = Exhausted
      BY <3>9 DEF LineOf, NextLine, Exhausted
    <3>11. QED
      BY <1>3, <3>4, <3>8, <3>9, <3>10
  <2>2. QED
    BY <1>1, <1>3, <2>1, ReturnQInv
<1>4. CASE /\ ~Exhausted /\ FitsScreen(LineOf(NextLine))
           /\ frame' = NextLine
           /\ drawn' = IF drawn < MaxShown THEN drawn + 1 ELSE drawn
           /\ Take
           /\ pc' = "wait"
           /\ UNCHANGED <<max_chars, lengths, alt, raw, exit>>
  <2> USE <1>1, <1>4, DisplayAssumption DEF QInv, untouched
  <2>1. ScreenHolds'
    BY DEF ScreenHolds
  <2>2. LimitHolds'
    BY LimitKept DEF LimitHolds
  <2>3. SizedToFit'
    BY DEF ScreenHolds, SizedToFit
  <2>4. drawn \in 0 .. MaxShown /\ drawn' \in 0 .. MaxShown /\ MaxShown \in Nat \ {0}
    BY DEF PositionHolds
  <2>5. CASE job.command = "qr"
    <3> DEFINE n == Len(job.lines)
    <3>1. n \in Nat \ {0} /\ n > 1 /\ (drawn < MaxShown => i = drawn % n)
      <4>1. Len(job.lines) \in Nat
        BY <2>5, JobFacts
      <4>2. /\ Len(job.lines) > 1
            /\ drawn < MaxShown => i = drawn % Len(job.lines)
        BY <2>5 DEF PositionHolds, Animating
      <4>3. QED
        BY <4>1, <4>2
    <3>2. frame' = i + 1 /\ i' = (i + 1) % n
      BY <2>5 DEF Take, NextLine
    <3>3. drawn' < MaxShown => drawn < MaxShown /\ drawn' = drawn + 1
      BY <2>4
    <3>4. job' = job
      OBVIOUS
    <3>5. drawn' < MaxShown => i' = drawn' % n
      <4> HIDE DEF n
      <4>1. ((drawn % n) + 1) % n = (drawn + 1) % n
        <5>1. drawn \in Nat /\ n \in Nat \ {0}
          BY <2>4, <3>1
        <5>2. QED
          BY ONLY <5>1, NextModulo
      <4>2. QED
        BY <3>1, <3>2, <3>3, <4>1
    <3>6. drawn' < MaxShown => frame' = ((drawn' - 1) % n) + 1
      <4> HIDE DEF n
      <4>1. drawn' < MaxShown => drawn' - 1 = drawn
        BY <2>4, <3>3
      <4>2. QED
        BY <3>1, <3>2, <3>3, <4>1
    <3>7. PositionHolds'
      BY <2>4, <2>5, <3>1, <3>4, <3>5 DEF PositionHolds, Animating
    <3>8. ShowsEveryLine'
      BY <2>5, <3>4, <3>6 DEF ShowsEveryLine
    <3>9. QED
      BY <2>1, <2>2, <2>3, <3>7, <3>8
  <2>6. CASE job.command = "encode"
    <3>1. /\ lengths \in Streams
          /\ \/ pending = 1 /\ sequence = 1 /\ drawn = 0
             \/ /\ pending = 0 /\ sequence \in 1 .. U32Max
                /\ drawn < MaxShown => sequence = drawn
      BY <2>6 DEF PositionHolds, Animating
    <3>2. frame' = NextLine /\ sequence' = NextLine /\ pending' = 0
      BY <2>6 DEF Take
    <3>3. NextLine \in 1 .. U32Max /\ (drawn < MaxShown => NextLine = drawn + 1)
      BY <2>4, <2>6, <3>1 DEF NextLine, Exhausted
    <3>4. drawn' < MaxShown => sequence' = drawn' /\ frame' = drawn'
      BY <2>4, <3>2, <3>3
    <3>5. PositionHolds'
      BY <2>4, <2>6, <3>1, <3>2, <3>3, <3>4 DEF PositionHolds, Animating
    <3>6. ShowsEveryLine'
      BY <2>6, <3>4 DEF ShowsEveryLine
    <3>7. QED
      BY <2>1, <2>2, <2>3, <3>5, <3>6
  <2>7. QED
    BY <2>5, <2>6, JobFacts
<1>5. QED
  BY <1>2, <1>3, <1>4 DEF Draw

\* The interval ends, or an event is read.
LEMMA WaitQInv ==
  ASSUME QInv, Deadline \/ Poll
  PROVE  QInv'
<1>1. pc = "wait" /\ UNCHANGED <<job, tty, size, pressed, resized>>
  BY DEF Deadline, Poll, untouched
<1>2. ASSUME pc' \in {"next", "wait"},
             UNCHANGED <<max_chars, lengths, sequence, pending, i, alt, raw, frame, drawn, exit>>
      PROVE  QInv'
  <2> USE <1>1, <1>2 DEF QInv
  <2>1. ScreenHolds' /\ exit = "running"
    BY DEF ScreenHolds
  <2>2. PositionHolds'
    BY DEF PositionHolds, Animating
  <2>3. LimitHolds'
    BY LimitKept DEF LimitHolds
  <2>4. QED
    BY <2>1, <2>2, <2>3 DEF ShowsEveryLine, SizedToFit
<1>3. ASSUME Return("ok")
      PROVE  QInv'
  <2> USE <1>1, <1>3 DEF QInv, Return
  <2>1. ScreenHolds'
    BY DEF ScreenHolds
  <2>2. PositionHolds'
    BY DEF PositionHolds, Animating
  <2>3. LimitHolds'
    BY LimitKept DEF LimitHolds
  <2>4. QED
    BY <2>1, <2>2, <2>3 DEF ShowsEveryLine, SizedToFit
<1>4. CASE Deadline
  BY <1>2, <1>4 DEF Deadline
<1>5. CASE Poll
  BY <1>1, <1>2, <1>3, <1>5 DEF Poll
<1>6. QED
  BY <1>4, <1>5

\* The user acts; a terminal that is resized is recorded.
LEMMA UserQInv ==
  ASSUME QInv, UserActs
  PROVE  QInv'
<1> USE DEF QInv, UserActs
<1>1. /\ exit = "running"
      /\ UNCHANGED <<job, tty, max_chars, lengths, sequence, pending, i, alt, raw, frame,
                     drawn, pc, exit>>
      /\ \/ UNCHANGED <<size, resized>>
         \/ size' \in Sizes /\ resized' = TRUE
  OBVIOUS
<1> USE <1>1
<1>2. ScreenHolds'
  BY DEF ScreenHolds
<1>3. PositionHolds'
  BY DEF PositionHolds, Animating
<1>4. LimitHolds'
  BY LimitKept DEF LimitHolds
<1>5. ShowsEveryLine' /\ SizedToFit'
  BY DEF ShowsEveryLine, SizedToFit
<1>6. QED
  BY <1>2, <1>3, <1>4, <1>5

\* Nothing happens.
LEMMA IdleQInv ==
  ASSUME QInv, UNCHANGED vars
  PROVE  QInv'
<1>1. TtyMaxChars' = TtyMaxChars
  BY LimitKept DEF vars
<1>2. Exhausted' = Exhausted /\ (LineOf(NextLine))' = LineOf(NextLine)
  BY DEF Exhausted, LineOf, NextLine, vars
<1>3. ScreenHolds' /\ PositionHolds' /\ LimitHolds'
  BY <1>1 DEF QInv, ScreenHolds, PositionHolds, LimitHolds, Animating, vars
<1>4. ShowsEveryLine' /\ SizedToFit'
  BY <1>1, <1>2 DEF QInv, ShowsEveryLine, SizedToFit, vars
<1>5. QED
  BY <1>3, <1>4 DEF QInv, vars

-----------------------------------------------------------------------------
(* The theorems *)

\* The invariant holds, whether or not the program is scheduled.
THEOREM DisplayInvariance == Spec => []QInv
<1>1. Init => QInv
  BY InitQInv
<1>2. QInv /\ [Next]_vars => QInv'
  <2> SUFFICES ASSUME QInv, [Next]_vars PROVE QInv'
    OBVIOUS
  <2>1. CASE StartLines
    BY <2>1, StartLinesQInv
  <2>2. CASE Resolve
    BY <2>2, ResolveQInv
  <2>3. CASE BadInput
    BY <2>3, ReturnQInv DEF BadInput
  <2>4. CASE UseSingle
    BY <2>4, UseSingleQInv
  <2>5. CASE BuildEncoder
    BY <2>5, BuildEncoderQInv
  <2>6. CASE EnterScreen \/ EnterRaw
    BY <2>6, EnterQInv
  <2>7. CASE Draw
    BY <2>7, DrawQInv
  <2>8. CASE Deadline \/ Poll
    BY <2>8, WaitQInv
  <2>9. CASE PollFails
    BY <2>9, ReturnQInv DEF PollFails
  <2>10. CASE UserActs
    BY <2>10, UserQInv
  <2>11. CASE UNCHANGED vars
    BY <2>11, IdleQInv
  <2>12. QED
    BY <2>1, <2>2, <2>3, <2>4, <2>5, <2>6, <2>7, <2>8, <2>9, <2>10, <2>11 DEF Next, Program
<1>3. QED
  BY <1>1, <1>2, PTL DEF Spec

\* However the command ends, it leaves neither the alternate screen nor raw
\* mode behind: AltScreen's guard, and the failing path of AltScreen::enter.
THEOREM ScreenIsRestored == FairSpec => []TerminalRestored
<1>1. QInv => TerminalRestored
  BY DEF QInv, ScreenHolds, TerminalRestored
<1>2. QED
  BY <1>1, DisplayInvariance, PTL DEF FairSpec

\* The frames are the lines of the list over and over, or the parts of the
\* stream without a gap: animate_parts' index wraps, and animate_encoder's
\* first part is shown once.
THEOREM EveryLineIsShown == FairSpec => []ShowsEveryLine
<1>1. QInv => ShowsEveryLine
  BY DEF QInv
<1>2. QED
  BY <1>1, DisplayInvariance, PTL DEF FairSpec

\* tty_max_chars agrees with check_fits: a line within the limit taken from a
\* terminal that keeps its size is never refused for its size.
THEOREM LimitIsEnough == FairSpec => []SizedToFit
<1>1. QInv => SizedToFit
  BY DEF QInv
<1>2. QED
  BY <1>1, DisplayInvariance, PTL DEF FairSpec
=============================================================================
