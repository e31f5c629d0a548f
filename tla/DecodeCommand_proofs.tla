------------------------ MODULE DecodeCommand_proofs ------------------------
(***************************************************************************)
(* What `bcur decode` writes, and when it gives up, for every text, every  *)
(* --type and every set of frames.                                         *)
(*                                                                         *)
(* The decoder the command owns is the one UrDecoder_proofs is about, so   *)
(* its invariant and what a frame does to it are taken from there.  The    *)
(* loop adds what is known of the lines read so far: those the session     *)
(* could use are held, as equations, by the session; and while it has no   *)
(* stream, none could be read under the type asked for.                    *)
(***************************************************************************)
EXTENDS DecodeCommand, FiniteSetTheorems, TLAPS

U == INSTANCE UrDecoder_proofs WITH AcceptLists <- {{}}

-----------------------------------------------------------------------------
(* The decoder and the one of the proofs *)

\* The assumptions of those proofs.
LEMMA Assumptions ==
  /\ U!PartsAssumption /\ U!MixedAssumption /\ U!LimitsAssumption
  /\ U!SourcesAssumption /\ U!CountsAssumption /\ U!FramesAssumption
<1>1. U!PartsAssumption
  BY PartsAssumption DEF U!PartsAssumption, U!PartFields, PartFields, U!PartNew, PartNew
<1>2. U!MixedAssumption
  BY MixedAssumption DEF U!MixedAssumption
<1>3. U!LimitsAssumption
  BY LimitsAssumption DEF U!LimitsAssumption
<1>4. U!SourcesAssumption
  BY SourcesAssumption DEF U!SourcesAssumption
<1>5. U!CountsAssumption
  BY TextsAssumption DEF U!CountsAssumption
<1>6. \A f : U!FrameValid(f) <=> Decoder!FrameValid(f)
  BY DEF U!FrameValid, Decoder!FrameValid, U!NoType, Decoder!NoType,
         U!Received, Decoder!Received
<1>7. U!FramesAssumption
  BY <1>6, TextsAssumption DEF U!FramesAssumption
<1>8. QED
  BY <1>1, <1>2, <1>3, <1>4, <1>5, <1>7

\* The data of the streams and of the equations.
LEMMA SameData ==
  /\ U!NoStream = NoStream
  /\ \A p : U!StreamOf(p) = StreamOf(p)
  /\ \A s : U!Columns(s) = Columns(s)
  /\ \A f : U!Readable(f) <=> Readable(f)
  /\ \A e, m : U!Spans(e, m) <=> Decoder!Fountain!Spans(e, m)
  /\ \A p, src : U!Honest(p, src) <=> Honest(p, src)
<1>1. U!NoStream = NoStream
  BY DEF U!NoStream, NoStream
<1>2. \A p : U!StreamOf(p) = StreamOf(p)
  BY DEF U!StreamOf, StreamOf
<1>3. \A s : U!Columns(s) = Columns(s)
  BY DEF U!Columns, Columns
<1>4. \A f : U!Readable(f) <=> Readable(f)
  BY DEF U!Readable, Readable, U!BodyError, Decoder!BodyError
<1>5. \A p : U!Indexes(p) = Indexes(p) /\ Decoder!Fountain!Indexes(p) = Indexes(p)
  BY DEF U!Indexes, Indexes, Decoder!Fountain!Indexes, U!Choose, Choose,
         Decoder!Fountain!Choose
<1>6. \A S : U!Cardinality(S) = Cardinality(S)
             /\ Decoder!Fountain!Cardinality(S) = Cardinality(S)
  BY DEF U!Cardinality, Cardinality, Decoder!Fountain!Cardinality
<1>7. \A S : (U!Odd(S) <=> Odd(S)) /\ (Decoder!Fountain!Odd(S) <=> Odd(S))
  BY <1>6 DEF U!Odd, Odd, Decoder!Fountain!Odd
<1>8. \A e : U!XorOfIndexes(e) = Decoder!Fountain!XorOfIndexes(e)
  BY <1>5, <1>7 DEF U!XorOfIndexes, Decoder!Fountain!XorOfIndexes
<1>9. \A e, m : U!Spans(e, m) <=> Decoder!Fountain!Spans(e, m)
  BY <1>8 DEF U!Spans, Decoder!Fountain!Spans
<1>10. \A f, S : U!Combine(f, S) = Combine(f, S)
  BY <1>7 DEF U!Combine, Combine
<1>11. \A src, s : U!Fragments(src, s) = Fragments(src, s)
  BY <1>3 DEF U!Fragments, Fragments
<1>12. \A p, src : U!Honest(p, src) <=> Honest(p, src)
  BY <1>2, <1>5, <1>10, <1>11 DEF U!Honest, Honest
<1>13. QED
  BY <1>1, <1>2, <1>3, <1>4, <1>9, <1>12

\* A part for the fountain decoder.
LEMMA SameSession ==
  ASSUME NEW q
  PROVE  Decoder!Fountain!Receive(q) => U!Fountain!Receive(q)
<1>1. /\ \A S : U!Fountain!Cardinality(S) = Decoder!Fountain!Cardinality(S)
      /\ \A p : U!Fountain!StreamOf(p) = Decoder!Fountain!StreamOf(p)
      /\ \A p : U!Fountain!Indexes(p) = Decoder!Fountain!Indexes(p)
      /\ \A p : U!Fountain!LimitError(p) = Decoder!Fountain!LimitError(p)
      /\ \A s, b : U!Fountain!Verify(s, b) = Decoder!Fountain!Verify(s, b)
      /\ \A n : U!Fountain!Saturate(n) = Decoder!Fountain!Saturate(n)
      /\ U!Fountain!NoStream = Decoder!Fountain!NoStream
      /\ \A s : U!Fountain!Columns(s) = Decoder!Fountain!Columns(s)
  BY DEF U!Fountain!Cardinality, Decoder!Fountain!Cardinality,
         U!Fountain!StreamOf, Decoder!Fountain!StreamOf,
         U!Fountain!Indexes, Decoder!Fountain!Indexes, U!Fountain!Choose, Decoder!Fountain!Choose,
         U!Fountain!LimitError, Decoder!Fountain!LimitError,
         U!Fountain!Verify, Decoder!Fountain!Verify,
         U!Fountain!Saturate, Decoder!Fountain!Saturate,
         U!Fountain!NoStream, Decoder!Fountain!NoStream,
         U!Fountain!Columns, Decoder!Fountain!Columns
<1>2. \A S : U!Fountain!Odd(S) <=> Decoder!Fountain!Odd(S)
  BY <1>1 DEF U!Fountain!Odd, Decoder!Fountain!Odd
<1>3. /\ \A f, S : U!Fountain!Combine(f, S) = Decoder!Fountain!Combine(f, S)
      /\ \A e : U!Fountain!XorOfIndexes(e) = Decoder!Fountain!XorOfIndexes(e)
      /\ \A s, f : U!Fountain!Concat(s, f) = Decoder!Fountain!Concat(s, f)
  BY <1>1, <1>2 DEF U!Fountain!Combine, Decoder!Fountain!Combine,
         U!Fountain!XorOfIndexes, Decoder!Fountain!XorOfIndexes,
         U!Fountain!Concat, Decoder!Fountain!Concat
<1>4. /\ \A s, e : U!Fountain!Solutions(s, e) = Decoder!Fountain!Solutions(s, e)
      /\ \A e, m : U!Fountain!Spans(e, m) <=> Decoder!Fountain!Spans(e, m)
  BY <1>1, <1>3 DEF U!Fountain!Solutions, Decoder!Fountain!Solutions,
         U!Fountain!Spans, Decoder!Fountain!Spans
<1>5. \A s, e : U!Fountain!Solve(s, e) = Decoder!Fountain!Solve(s, e)
  BY <1>3, <1>4 DEF U!Fountain!Solve, Decoder!Fountain!Solve
<1>6. U!Fountain!Terminal <=> Decoder!Fountain!Terminal
  BY DEF U!Fountain!Terminal, Decoder!Fountain!Terminal
<1>7. U!Fountain!Admitted(q) <=> Decoder!Fountain!Admitted(q)
  BY <1>1, <1>6 DEF U!Fountain!Admitted, Decoder!Fountain!Admitted
<1>8. Decoder!Fountain!ReceiveTerminal => U!Fountain!ReceiveTerminal
  BY <1>1, <1>6 DEF U!Fountain!ReceiveTerminal, Decoder!Fountain!ReceiveTerminal
<1>9. Decoder!Fountain!RejectInconsistent(q) => U!Fountain!RejectInconsistent(q)
  BY <1>1, <1>6 DEF U!Fountain!RejectInconsistent, Decoder!Fountain!RejectInconsistent,
     U!Fountain!session, Decoder!Fountain!session
<1>10. Decoder!Fountain!FailLimit(q) => U!Fountain!FailLimit(q)
  BY <1>1, <1>6 DEF U!Fountain!FailLimit, Decoder!Fountain!FailLimit
<1>11. Decoder!Fountain!ReceiveKnown(q) => U!Fountain!ReceiveKnown(q)
  BY <1>1, <1>4, <1>7 DEF U!Fountain!ReceiveKnown, Decoder!Fountain!ReceiveKnown
<1>12. Decoder!Fountain!ReceiveNew(q) => U!Fountain!ReceiveNew(q)
  BY <1>1, <1>4, <1>5, <1>7 DEF U!Fountain!ReceiveNew, Decoder!Fountain!ReceiveNew
<1>13. QED
  BY <1>8, <1>9, <1>10, <1>11, <1>12 DEF U!Fountain!Receive, Decoder!Fountain!Receive

\* The calls the command makes.
LEMMA SameCalls ==
  /\ Decoder!Init => U!Init
  /\ Decoder!None = U!None /\ Decoder!NoType = U!NoType /\ Decoder!Fatal = U!Fatal
  /\ \A f : Decoder!Receive(f) => U!Receive(f)
<1>1. /\ Decoder!None = U!None /\ Decoder!NoType = U!NoType /\ Decoder!Fatal = U!Fatal
      /\ \A t, n, b : Decoder!Complete(t, n, b) = U!Complete(t, n, b)
      /\ \A e : Decoder!Failed(e) = U!Failed(e)
      /\ \A f : Decoder!BodyError(f) = U!BodyError(f)
      /\ Decoder!Received = U!Received
  BY DEF Decoder!None, U!None, Decoder!NoType, U!NoType, Decoder!Fatal, U!Fatal,
         Decoder!Complete, U!Complete, Decoder!Failed, U!Failed,
         Decoder!BodyError, U!BodyError, Decoder!Received, U!Received
<1>2. Decoder!Init => U!Init
  BY <1>1 DEF Decoder!Init, U!Init, Decoder!Fountain!Init, U!Fountain!Init,
     Decoder!Fountain!NoStream, U!Fountain!NoStream
<1>3. ASSUME NEW f, Decoder!Receive(f)
      PROVE  U!Receive(f)
  <2> USE <1>1 DEF Decoder!session, U!session, Decoder!fountain, U!fountain,
        Decoder!Admitted, U!Admitted, Decoder!Foreign, U!Foreign,
        Decoder!Reject, U!Reject, Decoder!Fatalize, U!Fatalize,
        Decoder!Parsed, U!Parsed, Decoder!Lock, U!Lock, Decoder!Count, U!Count,
        Decoder!Fountain!Saturate, U!Fountain!Saturate, Decoder!Finish, U!Finish,
        Decoder!Witness, U!Witness
  <2>1. Decoder!RejectHead(f) => U!RejectHead(f)
    BY DEF Decoder!RejectHead, U!RejectHead
  <2>2. Decoder!RejectType(f) => U!RejectType(f)
    BY DEF Decoder!RejectType, U!RejectType
  <2>3. Decoder!RejectText(f) => U!RejectText(f)
    BY DEF Decoder!RejectText, U!RejectText
  <2>4. Decoder!FailText(f) => U!FailText(f)
    BY DEF Decoder!FailText, U!FailText
  <2>5. Decoder!RejectBody(f) => U!RejectBody(f)
    BY DEF Decoder!RejectBody, U!RejectBody
  <2>6. Decoder!RejectSingle(f) => U!RejectSingle(f)
    BY DEF Decoder!RejectSingle, U!RejectSingle
  <2>7. Decoder!FailSingle(f) => U!FailSingle(f)
    BY DEF Decoder!FailSingle, U!FailSingle
  <2>8. Decoder!CompleteSingle(f) => U!CompleteSingle(f)
    BY DEF Decoder!CompleteSingle, U!CompleteSingle
  <2>9. Decoder!ReceiveMulti(f) => U!ReceiveMulti(f)
    BY SameSession DEF Decoder!ReceiveMulti, U!ReceiveMulti
  <2>10. QED
    BY <1>3, <2>1, <2>2, <2>3, <2>4, <2>5, <2>6, <2>7, <2>8, <2>9
       DEF Decoder!Receive, U!Receive
<1>4. QED
  BY <1>1, <1>2, <1>3

-----------------------------------------------------------------------------
(* The invariant *)

\* The line states an equation of the session's stream, under its type.
States(l) ==
  /\ U!Readable(l) /\ l.ur_type = locked
  /\ l.body.kind = "multi" /\ U!StreamOf(l.body.part) = stream

\* The lines read so far, while the session has not ended.
ReadSoFar ==
  \A k \in DOMAIN lines : k < next =>
    IF stream = U!NoStream
    THEN U!Readable(lines[k]) => ur_type # NoArg /\ lines[k].ur_type # ur_type
    ELSE States(lines[k]) => U!Spans(equations, U!Indexes(lines[k].body.part))

\* The type asked for.
LockHolds == locked # U!NoType /\ ur_type # NoArg => locked = ur_type

DInv ==
  /\ U!UInv
  /\ lines \in Seq(Frames) /\ next \in Nat
  /\ accept = IF next # 0 /\ ur_type # NoArg THEN {ur_type} ELSE {}
  /\ next = 0 => stream = U!NoStream /\ locked = U!NoType
  /\ exit \in {"running", "ended"} => terminal = U!None /\ LockHolds /\ ReadSoFar
  /\ exit = "ended" => next > Len(lines)
  /\ exit = "ok" =>
       /\ output = terminal /\ terminal.kind = "Complete"
       /\ ur_type # NoArg => terminal.ur_type = ur_type

\* The start.
LEMMA InitDInv == Init => DInv
<1> SUFFICES ASSUME Init PROVE DInv
  OBVIOUS
<1>1. U!Init
  BY SameCalls DEF Init
<1>2. U!UInv
  BY <1>1, Assumptions, U!InitUInv
<1>3. lines \in Seq(Frames) /\ next = 0 /\ exit = "running"
  BY TextsAssumption DEF Init
<1>4. stream = U!NoStream /\ locked = U!NoType /\ terminal = U!None /\ accept = {}
  BY <1>1 DEF U!Init, U!Fountain!Init, U!Fountain!NoStream, U!NoStream
<1>5. ReadSoFar
  BY <1>3, <1>4 DEF ReadSoFar
<1>6. QED
  BY <1>2, <1>3, <1>4, <1>5 DEF DInv, LockHolds

\* What does not touch the decoder keeps what is known of it.
LEMMA SameDecoder ==
  ASSUME U!UInv, UNCHANGED decoder
  PROVE  U!UInv'
<1>1. UNCHANGED <<U!session, U!history>>
  BY DEF decoder, U!session, U!fountain, U!history
<1>2. QED
  BY <1>1, Assumptions, U!SameUInv

\* The command ends before the first line, or at the end of the text.
LEMMA ExitDInv ==
  ASSUME DInv, NoLines \/ BadType \/ EndOfText
  PROVE  DInv'
<1>1. /\ exit = "running" /\ UNCHANGED decoder /\ UNCHANGED <<ur_type, lines, next, output>>
      /\ exit' \in {"no_lines", "bad_type", "ended"}
      /\ exit' = "ended" => next > Len(lines)
  BY DEF NoLines, BadType, EndOfText, Exit
<1>2. U!UInv'
  BY <1>1, SameDecoder DEF DInv
<1>3. UNCHANGED <<stream, equations, locked, terminal, accept>>
  BY <1>1 DEF decoder
<1>4. LockHolds' /\ ReadSoFar'
  BY <1>1, <1>3 DEF DInv, LockHolds, ReadSoFar, States
<1>5. QED
  BY <1>1, <1>2, <1>3, <1>4 DEF DInv

\* The decoder is opened.
LEMMA OpenDInv ==
  ASSUME DInv, Open
  PROVE  DInv'
<1>1. /\ exit = "running" /\ next = 0 /\ next' = 1
      /\ UNCHANGED <<ur_type, lines, output, exit>>
      /\ IF ur_type = NoArg THEN UNCHANGED decoder ELSE Decoder!Accept({ur_type})
  BY DEF Open
<1>2. /\ UNCHANGED <<U!session, U!history>>
      /\ accept' = IF ur_type = NoArg THEN accept ELSE {ur_type}
  BY <1>1 DEF decoder, U!session, U!fountain, U!history, Decoder!Accept, Decoder!session,
     Decoder!fountain, Decoder!history
<1>3. U!UInv'
  BY <1>2, Assumptions, U!SameUInv DEF DInv
<1>4. UNCHANGED <<stream, equations, locked, terminal>>
  BY <1>2 DEF U!session, U!fountain
<1>5. LockHolds' /\ ReadSoFar'
  BY <1>1, <1>4 DEF DInv, LockHolds, ReadSoFar, States
<1>6. QED
  BY <1>1, <1>2, <1>3, <1>4, <1>5 DEF DInv

\* A line is read.
LEMMA FeedDInv ==
  ASSUME DInv, Feed
  PROVE  DInv'
<1> DEFINE f == lines[next]
<1>1. /\ exit = "running" /\ next \in DOMAIN lines /\ Call /\ AfterCall
      /\ terminal = U!None /\ lines \in Seq(Frames) /\ next \in Nat /\ next # 0
  BY DEF Feed, DInv
<1>2. U!Receive(f)
  BY <1>1, SameCalls DEF Call, Decoder!ReceiveTerminal
<1>3. f \in Frames
  BY <1>1
<1>4. U!FrameValid(f)
  BY <1>3, Assumptions DEF U!FramesAssumption
<1>5. U!UInv'
  BY <1>2, <1>4, Assumptions, U!ReceiveUInv DEF DInv
<1>6. U!Refused(f) \/ result' \in U!Fatal \/ U!Taken(f) \/ U!Single(f)
  BY <1>1, <1>2, <1>4, Assumptions, U!FrameDoes DEF DInv
<1>7. UNCHANGED accept
  BY <1>2, Assumptions, U!AcceptListKept
<1>8. UNCHANGED <<ur_type, lines>>
  BY <1>1 DEF AfterCall, Write, Continue, Exit
<1>9. /\ stream = U!NoStream => locked = U!NoType
      /\ stream # U!NoStream => locked # U!NoType
  BY <1>1 DEF DInv, U!UInv, U!SessionHolds, U!TerminalsAgree, U!None, U!Complete, U!Failed
<1>10. /\ LockHolds /\ ReadSoFar
       /\ accept = IF ur_type # NoArg THEN {ur_type} ELSE {}
  BY <1>1 DEF DInv
<1>11. ASSUME ~U!Foreign(f), locked' = f.ur_type
       PROVE  /\ ur_type # NoArg => locked' = ur_type
              /\ LockHolds'
              /\ locked # U!NoType => locked' = locked
  BY <1>8, <1>10, <1>11 DEF U!Foreign, LockHolds
<1>12. ASSUME Continue, terminal' = U!None, LockHolds', ReadSoFar'
       PROVE  DInv'
  BY <1>1, <1>5, <1>7, <1>8, <1>10, <1>12 DEF DInv, Continue
<1>13. CASE result' \in U!Fatal
  <2>1. exit' = "fatal" /\ UNCHANGED next
    BY <1>1, <1>13, SameCalls DEF AfterCall, Exit, U!Fatal
  <2>2. QED
    BY <1>1, <1>5, <1>7, <1>8, <1>10, <2>1 DEF DInv
<1>14. CASE result' \notin U!Fatal /\ terminal' = U!None
  <2>1. Continue
    BY <1>1, <1>14, SameCalls DEF AfterCall, U!None
  <2>2. next' = next + 1
    BY <2>1 DEF Continue
  <2>3. ASSUME NEW k \in DOMAIN lines', k < next'
        PROVE  k = next \/ (k \in DOMAIN lines /\ k < next)
    BY <1>1, <1>8, <2>2, <2>3
  <2>4. CASE U!Refused(f)
    <3>1. UNCHANGED <<stream, equations, locked>>
      BY <2>4 DEF U!Refused
    <3>2. LockHolds'
      BY <1>8, <1>10, <3>1 DEF LockHolds
    <3>3. IF stream = U!NoStream
          THEN U!Readable(f) => ur_type # NoArg /\ f.ur_type # ur_type
          ELSE ~States(f)
      <4>1. CASE stream = U!NoStream
        BY <1>9, <1>10, <2>4, <4>1 DEF U!Refused, U!Foreign
      <4>2. CASE stream # U!NoStream
        <5>1. ASSUME States(f) PROVE FALSE
          <6>1. U!Foreign(f)
            BY <2>4, <5>1 DEF U!Refused, States
          <6>2. QED
            BY <1>9, <1>10, <4>2, <5>1, <6>1 DEF U!Foreign, States, LockHolds
        <5>2. QED
          BY <4>2, <5>1
      <4>3. QED
        BY <4>1, <4>2
    <3>4. ReadSoFar'
      BY <1>8, <1>10, <2>3, <3>1, <3>3 DEF ReadSoFar, States
    <3>5. QED
      BY <1>12, <1>14, <2>1, <3>2, <3>4
  <2>5. CASE U!Taken(f)
    <3>1. /\ ~U!Foreign(f) /\ locked' = f.ur_type
          /\ f.body.kind = "multi" /\ U!StreamOf(f.body.part) = stream'
          /\ stream' # U!NoStream
          /\ stream = U!NoStream \/ stream' = stream
          /\ equations \subseteq equations'
          /\ U!Spans(equations', U!Indexes(f.body.part))
      BY <2>5 DEF U!Taken
    <3>2. LockHolds'
      BY <1>11, <3>1
    <3>3. \A m : U!Spans(equations, m) => U!Spans(equations', m)
      BY <3>1 DEF U!Spans
    <3>4. ASSUME NEW k \in DOMAIN lines, k < next, States(lines[k])'
          PROVE  U!Spans(equations', U!Indexes(lines[k].body.part))
      <4>1. /\ U!Readable(lines[k]) /\ lines[k].ur_type = locked'
            /\ lines[k].body.kind = "multi" /\ U!StreamOf(lines[k].body.part) = stream'
        BY <1>8, <3>4 DEF States
      <4>2. CASE stream = U!NoStream
        <5>1. ur_type # NoArg /\ lines[k].ur_type # ur_type
          BY <1>10, <3>4, <4>1, <4>2 DEF ReadSoFar
        <5>2. QED
          BY <1>11, <3>1, <4>1, <5>1
      <4>3. CASE stream # U!NoStream
        <5>1. locked' = locked /\ stream' = stream
          BY <1>9, <1>11, <3>1, <4>3
        <5>2. States(lines[k])
          BY <4>1, <5>1 DEF States
        <5>3. QED
          BY <1>10, <3>3, <3>4, <4>3, <5>2 DEF ReadSoFar
      <4>4. QED
        BY <4>2, <4>3
    <3>5. ReadSoFar'
      BY <1>8, <2>3, <3>1, <3>4 DEF ReadSoFar
    <3>6. QED
      BY <1>12, <1>14, <2>1, <3>2, <3>5
  <2>6. CASE U!Single(f)
    BY <1>14, <2>6 DEF U!Single, U!None
  <2>7. QED
    BY <1>6, <1>14, <2>4, <2>5, <2>6
<1>15. CASE result' \notin U!Fatal /\ terminal' # U!None
  <2>1. /\ result' \in {"Accepted", "Duplicate"} /\ terminal'.kind = "Complete"
        /\ ~U!Foreign(f) /\ locked' = f.ur_type
    BY <1>1, <1>6, <1>15 DEF U!Refused, U!Taken, U!Single
  <2>2. Write
    BY <1>1, <2>1, SameCalls DEF AfterCall, U!Fatal
  <2>3. /\ exit' \in {"ok", "io_error"} /\ UNCHANGED next
        /\ exit' = "ok" => output' = terminal'
    BY <2>2 DEF Write
  <2>4. terminal'.ur_type = locked'
    BY <1>5, <2>1 DEF U!UInv, U!OneType
  <2>5. ur_type # NoArg => terminal'.ur_type = ur_type
    BY <1>11, <2>1, <2>4
  <2>6. QED
    BY <1>1, <1>5, <1>7, <1>8, <1>10, <2>1, <2>3, <2>5 DEF DInv
<1>16. QED
  BY <1>13, <1>14, <1>15

\* Nothing happens.
LEMMA IdleDInv ==
  ASSUME DInv, UNCHANGED vars
  PROVE  DInv'
<1>1. U!UInv'
  BY SameDecoder DEF DInv, vars
<1>2. UNCHANGED <<stream, equations, locked, terminal, accept, ur_type, lines, next, output,
                  exit>>
  BY DEF vars, decoder
<1>3. QED
  BY <1>1, <1>2 DEF DInv, LockHolds, ReadSoFar, States

-----------------------------------------------------------------------------
(* The theorems *)

\* The invariant of the command.
THEOREM CommandInvariance == Spec => []DInv
<1>1. DInv /\ [Next]_vars => DInv'
  BY ExitDInv, OpenDInv, FeedDInv, IdleDInv DEF Next
<1>2. QED
  BY <1>1, InitDInv, PTL DEF Spec

\* What `bcur decode` writes is a whole message of the type asked for, and the
\* source its parts were cut from.
THEOREM WrittenIsTheMessage == Spec => []WritesTheMessage
<1>1. ASSUME DInv, exit = "ok"
      PROVE  /\ output.kind = "Complete"
             /\ ur_type # NoArg => output.ur_type = ur_type
  BY <1>1 DEF DInv
<1>2. ASSUME DInv, exit = "ok", NEW src \in Sources,
             stream # NoStream, \A p \in equations : Honest(p, src)
      PROVE  output.message = src.bytes /\ output.length = src.length
  <2>1. U!UInv /\ terminal.kind = "Complete" /\ output = terminal
    BY <1>2 DEF DInv
  <2>2. stream # U!NoStream /\ \A p \in equations : U!Honest(p, src)
    BY <1>2, SameData
  <2>3. terminal.message = src.bytes /\ terminal.length = src.length
    BY <2>1, <2>2, Assumptions, U!MessageIsSource
  <2>4. QED
    BY <2>1, <2>3
<1>3. DInv => WritesTheMessage
  BY <1>1, <1>2 DEF WritesTheMessage
<1>4. QED
  BY <1>3, CommandInvariance, PTL

\* "stream ended before the fountain message completed" is true when it is
\* said: no line of the text that could help was lost to the lines around it.
THEOREM EarlyEndIsJustified == Spec => []EndsEarlyOnlyIfShort
<1>1. ASSUME DInv, exit = "ended", NEW k \in DOMAIN lines
      PROVE  IF stream = U!NoStream
             THEN U!Readable(lines[k]) => ur_type # NoArg /\ lines[k].ur_type # ur_type
             ELSE States(lines[k]) => U!Spans(equations, U!Indexes(lines[k].body.part))
  <2>1. k < next
    BY <1>1 DEF DInv
  <2>2. QED
    BY <1>1, <2>1 DEF DInv, ReadSoFar
<1>2. ASSUME DInv, exit = "ended", stream # NoStream
      PROVE  \E c \in Columns(stream) : ~Decoder!Fountain!Spans(Useful, {c})
  <2>1. U!UInv /\ terminal = U!None /\ stream # U!NoStream /\ lines \in Seq(Frames)
    BY <1>2, SameData DEF DInv
  <2> DEFINE J == {j \in DOMAIN lines :
                    /\ Readable(lines[j]) /\ OfType(lines[j], locked)
                    /\ lines[j].body.kind = "multi" /\ StreamOf(lines[j].body.part) = stream}
             part(j) == lines[j].body.part
  <2>2. Useful = {part(j) : j \in J}
    BY DEF Useful
  <2>3. IsFiniteSet(J)
    <3>1. DOMAIN lines = 1 .. Len(lines) /\ Len(lines) \in Nat
      BY <2>1
    <3>2. IsFiniteSet(1 .. Len(lines))
      BY <3>1, FS_Interval
    <3>3. J \subseteq 1 .. Len(lines)
      BY <3>1
    <3>4. QED
      BY <3>2, <3>3, FS_Subset
  <2>4. IsFiniteSet(Useful)
    <3> HIDE DEF J, part
    <3> DEFINE g == [j \in J |-> part(j)]
    <3>1. g \in Surjection(J, Useful)
      BY <2>2 DEF Surjection
    <3>2. QED
      BY <2>3, <3>1, FS_Surjection
  <2>5. \A q \in Useful : U!Spans(equations, U!Indexes(q))
    BY <1>1, <1>2, <2>1, <2>2, SameData DEF States, OfType
  <2>6. U!IsFiniteSet(Useful)
    BY <2>4 DEF U!IsFiniteSet, IsFiniteSet
  <2>7. \E c \in U!Columns(stream) : ~U!Spans(Useful, {c})
    BY <2>1, <2>5, <2>6, Assumptions, U!CollectingLacks
  <2>8. QED
    BY <2>7, SameData
<1>3. ASSUME DInv, exit = "ended", stream = NoStream, NEW k \in DOMAIN lines, Readable(lines[k])
      PROVE  ur_type # NoArg /\ ~OfType(lines[k], ur_type)
  BY <1>1, <1>3, SameData DEF OfType
<1>4. DInv => EndsEarlyOnlyIfShort
  BY <1>2, <1>3 DEF EndsEarlyOnlyIfShort
<1>5. QED
  BY <1>4, CommandInvariance, PTL
=============================================================================
