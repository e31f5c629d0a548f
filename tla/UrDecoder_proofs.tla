-------------------------- MODULE UrDecoder_proofs --------------------------
(***************************************************************************)
(* What a UR session guarantees for every set of frames, every accept list *)
(* and every order of the calls.                                           *)
(*                                                                         *)
(* The session below is known by its promise.  Its equations stay          *)
(* independent, which bounds their number by K and makes it K exactly when *)
(* every fragment is determined; the layer above adds what its terminal    *)
(* state, its lock and its count say of the session below.                 *)
(***************************************************************************)
EXTENDS UrDecoder, FountainStream_proofs

Collected == Cardinality(equations)

\* The fountain decoder.
SessionHolds ==
  /\ phase \in {"Empty", "Collecting", "Complete", "Failed"}
  /\ stream \in Streams \cup {NoStream}
  /\ equations \in SUBSET Parts /\ IsFiniteSet(equations)
  /\ \A q \in equations : StreamOf(q) = stream
  /\ Independent(stream, equations)
  /\ phase = "Empty" => stream = NoStream
  /\ phase = "Collecting" =>
       stream # NoStream /\ Collected \in 1 .. stream.sequence_count - 1
  /\ phase = "Complete" =>
       /\ stream # NoStream /\ Collected = stream.sequence_count
       /\ message = Solve(stream, equations) /\ Verify(stream, message) = "none"
  /\ phase = "Failed" /\ stream = NoStream =>
       error \in {"FragmentCount", "MessageLength", "FragmentLength"}
  /\ phase = "Failed" /\ stream # NoStream =>
       /\ Collected = stream.sequence_count /\ error # "none"
       /\ error = Verify(stream, Solve(stream, equations))

\* What the layer above adds to TerminalsAgree.
LayerHolds ==
  /\ terminal.kind \in {"none", "Complete", "Failed"}
  /\ terminal.kind = "none" => terminal = None
  /\ phase = "Empty" /\ terminal = None => counted = 0
  /\ locked = NoType => types = {}
  /\ counted \in 0 .. MaxFrames

UInv ==
  /\ SessionHolds /\ LayerHolds
  /\ TerminalsAgree /\ OneType /\ CountsFrames

-----------------------------------------------------------------------------
(* The session below *)

\* The two layers read the wire data alike.
LEMMA SameData ==
  /\ Fountain!NoStream = NoStream
  /\ \A S : Fountain!Cardinality(S) = Cardinality(S)
  /\ \A s, b : Fountain!Verify(s, b) = Verify(s, b)
  /\ \A p : /\ Fountain!Indexes(p) = Indexes(p)
            /\ Fountain!StreamOf(p) = StreamOf(p)
            /\ Fountain!LimitError(p) = LimitError(p)
  /\ \A e, m : Fountain!Spans(e, m) <=> Spans(e, m)
  /\ \A s, e : Fountain!Solve(s, e) = Solve(s, e)
<1>1. \A S : Fountain!Cardinality(S) = Cardinality(S)
  BY DEF Fountain!Cardinality, Cardinality
<1>2. \A S : Fountain!Odd(S) <=> Odd(S)
  BY <1>1 DEF Fountain!Odd, Odd
<1>3. Fountain!NoStream = NoStream
  BY DEF Fountain!NoStream, NoStream
<1>4. \A f, S : Fountain!Combine(f, S) = Combine(f, S)
  BY <1>2 DEF Fountain!Combine, Combine
<1>5. \A s : Fountain!Columns(s) = Columns(s)
  BY DEF Fountain!Columns, Columns
<1>6. \A s, f : Fountain!Concat(s, f) = Concat(s, f)
  BY <1>5 DEF Fountain!Concat, Concat
<1>7. \A s, b : Fountain!Verify(s, b) = Verify(s, b)
  BY DEF Fountain!Verify, Verify
<1>8. \A p : Fountain!Indexes(p) = Indexes(p)
  BY DEF Fountain!Indexes, Indexes, Fountain!Choose, Choose
<1>9. \A p : Fountain!StreamOf(p) = StreamOf(p)
  BY DEF Fountain!StreamOf, StreamOf
<1>10. \A p : Fountain!LimitError(p) = LimitError(p)
  BY DEF Fountain!LimitError, LimitError
<1>11. \A e : Fountain!XorOfIndexes(e) = XorOfIndexes(e)
  BY <1>2, <1>8 DEF Fountain!XorOfIndexes, XorOfIndexes
<1>12. \A e, m : Fountain!Spans(e, m) <=> Spans(e, m)
  BY <1>11 DEF Fountain!Spans, Spans
<1>13. \A s, e : Fountain!Solutions(s, e) = Solutions(s, e)
  BY <1>4, <1>5, <1>8 DEF Fountain!Solutions, Solutions
<1>14. \A s, e : Fountain!Solve(s, e) = Solve(s, e)
  BY <1>6, <1>13 DEF Fountain!Solve, Solve
<1>15. QED
  BY <1>1, <1>3, <1>7, <1>8, <1>9, <1>10, <1>12, <1>14

\* A session that has not started or has been reset.
LEMMA SessionStarts ==
  ASSUME phase = "Empty", stream = NoStream, equations = {}
  PROVE  SessionHolds
BY NoneIndependent, FS_EmptySet DEF SessionHolds

\* A session with a stream has a K of at least one; one without has no parts.
LEMMA SessionSized ==
  ASSUME SessionHolds
  PROVE  /\ stream # NoStream => stream.sequence_count \in Nat \ {0}
         /\ stream = NoStream => equations = {} /\ stream.sequence_count = 0
<1>1. stream # NoStream => stream.sequence_count \in Nat \ {0}
  BY StreamCovers DEF SessionHolds
<1>2. NoStream.sequence_count = 0
  BY DEF NoStream
<1>3. ASSUME stream = NoStream, NEW q \in equations PROVE FALSE
  BY <1>3, PartFacts DEF SessionHolds
<1>4. QED
  BY <1>1, <1>2, <1>3

\* What a part may do to a session that has not ended.
Ingested(p) ==
  \/ /\ out' = "InconsistentPart" /\ StreamOf(p) # stream /\ stream # NoStream
     /\ UNCHANGED <<phase, stream, equations, processed, message, error>>
  \/ /\ phase' = "Failed" /\ out' = error'
     /\ UNCHANGED message
     /\ \/ error' \in {"FragmentCount", "MessageLength", "FragmentLength"}
           /\ error' = LimitError(p) /\ phase = "Empty"
           /\ UNCHANGED <<stream, equations>>
        \/ error' \in {"InvalidPadding", "InvalidMessageChecksum"}
           /\ stream' = StreamOf(p) /\ equations' = equations \cup {p}
  \/ /\ phase' \in {"Collecting", "Complete"} /\ out' \in {"Accepted", "Duplicate"}
     /\ stream' = StreamOf(p) /\ Spans(equations', Indexes(p))
     /\ equations' = equations \/ equations' = equations \cup {p}
     /\ processed' = Fountain!Saturate(processed)

\* A part brings news when its index set is not spanned, and starts or
\* continues the stream it states.
LEMMA SessionNew ==
  ASSUME SessionHolds, NEW p \in Parts, Fountain!ReceiveNew(p)
  PROVE  SessionHolds' /\ Ingested(p) /\ phase \in {"Empty", "Collecting"}
<1> DEFINE s == StreamOf(p)
           all == equations \cup {p}
           solved == Solve(s, all)
<1>1. /\ phase \in {"Empty", "Collecting"}
      /\ stream = NoStream \/ stream = s
      /\ ~Spans(equations, Indexes(p))
      /\ stream' = s /\ equations' = all
      /\ processed' = Fountain!Saturate(processed)
      /\ \/ /\ Cardinality(all) # s.sequence_count
            /\ phase' = "Collecting" /\ out' = "Accepted"
            /\ UNCHANGED <<message, error>>
         \/ /\ Cardinality(all) = s.sequence_count /\ Verify(s, solved) = "none"
            /\ phase' = "Complete" /\ message' = solved /\ out' = "Accepted"
            /\ UNCHANGED error
         \/ /\ Cardinality(all) = s.sequence_count /\ Verify(s, solved) # "none"
            /\ phase' = "Failed" /\ error' = Verify(s, solved)
            /\ out' = Verify(s, solved) /\ UNCHANGED message
  <2>1. s.sequence_count = p.sequence_count
    BY DEF StreamOf
  <2>2. phase \in {"Empty", "Collecting", "Complete", "Failed"}
    BY DEF SessionHolds
  <2>3. QED
    BY <2>1, <2>2, SameData
       DEF Fountain!ReceiveNew, Fountain!Admitted, Fountain!Terminal
<1>2. s \in Streams /\ s # NoStream
  BY PartFacts
<1>3. /\ all \in SUBSET Parts /\ IsFiniteSet(all)
      /\ \A q \in all : StreamOf(q) = s
      /\ Independent(s, equations) /\ IsFiniteSet(equations)
  <2>1. stream = NoStream => equations = {}
    BY SessionSized
  <2>2. Independent(s, equations)
    BY <1>1, <2>1, NoneIndependent DEF SessionHolds
  <2>3. QED
    BY <1>1, <2>1, <2>2, FS_AddElement DEF SessionHolds
<1>4. Independent(s, all)
  BY <1>1, <1>2, <1>3, IndependentGrows
<1>5. /\ Cardinality(all) \in Nat \ {0}
      /\ Cardinality(all) <= s.sequence_count
      /\ s.sequence_count \in Nat
  <2>1. all # {}
    OBVIOUS
  <2>2. Cardinality(all) \in Nat \ {0}
    BY <1>3, <2>1, FS_EmptySet, FS_CardinalityType
  <2>3. QED
    BY <1>2, <1>3, <1>4, <2>2, IndependentCounts, StreamCovers
<1>6. Verify(s, solved) \in {"none", "InvalidPadding", "InvalidMessageChecksum"}
  BY DEF Verify
<1>7. Spans(all, Indexes(p))
  BY <1>3, SpanGroup
<1> HIDE DEF s, all, solved
<1>8. Ingested(p)
  BY <1>1, <1>6, <1>7 DEF Ingested, s, all
<1>9. SessionHolds'
  <2>1. Cardinality(all) # s.sequence_count
          => Cardinality(all) \in 1 .. s.sequence_count - 1
    BY <1>5
  <2>2. QED
    BY <1>1, <1>2, <1>3, <1>4, <1>6, <2>1 DEF SessionHolds, Collected, solved
<1>10. QED
  BY <1>1, <1>8, <1>9

\* A part for a session that has not ended keeps what it guarantees.
LEMMA SessionReceives ==
  ASSUME SessionHolds, phase \in {"Empty", "Collecting"},
         NEW p \in Parts, Fountain!Receive(p)
  PROVE  SessionHolds' /\ Ingested(p)
<1>1. CASE Fountain!ReceiveTerminal
  BY <1>1 DEF Fountain!ReceiveTerminal, Fountain!Terminal
<1>2. CASE Fountain!RejectInconsistent(p)
  <2>1. /\ out' = "InconsistentPart" /\ StreamOf(p) # stream /\ stream # NoStream
        /\ UNCHANGED <<phase, stream, equations, processed, message, error>>
    BY <1>2, SameData DEF Fountain!RejectInconsistent, Fountain!session
  <2>2. QED
    BY <2>1 DEF SessionHolds, Ingested, Collected
<1>3. CASE Fountain!FailLimit(p)
  <2>1. /\ phase' = "Failed" /\ out' = error' /\ stream = NoStream
        /\ error' = LimitError(p) /\ LimitError(p) # "none"
        /\ UNCHANGED <<stream, equations, message>>
    BY <1>3, SameData DEF Fountain!FailLimit
  <2>2. error' \in {"FragmentCount", "MessageLength", "FragmentLength"}
    BY <2>1 DEF LimitError
  <2>3. phase = "Empty"
    BY <2>1 DEF SessionHolds
  <2>4. QED
    BY <2>1, <2>2, <2>3 DEF SessionHolds, Ingested, Collected
<1>4. CASE Fountain!ReceiveKnown(p)
  <2>1. /\ Spans(equations, Indexes(p)) /\ out' = "Duplicate"
        /\ UNCHANGED <<phase, stream, equations, message, error>>
        /\ processed' = Fountain!Saturate(processed)
        /\ stream = NoStream \/ StreamOf(p) = stream
    BY <1>4, SameData DEF Fountain!ReceiveKnown, Fountain!Admitted
  <2>2. stream # NoStream
    <3>1. CASE equations = {}
      <4>1. Indexes(p) = {}
        BY <2>1, <3>1, XorOfIndexesSmall DEF Spans
      <4>2. QED
        BY <4>1, IndexesNotEmpty
    <3>2. CASE equations # {}
      BY <3>2, SessionSized
    <3>3. QED
      BY <3>1, <3>2
  <2>3. phase = "Collecting"
    BY <2>2 DEF SessionHolds
  <2>4. QED
    BY <2>1, <2>2, <2>3 DEF SessionHolds, Ingested, Collected
<1>5. CASE Fountain!ReceiveNew(p)
  BY <1>5, SessionNew
<1>6. QED
  BY <1>1, <1>2, <1>3, <1>4, <1>5 DEF Fountain!Receive

-----------------------------------------------------------------------------
(* The layer above *)

\* A new decoder satisfies the invariant.
LEMMA InitUInv == Init => UInv
<1> SUFFICES ASSUME Init PROVE UInv
  OBVIOUS
<1>1. /\ phase = "Empty" /\ stream = NoStream /\ equations = {}
      /\ locked = NoType /\ terminal = None /\ frames_processed = 0
      /\ processed = 0 /\ counted = 0 /\ types = {}
  BY SameData DEF Init, Fountain!Init
<1>2. SessionHolds
  BY <1>1, SessionStarts
<1>3. QED
  BY <1>1, <1>2, CountsAssumption
     DEF UInv, LayerHolds, TerminalsAgree, OneType, CountsFrames, None

\* A call that changes nothing but its result and the accept list.
LEMMA SameUInv ==
  ASSUME UInv, UNCHANGED <<session, history>> PROVE UInv'
BY DEF UInv, SessionHolds, Collected, LayerHolds, TerminalsAgree, OneType,
       CountsFrames, session, fountain, history

\* A frame that is refused or fails leaves no trace in the history.
LEMMA NotTaken ==
  ASSUME NEW read, Witness(read), result' \notin Received
  PROVE  UNCHANGED <<counted, types>>
BY DEF Witness

\* Counting a frame that was taken keeps the count exact.
LEMMA CountedOnce ==
  ASSUME CountsFrames, counted \in 0 .. MaxFrames, Count,
         NEW read, Witness(read), result' \in Received,
         terminal' = None => frames_processed' = processed'
  PROVE  CountsFrames' /\ counted' \in 0 .. MaxFrames
<1>1. counted' = IF counted < MaxFrames THEN counted + 1 ELSE counted
  BY DEF Witness
<1>2. QED
  BY <1>1, CountsAssumption DEF CountsFrames, Count, Fountain!Saturate

\* A frame after the end.
LEMMA TerminalUInv ==
  ASSUME UInv, ReceiveTerminal PROVE UInv'
<1>1. /\ UNCHANGED <<phase, stream, equations, message, error, locked, terminal>>
      /\ terminal # None /\ Count /\ Witness({}) /\ result' \in Received
  BY DEF ReceiveTerminal, fountain, Count, Received
<1>2. SessionHolds'
  BY <1>1 DEF UInv, SessionHolds, Collected
<1>3. CountsFrames' /\ counted' \in 0 .. MaxFrames
  BY <1>1, CountedOnce DEF UInv, LayerHolds
<1>4. UNCHANGED types
  BY <1>1 DEF Witness
<1>5. QED
  BY <1>1, <1>2, <1>3, <1>4 DEF UInv, LayerHolds, TerminalsAgree, OneType

\* A fatal error found above ends the session and leaves the one below.
LEMMA FatalizeUInv ==
  ASSUME UInv, terminal = None, NEW e \in Fatal,
         e = "UriLength" \/ phase = "Empty",
         Fatalize(e), UNCHANGED fountain, NEW read, Witness(read)
  PROVE  UInv'
<1>1. /\ UNCHANGED <<phase, stream, equations, message, error, locked,
                     frames_processed>>
      /\ terminal' = Failed(e) /\ result' \notin Received
  BY DEF Fatalize, fountain, Fatal, Received
<1>2. SessionHolds'
  BY <1>1 DEF UInv, SessionHolds, Collected
<1>3. phase \in {"Empty", "Collecting"}
  BY DEF UInv, SessionHolds, TerminalsAgree, None, Complete, Failed
<1>4. UNCHANGED <<counted, types>>
  BY <1>1, NotTaken
<1>5. QED
  BY <1>1, <1>2, <1>3, <1>4
     DEF UInv, LayerHolds, TerminalsAgree, OneType, CountsFrames, Failed, None

\* The type of an admitted frame is locked from then on.
LEMMA TypeTaken ==
  ASSUME NEW f, Admitted(f), Lock(f.ur_type)
  PROVE  locked' = f.ur_type
BY DEF Admitted, Foreign, Lock

\* A frame taken is counted, and no frame of another type was taken before.
LEMMA FrameTaken ==
  ASSUME UInv, NEW f, Admitted(f), f.ur_type # NoType, Lock(f.ur_type), Count,
         Witness({f.ur_type}), result' \in Received,
         terminal' = None => frames_processed' = processed'
  PROVE  /\ locked' = f.ur_type /\ locked' # NoType /\ types' = {f.ur_type}
         /\ CountsFrames' /\ counted' \in 0 .. MaxFrames
<1>1. locked' = f.ur_type
  BY TypeTaken
<1>2. types \subseteq {f.ur_type}
  BY DEF UInv, LayerHolds, OneType, Admitted, Foreign
<1>3. types' = {f.ur_type}
  BY <1>2 DEF Witness
<1>4. CountsFrames' /\ counted' \in 0 .. MaxFrames
  BY CountedOnce DEF UInv, LayerHolds
<1>5. QED
  BY <1>1, <1>3, <1>4

\* A single-part message ends a session that has not started.
LEMMA CompleteSingleUInv ==
  ASSUME UInv, NEW f, FrameValid(f), CompleteSingle(f), Witness({f.ur_type})
  PROVE  UInv'
<1>1. /\ UNCHANGED <<phase, stream, equations, message, error>>
      /\ phase = "Empty" /\ Admitted(f) /\ Lock(f.ur_type) /\ Count
      /\ terminal' = Complete(f.ur_type, f.body.length, f.body.bytes)
      /\ result' \in Received
  BY DEF CompleteSingle, Parsed, fountain, Received
<1>2. SessionHolds'
  BY <1>1 DEF UInv, SessionHolds, Collected
<1>3. terminal' # None
  BY <1>1 DEF Complete, None
<1>4. /\ locked' = f.ur_type /\ locked' # NoType /\ types' = {f.ur_type}
      /\ CountsFrames' /\ counted' \in 0 .. MaxFrames
  BY <1>1, <1>3, FrameTaken DEF FrameValid
<1>5. QED
  BY <1>1, <1>2, <1>4
     DEF UInv, LayerHolds, TerminalsAgree, OneType, Complete, None

\* A part is refused, fails both layers, or is taken by both.
LEMMA ReceiveMultiUInv ==
  ASSUME UInv, terminal = None, NEW f, FrameValid(f), ReceiveMulti(f),
         Witness({f.ur_type})
  PROVE  UInv'
<1> DEFINE p == f.body.part
<1>1. /\ Admitted(f) /\ p \in Parts /\ Fountain!Receive(p) /\ f.ur_type # NoType
  BY DEF ReceiveMulti, Parsed, Admitted, FrameValid
<1>2. phase \in {"Empty", "Collecting"}
  BY DEF UInv, SessionHolds, TerminalsAgree, None, Complete, Failed
<1>3. SessionHolds' /\ Ingested(p)
  BY <1>1, <1>2, SessionReceives DEF UInv
<1> HIDE DEF p
<1>4. CASE out' = "InconsistentPart"
  <2>1. /\ UNCHANGED <<phase, stream, equations, processed, message, error>>
        /\ UNCHANGED <<locked, terminal, frames_processed>>
        /\ result' \notin Received
    BY <1>3, <1>4 DEF Ingested, ReceiveMulti, Fatal, Received
  <2>2. UNCHANGED <<counted, types>>
    BY <2>1, NotTaken
  <2>3. QED
    BY <1>3, <2>1, <2>2
       DEF UInv, LayerHolds, TerminalsAgree, OneType, CountsFrames
<1>5. CASE out' \in Fatal
  <2>1. /\ phase' = "Failed" /\ terminal' = Failed(error')
        /\ UNCHANGED <<locked, frames_processed>> /\ result' \notin Received
    BY <1>3, <1>5 DEF Ingested, ReceiveMulti, Fatal, Fatalize, Received
  <2>2. UNCHANGED <<counted, types>>
    BY <2>1, NotTaken
  <2>3. QED
    BY <1>3, <2>1, <2>2
       DEF UInv, LayerHolds, TerminalsAgree, OneType, CountsFrames, Failed, None
<1>6. CASE out' \in {"Accepted", "Duplicate"}
  <2>1. /\ phase' \in {"Collecting", "Complete"}
        /\ Lock(f.ur_type) /\ Count /\ Finish(f) /\ result' \in Received
        /\ processed' = Fountain!Saturate(processed)
    BY <1>3, <1>6 DEF Ingested, ReceiveMulti, Fatal, Received
  <2>2. frames_processed' = processed'
    BY <2>1 DEF UInv, CountsFrames, Count
  <2>3. /\ locked' = f.ur_type /\ locked' # NoType /\ types' = {f.ur_type}
        /\ CountsFrames' /\ counted' \in 0 .. MaxFrames
    BY <1>1, <2>1, <2>2, FrameTaken
  <2>4. terminal' = IF phase' = "Complete"
                    THEN Complete(locked', stream'.message_length, message')
                    ELSE None
    BY <2>1, <2>3 DEF Finish
  <2>5. QED
    BY <1>3, <2>1, <2>3, <2>4
       DEF UInv, LayerHolds, TerminalsAgree, OneType, Complete, None
<1>7. QED
  BY <1>4, <1>5, <1>6 DEF ReceiveMulti

\* reset forgets the session.
LEMMA ResetUInv ==
  ASSUME UInv, Reset PROVE UInv'
<1>1. /\ phase' = "Empty" /\ stream' = NoStream /\ equations' = {}
      /\ locked' = NoType /\ terminal' = None /\ frames_processed' = 0
      /\ processed' = 0 /\ counted' = 0 /\ types' = {}
  BY SameData DEF Reset, Fountain!Reset
<1>2. SessionHolds'
  BY <1>1, NoneIndependent, FS_EmptySet DEF SessionHolds
<1>3. QED
  BY <1>1, <1>2, CountsAssumption
     DEF UInv, LayerHolds, TerminalsAgree, OneType, CountsFrames, None

\* Any frame keeps the invariant.
LEMMA ReceiveUInv ==
  ASSUME UInv, NEW f, FrameValid(f), Receive(f) PROVE UInv'
<1>1. CASE \/ RejectHead(f) \/ RejectType(f) \/ RejectText(f) \/ RejectBody(f)
           \/ RejectSingle(f)
  <2>1. UNCHANGED session /\ result' \notin Received
    BY <1>1 DEF RejectHead, RejectType, RejectText, RejectBody, RejectSingle, Reject,
       FrameValid, BodyError, Received
  <2>2. UNCHANGED <<counted, types>>
    BY <2>1, NotTaken DEF Receive
  <2>3. QED
    BY <2>1, <2>2, SameUInv DEF history
<1>2. CASE FailText(f) \/ FailSingle(f)
  BY <1>2, FatalizeUInv DEF Receive, FailText, FailSingle, Fatal
<1>3. CASE CompleteSingle(f)
  BY <1>3, CompleteSingleUInv DEF Receive
<1>4. CASE ReceiveMulti(f)
  BY <1>4, ReceiveMultiUInv DEF Receive
<1>5. QED
  BY <1>1, <1>2, <1>3, <1>4 DEF Receive

\* Every call keeps the invariant.
LEMMA NextUInv == UInv /\ [Next]_vars => UInv'
<1> SUFFICES ASSUME UInv, [Next]_vars PROVE UInv'
  OBVIOUS
<1>1. CASE ReceiveTerminal
  BY <1>1, TerminalUInv
<1>2. ASSUME NEW f \in Frames, Receive(f)
      PROVE  UInv'
  BY <1>2, ReceiveUInv, FramesAssumption
<1>3. ASSUME NEW allowed \in AcceptLists, Accept(allowed)
      PROVE  UInv'
  BY <1>3, SameUInv DEF Accept
<1>4. CASE Reset
  BY <1>4, ResetUInv
<1>5. CASE UNCHANGED vars
  BY <1>5, SameUInv DEF vars
<1>6. QED
  BY <1>1, <1>2, <1>3, <1>4, <1>5 DEF Next

\* The invariant of the UR session.
THEOREM SessionInvariance == Spec => []UInv
BY InitUInv, NextUInv, PTL DEF Spec

-----------------------------------------------------------------------------
(* What a frame does to a session that has not ended *)

\* A frame that the parser reads to the end.
Readable(f) == f.head = "ok" /\ f.text = "ok" /\ BodyError(f) = "none"

\* It is refused, and if it can be read, for its type, for its stream, or as a
\* single-part UR amid parts.
Refused(f) ==
  /\ UNCHANGED <<phase, stream, equations, message, locked, terminal>>
  /\ Readable(f) =>
       \/ Foreign(f)
       \/ stream # NoStream /\ f.body.kind = "single"
       \/ stream # NoStream /\ f.body.kind = "multi" /\ StreamOf(f.body.part) # stream

\* It is taken as a part, and what it states is held.
Taken(f) ==
  /\ result' \in {"Accepted", "Duplicate"}
  /\ ~Foreign(f) /\ locked' = f.ur_type
  /\ f.body.kind = "multi" /\ StreamOf(f.body.part) = stream' /\ stream' # NoStream
  /\ stream = NoStream \/ stream' = stream
  /\ equations \subseteq equations' /\ Spans(equations', Indexes(f.body.part))
  /\ terminal' = None \/ terminal'.kind = "Complete"

\* It is the message.
Single(f) ==
  /\ result' = "Accepted" /\ terminal'.kind = "Complete"
  /\ ~Foreign(f) /\ locked' = f.ur_type /\ stream' = NoStream

\* A part for a session that has not ended.
LEMMA MultiDoes ==
  ASSUME UInv, terminal = None, NEW f, FrameValid(f), ReceiveMulti(f)
  PROVE  Refused(f) \/ result' \in Fatal \/ Taken(f)
<1> DEFINE p == f.body.part
<1>1. /\ Admitted(f) /\ p \in Parts /\ Fountain!Receive(p) /\ f.ur_type # NoType
      /\ f.body.kind = "multi"
  BY DEF ReceiveMulti, Parsed, Admitted, FrameValid
<1>2. phase \in {"Empty", "Collecting"}
  BY DEF UInv, SessionHolds, TerminalsAgree, None, Complete, Failed
<1>3. SessionHolds' /\ Ingested(p)
  BY <1>1, <1>2, SessionReceives DEF UInv
<1> HIDE DEF p
<1>4. CASE out' = "InconsistentPart"
  <2>1. /\ UNCHANGED <<phase, stream, equations, message, error>>
        /\ UNCHANGED <<locked, terminal>>
        /\ StreamOf(p) # stream /\ stream # NoStream
    BY <1>3, <1>4 DEF Ingested, ReceiveMulti, Fatal
  <2>2. QED
    BY <1>1, <2>1 DEF Refused, p
<1>5. CASE out' \in Fatal
  BY <1>5 DEF ReceiveMulti, Fatalize, Fatal
<1>6. CASE out' \in {"Accepted", "Duplicate"}
  <2>1. /\ phase' \in {"Collecting", "Complete"}
        /\ stream' = StreamOf(p) /\ Spans(equations', Indexes(p))
        /\ equations' = equations \/ equations' = equations \cup {p}
        /\ Lock(f.ur_type) /\ Finish(f) /\ result' = out'
    BY <1>3, <1>6 DEF Ingested, ReceiveMulti, Fatal
  <2>2. locked' = f.ur_type
    BY <1>1, <2>1, TypeTaken
  <2>3. StreamOf(p) # NoStream
    BY <1>1, PartFacts
  <2>4. stream = NoStream \/ stream' = stream
    <3>1. CASE equations = {}
      <4>1. phase # "Collecting"
        BY <3>1, FS_EmptySet DEF UInv, SessionHolds, Collected
      <4>2. QED
        BY <1>2, <4>1 DEF UInv, SessionHolds
    <3>2. CASE equations # {}
      BY <1>3, <2>1, <3>2 DEF UInv, SessionHolds
    <3>3. QED
      BY <3>1, <3>2
  <2>5. terminal' = None \/ terminal'.kind = "Complete"
    BY <2>1 DEF Finish, Complete
  <2>6. ~Foreign(f) /\ result' \in {"Accepted", "Duplicate"}
    BY <1>1, <1>6, <2>1 DEF Admitted
  <2>7. QED
    BY <1>1, <2>1, <2>2, <2>3, <2>4, <2>5, <2>6 DEF Taken, p
<1>7. QED
  BY <1>4, <1>5, <1>6 DEF ReceiveMulti

\* Any frame for a session that has not ended.
LEMMA FrameDoes ==
  ASSUME UInv, terminal = None, NEW f, FrameValid(f), Receive(f)
  PROVE  Refused(f) \/ result' \in Fatal \/ Taken(f) \/ Single(f)
<1>1. CASE \/ RejectHead(f) \/ RejectType(f) \/ RejectText(f) \/ RejectBody(f)
  <2>1. UNCHANGED <<phase, stream, equations, message, locked, terminal>>
    BY <1>1 DEF RejectHead, RejectType, RejectText, RejectBody, Reject, session, fountain
  <2>2. ~Readable(f) \/ Foreign(f)
    BY <1>1 DEF RejectHead, RejectType, RejectText, RejectBody, Readable
  <2>3. QED
    BY <2>1, <2>2 DEF Refused
<1>2. CASE RejectSingle(f)
  <2>1. UNCHANGED <<phase, stream, equations, message, locked, terminal>>
    BY <1>2 DEF RejectSingle, Reject, session, fountain
  <2>2. phase = "Collecting"
    BY <1>2 DEF RejectSingle, UInv, SessionHolds, TerminalsAgree, None, Complete, Failed
  <2>3. stream # NoStream /\ f.body.kind = "single"
    BY <1>2, <2>2 DEF UInv, SessionHolds, RejectSingle, Parsed
  <2>4. QED
    BY <2>1, <2>3 DEF Refused
<1>3. CASE FailText(f) \/ FailSingle(f)
  BY <1>3 DEF FailText, FailSingle, Fatalize, Fatal
<1>4. CASE CompleteSingle(f)
  <2>1. /\ Admitted(f) /\ Lock(f.ur_type)
        /\ terminal' = Complete(f.ur_type, f.body.length, f.body.bytes)
        /\ result' = "Accepted" /\ phase = "Empty" /\ stream' = stream
    BY <1>4 DEF CompleteSingle, Parsed, FrameValid, fountain
  <2>2. locked' = f.ur_type /\ stream = NoStream
    BY <2>1, TypeTaken DEF UInv, SessionHolds
  <2>3. QED
    BY <2>1, <2>2 DEF Single, Admitted, Complete
<1>5. CASE ReceiveMulti(f)
  BY <1>5, MultiDoes
<1>6. QED
  BY <1>1, <1>2, <1>3, <1>4, <1>5 DEF Receive

\* No frame changes the accept list.
LEMMA AcceptListKept ==
  ASSUME NEW f, Receive(f)
  PROVE  UNCHANGED accept
BY DEF Receive, RejectHead, RejectType, RejectText, FailText, RejectBody, RejectSingle,
       FailSingle, CompleteSingle, ReceiveMulti, Reject

\* A message joined from the parts of one source is that source.
LEMMA MessageIsSource ==
  ASSUME UInv, terminal.kind = "Complete", stream # NoStream,
         NEW src \in Sources, \A q \in equations : Honest(q, src)
  PROVE  terminal.message = src.bytes /\ terminal.length = src.length
<1>1. phase = "Complete"
  BY DEF UInv, TerminalsAgree, SessionHolds
<1>2. terminal = Complete(locked, stream.message_length, message)
  BY <1>1 DEF UInv, TerminalsAgree
<1>3. /\ stream \in Streams /\ equations \in SUBSET Parts /\ IsFiniteSet(equations)
      /\ \A q \in equations : StreamOf(q) = stream
      /\ Independent(stream, equations) /\ Cardinality(equations) = stream.sequence_count
      /\ message = Solve(stream, equations)
  BY <1>1 DEF UInv, SessionHolds, Collected
<1>4. stream.message_length = src.length /\ Solve(stream, equations) = src.bytes
  BY <1>3, SolvesToSource
<1>5. QED
  BY <1>2, <1>3, <1>4 DEF Complete

\* A session that still collects holds too little to determine every fragment,
\* and so do any parts whose index sets it spans.
LEMMA CollectingLacks ==
  ASSUME UInv, terminal = None, stream # NoStream,
         NEW more, IsFiniteSet(more), \A q \in more : Spans(equations, Indexes(q))
  PROVE  \E c \in Columns(stream) : ~Spans(more, {c})
<1>1. phase = "Collecting"
  BY DEF UInv, SessionHolds, TerminalsAgree, None, Complete, Failed
<1>2. /\ stream \in Streams \cup {NoStream} /\ IsFiniteSet(equations)
      /\ Independent(stream, equations)
      /\ Cardinality(equations) \in 1 .. stream.sequence_count - 1
  BY <1>1 DEF UInv, SessionHolds, Collected
<1> DEFINE known == {c \in Columns(stream) : Spans(equations, {c})}
<1>3. Cardinality(equations) = stream.sequence_count <=> known = Columns(stream)
  BY <1>2, IndependentCounts
<1>4. stream.sequence_count \in Nat
  BY SessionSized DEF UInv
<1>5. Cardinality(equations) # stream.sequence_count
  BY <1>2, <1>4
<1>6. PICK c \in Columns(stream) : ~Spans(equations, {c})
  BY <1>3, <1>5
<1>7. ~Spans(more, {c})
  BY <1>2, <1>6, SpanOfSpanned
<1>8. QED
  BY <1>7

-----------------------------------------------------------------------------
(* What a caller reads *)

\* The counters of a session, and its state.
LEMMA ProgressReads ==
  ASSUME UInv
  PROVE  /\ stream.sequence_count = 0 <=> stream = NoStream
         /\ State = IF terminal # None THEN terminal.kind
                    ELSE IF stream = NoStream THEN "Empty" ELSE "Collecting"
         /\ phase # "Empty" /\ terminal.kind # "Failed" => stream # NoStream
         /\ terminal = None => phase \in {"Empty", "Collecting"}
<1>1. stream.sequence_count = 0 <=> stream = NoStream
  BY SessionSized DEF UInv
<1>2. terminal = None => Progress.fragment_count = stream.sequence_count
  BY DEF Progress, None
<1>3. /\ phase = "Failed" => terminal.kind = "Failed"
      /\ phase = "Complete" => terminal.kind = "Complete"
  BY DEF UInv, TerminalsAgree, Complete, Failed
<1>4. QED
  BY <1>1, <1>2, <1>3 DEF State, UInv, SessionHolds, None

\* The counters of a session are those of its equations.
LEMMA ProgressCounts ==
  ASSUME UInv, ~(stream.sequence_count = 0 /\ terminal.kind = "Complete")
  PROVE  /\ Progress.rank = Collected /\ Collected \in Nat
         /\ Progress.fragment_count = stream.sequence_count
         /\ Progress.fragment_count \in Nat
         /\ Progress.recovered \in Nat
         /\ Progress.recovered <= Collected
         /\ Collected <= stream.sequence_count
         /\ Collected = stream.sequence_count => Progress.recovered = Collected
<1> DEFINE known == {c \in Columns(stream) : Spans(equations, {c})}
<1>1. Progress = [fragment_count |-> stream.sequence_count, rank |-> Collected,
                  recovered |-> Cardinality(known), processed |-> frames_processed]
  <2>1. known = {c \in Columns(stream) : Fountain!Spans(equations, {c})}
    BY SameData
  <2>2. QED
    BY <2>1 DEF Progress, Collected
<1>2. /\ stream \in Streams \cup {NoStream} /\ IsFiniteSet(equations)
      /\ Independent(stream, equations)
  BY DEF UInv, SessionHolds
<1>3. /\ Cardinality(known) <= Collected /\ Cardinality(known) \in Nat
      /\ Collected <= stream.sequence_count
      /\ Collected = stream.sequence_count => known = Columns(stream)
  BY <1>2, IndependentCounts DEF Collected
<1>4. Cardinality(Columns(stream)) = stream.sequence_count /\ stream.sequence_count \in Nat
  BY <1>2, ColumnsFacts, StreamFacts
<1>5. Collected \in Nat
  BY <1>2, FS_CardinalityType DEF Collected
<1> HIDE DEF known
<1>6. QED
  BY <1>1, <1>3, <1>4, <1>5

-----------------------------------------------------------------------------
(* The theorems *)

\* Whatever ends one layer ends the other with the same message or error, and
\* nothing is left finished below a session that ended above.
THEOREM LayersAlwaysAgree == Spec => []LayersAgree
<1>1. UInv => LayersAgree
  <2> SUFFICES ASSUME UInv PROVE State = "Empty" <=> phase = "Empty" /\ terminal = None
    BY DEF LayersAgree, UInv
  <2>1. phase = "Empty" => stream = NoStream
    BY DEF UInv, SessionHolds
  <2>2. terminal # None => terminal.kind \in {"Complete", "Failed"}
    BY DEF UInv, LayerHolds
  <2>3. terminal = None /\ stream = NoStream => phase = "Empty"
    BY ProgressReads DEF None
  <2>4. QED
    BY <2>1, <2>2, <2>3, ProgressReads
<1>2. QED
  BY <1>1, SessionInvariance, PTL

\* Every frame taken carried the type that is locked, whatever the caller does
\* with the accept list.
THEOREM TypesNeverMix == Spec => []OneType
<1>1. UInv => OneType
  BY DEF UInv
<1>2. QED
  BY <1>1, SessionInvariance, PTL

\* `processed` is the number of frames that were answered accepted or duplicate,
\* up to its width, whichever branch answered them, and agrees with the count
\* of the fountain decoder until the session ends.
THEOREM FramesCounted == Spec => []CountsFrames
<1>1. UInv => CountsFrames
  BY DEF UInv
<1>2. QED
  BY <1>1, SessionInvariance, PTL

\* Recovered never exceeds rank nor rank K, and both are K at the end.
THEOREM ProgressIsExact == Spec => []ProgressTracksState
<1>1. UInv => ProgressTracksState
  <2> SUFFICES ASSUME UInv PROVE ProgressTracksState
    OBVIOUS
  <2>1. CASE stream.sequence_count = 0 /\ terminal.kind = "Complete"
    <3>1. /\ Progress.fragment_count = 1 /\ Progress.rank = 1 /\ Progress.recovered = 1
          /\ State = "Complete"
      BY <2>1, ProgressReads DEF Progress, None
    <3>2. QED
      BY <3>1 DEF ProgressTracksState
  <2>2. CASE ~(stream.sequence_count = 0 /\ terminal.kind = "Complete")
    <3>1. State = "Empty" => Progress.processed = 0 /\ Progress.rank = 0
      <4>1. ASSUME State = "Empty"
            PROVE  terminal = None /\ stream = NoStream /\ phase = "Empty"
        BY <4>1, ProgressReads DEF UInv, LayerHolds, None
      <4>2. ASSUME State = "Empty" PROVE frames_processed = 0
        BY <4>1, <4>2, CountsAssumption DEF UInv, LayerHolds, CountsFrames
      <4>3. Progress.processed = frames_processed
        BY <2>2 DEF Progress
      <4>4. ASSUME State = "Empty" PROVE Collected = 0
        BY <4>1, <4>4, SessionSized, FS_EmptySet DEF UInv, Collected
      <4>5. QED
        BY <2>2, <4>2, <4>3, <4>4, ProgressCounts
    <3>2. State = "Collecting" => Collected \in 1 .. stream.sequence_count - 1
      <4>1. ASSUME State = "Collecting" PROVE phase = "Collecting"
        <5>1. terminal = None /\ stream # NoStream
          BY <4>1, ProgressReads DEF UInv, LayerHolds
        <5>2. QED
          BY <5>1, ProgressReads DEF UInv, SessionHolds
      <4>2. QED
        BY <4>1 DEF UInv, SessionHolds
    <3>3. State = "Complete" =>
            Collected = stream.sequence_count /\ stream.sequence_count >= 1
      <4>1. ASSUME State = "Complete" PROVE terminal.kind = "Complete"
        BY <4>1, ProgressReads
      <4>2. ASSUME State = "Complete" PROVE phase = "Complete"
        <5>1. phase \in {"Empty", "Complete"} /\ stream # NoStream
          BY <2>2, <4>1, <4>2, ProgressReads DEF UInv, TerminalsAgree
        <5>2. QED
          BY <5>1 DEF UInv, SessionHolds
      <4>3. QED
        BY <4>2, SessionSized DEF UInv, SessionHolds
    <3>4. QED
      BY <2>2, <3>1, <3>2, <3>3, ProgressCounts DEF ProgressTracksState
  <2>3. QED
    BY <2>1, <2>2
<1>2. QED
  BY <1>1, SessionInvariance, PTL

\* A frame of a foreign type is refused with that reason and leaves the session
\* as it is, before its size or body is looked at.
THEOREM ForeignIsRefused == Spec => ForeignNeverFails
<1>1. ASSUME NEW f \in Frames, f.head = "ok", Foreign(f), Receive(f)
      PROVE  result' = "UnexpectedType" /\ UNCHANGED session
  BY <1>1
     DEF Receive, RejectHead, RejectType, RejectText, FailText, RejectBody, RejectSingle,
         FailSingle, CompleteSingle, ReceiveMulti, Parsed, Admitted, Reject
<1>2. [Next]_vars =>
        [\A f \in Frames : f.head = "ok" /\ Foreign(f) /\ Receive(f)
            => result' = "UnexpectedType" /\ UNCHANGED session]_vars
  BY <1>1
<1>3. QED
  BY <1>2, PTL DEF Spec, ForeignNeverFails
=============================================================================
