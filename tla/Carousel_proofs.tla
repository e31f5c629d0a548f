---------------------------- MODULE Carousel_proofs ---------------------------
(***************************************************************************)
(* What a transfer ends in, for every message, every choice of options,    *)
(* counts and limits, and whatever the reader sees of the lines and in     *)
(* whatever order.                                                         *)
(*                                                                         *)
(* The encoder is the one Encoding_proofs is about, so that all its parts  *)
(* are parts of one stream and XORs of one message.  The reader is that of *)
(* UrDecoder_proofs, given all parts that a chooser allows.  The invariant *)
(* says that the lines are lines of the message, and that what the session *)
(* holds comes from them.                                                  *)
(***************************************************************************)
EXTENDS Carousel, FiniteSetTheorems, TLAPS

\* The search for a fragment length, which the same module is about, has no
\* part in a transfer: it is given no payload, and its variables stand still.
E == INSTANCE Encoding_proofs WITH
       stream <- sent,
       DataLengths <- {}, MaxCharsGiven <- {}, Sequences <- {},
       TypeLen <- 0, Checksum <- 0,
       data_len <- 0, max_chars <- 0, lo <- 0, hi <- 0, best <- 0,
       pc <- "search", printed <- 0

\* All that Part::new and the chooser let through.
WellFormed ==
  {p \in PartFields :
     /\ PartNew(p) /\ p.data \subseteq 0 .. p.data_len - 1
     /\ p.sequence > p.sequence_count =>
          /\ Mixed(p.sequence, p.sequence_count, p.checksum)
               \subseteq 0 .. p.sequence_count - 1
          /\ Mixed(p.sequence, p.sequence_count, p.checksum) # {}}

R == INSTANCE UrDecoder_proofs WITH
       result <- received, Frames <- {}, Parts <- WellFormed,
       Sources <- {m \in Messages : m.length # 0}

-----------------------------------------------------------------------------
(* The encoder and the decoder, and those of the proofs *)

\* What the proofs about the encoder assume.
LEMMA EncoderAssumptions ==
  /\ E!PartsAssumption /\ E!MixedAssumption /\ E!LimitsAssumption
  /\ E!SourcesAssumption /\ E!EncoderAssumption /\ E!ShuffleAssumption
  /\ E!FitAssumption
<1>1. E!PartsAssumption
  BY PartsAssumption DEF E!PartsAssumption, E!PartFields, PartFields, E!PartNew, PartNew
<1>2. E!MixedAssumption
  BY MixedAssumption DEF E!MixedAssumption
<1>3. E!LimitsAssumption
  BY LimitsAssumption DEF E!LimitsAssumption
<1>4. E!SourcesAssumption
  BY SourcesAssumption DEF E!SourcesAssumption
<1>5. E!EncoderAssumption
  BY TransferAssumption DEF E!EncoderAssumption, E!ConstantsTyped,
     Sender!Fountain!ConstantsTyped
<1>6. \A m, o : E!NewError(m, o) = Sender!Fountain!NewError(m, o)
  BY DEF E!NewError, Sender!Fountain!NewError
<1>7. \A m, o : E!EncoderStream(m, o) = Sender!Fountain!EncoderStream(m, o)
  BY DEF E!EncoderStream, Sender!Fountain!EncoderStream,
     E!FragmentLength, Sender!Fountain!FragmentLength,
     E!DivCeil, Sender!Fountain!DivCeil, E!Pad, Sender!Fountain!Pad
<1>8. \A s : E!Columns(s) = Sender!Fountain!Columns(s)
  BY DEF E!Columns, Sender!Fountain!Columns
<1>9. E!ShuffleAssumption
  BY <1>6, <1>7, <1>8, TransferAssumption DEF E!ShuffleAssumption, E!ShufflePicks,
     Sender!Fountain!ShufflePicks
<1>10. E!FitAssumption
  BY DEF E!FitAssumption
<1>11. QED
  BY <1>1, <1>2, <1>3, <1>4, <1>5, <1>9, <1>10

\* What the proofs about the decoder assume.
LEMMA ReaderAssumptions ==
  /\ R!PartsAssumption /\ R!MixedAssumption /\ R!LimitsAssumption
  /\ R!SourcesAssumption /\ R!CountsAssumption /\ R!FramesAssumption
<1>1. R!PartsAssumption
  BY DEF R!PartsAssumption, R!PartFields, PartFields, R!PartNew, PartNew, WellFormed
<1>2. R!MixedAssumption
  BY DEF R!MixedAssumption, WellFormed
<1>3. R!LimitsAssumption
  BY LimitsAssumption DEF R!LimitsAssumption
<1>4. R!SourcesAssumption
  BY TransferAssumption DEF R!SourcesAssumption, Sender!Fountain!ConstantsTyped
<1>5. R!CountsAssumption
  BY TransferAssumption DEF R!CountsAssumption
<1>6. R!FramesAssumption
  BY DEF R!FramesAssumption
<1>7. QED
  BY <1>1, <1>2, <1>3, <1>4, <1>5, <1>6

\* A part for the fountain decoder.
LEMMA SameSession ==
  ASSUME NEW q
  PROVE  Reader!Fountain!Receive(q) => R!Fountain!Receive(q)
<1>1. /\ \A S : R!Fountain!Cardinality(S) = Reader!Fountain!Cardinality(S)
      /\ \A p : R!Fountain!StreamOf(p) = Reader!Fountain!StreamOf(p)
      /\ \A p : R!Fountain!Indexes(p) = Reader!Fountain!Indexes(p)
      /\ \A p : R!Fountain!LimitError(p) = Reader!Fountain!LimitError(p)
      /\ \A s, b : R!Fountain!Verify(s, b) = Reader!Fountain!Verify(s, b)
      /\ \A n : R!Fountain!Saturate(n) = Reader!Fountain!Saturate(n)
      /\ R!Fountain!NoStream = Reader!Fountain!NoStream
      /\ \A s : R!Fountain!Columns(s) = Reader!Fountain!Columns(s)
  BY DEF R!Fountain!Cardinality, Reader!Fountain!Cardinality,
         R!Fountain!StreamOf, Reader!Fountain!StreamOf,
         R!Fountain!Indexes, Reader!Fountain!Indexes, R!Fountain!Choose, Reader!Fountain!Choose,
         R!Fountain!LimitError, Reader!Fountain!LimitError,
         R!Fountain!Verify, Reader!Fountain!Verify,
         R!Fountain!Saturate, Reader!Fountain!Saturate,
         R!Fountain!NoStream, Reader!Fountain!NoStream,
         R!Fountain!Columns, Reader!Fountain!Columns
<1>2. \A S : R!Fountain!Odd(S) <=> Reader!Fountain!Odd(S)
  BY <1>1 DEF R!Fountain!Odd, Reader!Fountain!Odd
<1>3. /\ \A f, S : R!Fountain!Combine(f, S) = Reader!Fountain!Combine(f, S)
      /\ \A e : R!Fountain!XorOfIndexes(e) = Reader!Fountain!XorOfIndexes(e)
      /\ \A s, f : R!Fountain!Concat(s, f) = Reader!Fountain!Concat(s, f)
  BY <1>1, <1>2 DEF R!Fountain!Combine, Reader!Fountain!Combine,
         R!Fountain!XorOfIndexes, Reader!Fountain!XorOfIndexes,
         R!Fountain!Concat, Reader!Fountain!Concat
<1>4. /\ \A s, e : R!Fountain!Solutions(s, e) = Reader!Fountain!Solutions(s, e)
      /\ \A e, m : R!Fountain!Spans(e, m) <=> Reader!Fountain!Spans(e, m)
  BY <1>1, <1>3 DEF R!Fountain!Solutions, Reader!Fountain!Solutions,
         R!Fountain!Spans, Reader!Fountain!Spans
<1>5. \A s, e : R!Fountain!Solve(s, e) = Reader!Fountain!Solve(s, e)
  BY <1>3, <1>4 DEF R!Fountain!Solve, Reader!Fountain!Solve
<1>6. R!Fountain!Terminal <=> Reader!Fountain!Terminal
  BY DEF R!Fountain!Terminal, Reader!Fountain!Terminal
<1>7. R!Fountain!Admitted(q) <=> Reader!Fountain!Admitted(q)
  BY <1>1, <1>6 DEF R!Fountain!Admitted, Reader!Fountain!Admitted
<1>8. Reader!Fountain!ReceiveTerminal => R!Fountain!ReceiveTerminal
  BY <1>1, <1>6 DEF R!Fountain!ReceiveTerminal, Reader!Fountain!ReceiveTerminal
<1>9. Reader!Fountain!RejectInconsistent(q) => R!Fountain!RejectInconsistent(q)
  BY <1>1, <1>6 DEF R!Fountain!RejectInconsistent, Reader!Fountain!RejectInconsistent,
     R!Fountain!session, Reader!Fountain!session
<1>10. Reader!Fountain!FailLimit(q) => R!Fountain!FailLimit(q)
  BY <1>1, <1>6 DEF R!Fountain!FailLimit, Reader!Fountain!FailLimit
<1>11. Reader!Fountain!ReceiveKnown(q) => R!Fountain!ReceiveKnown(q)
  BY <1>1, <1>4, <1>7 DEF R!Fountain!ReceiveKnown, Reader!Fountain!ReceiveKnown
<1>12. Reader!Fountain!ReceiveNew(q) => R!Fountain!ReceiveNew(q)
  BY <1>1, <1>4, <1>5, <1>7 DEF R!Fountain!ReceiveNew, Reader!Fountain!ReceiveNew
<1>13. QED
  BY <1>8, <1>9, <1>10, <1>11, <1>12 DEF R!Fountain!Receive, Reader!Fountain!Receive

\* The calls the reader makes.
LEMMA SameCalls ==
  /\ Reader!Init => R!Init
  /\ Reader!None = R!None /\ Reader!NoType = R!NoType /\ Reader!Fatal = R!Fatal
  /\ \A f : Reader!Receive(f) => R!Receive(f)
<1>1. /\ Reader!None = R!None /\ Reader!NoType = R!NoType /\ Reader!Fatal = R!Fatal
      /\ \A t, n, b : Reader!Complete(t, n, b) = R!Complete(t, n, b)
      /\ \A e : Reader!Failed(e) = R!Failed(e)
      /\ \A f : Reader!BodyError(f) = R!BodyError(f)
      /\ Reader!Received = R!Received
  BY DEF Reader!None, R!None, Reader!NoType, R!NoType, Reader!Fatal, R!Fatal,
         Reader!Complete, R!Complete, Reader!Failed, R!Failed,
         Reader!BodyError, R!BodyError, Reader!Received, R!Received
<1>2. Reader!Init => R!Init
  BY <1>1 DEF Reader!Init, R!Init, Reader!Fountain!Init, R!Fountain!Init,
     Reader!Fountain!NoStream, R!Fountain!NoStream
<1>3. ASSUME NEW f, Reader!Receive(f)
      PROVE  R!Receive(f)
  <2> USE <1>1 DEF Reader!session, R!session, Reader!fountain, R!fountain,
        Reader!Admitted, R!Admitted, Reader!Foreign, R!Foreign,
        Reader!Reject, R!Reject, Reader!Fatalize, R!Fatalize,
        Reader!Parsed, R!Parsed, Reader!Lock, R!Lock, Reader!Count, R!Count,
        Reader!Fountain!Saturate, R!Fountain!Saturate, Reader!Finish, R!Finish,
        Reader!Witness, R!Witness
  <2>1. Reader!RejectHead(f) => R!RejectHead(f)
    BY DEF Reader!RejectHead, R!RejectHead
  <2>2. Reader!RejectType(f) => R!RejectType(f)
    BY DEF Reader!RejectType, R!RejectType
  <2>3. Reader!RejectText(f) => R!RejectText(f)
    BY DEF Reader!RejectText, R!RejectText
  <2>4. Reader!FailText(f) => R!FailText(f)
    BY DEF Reader!FailText, R!FailText
  <2>5. Reader!RejectBody(f) => R!RejectBody(f)
    BY DEF Reader!RejectBody, R!RejectBody
  <2>6. Reader!RejectSingle(f) => R!RejectSingle(f)
    BY DEF Reader!RejectSingle, R!RejectSingle
  <2>7. Reader!FailSingle(f) => R!FailSingle(f)
    BY DEF Reader!FailSingle, R!FailSingle
  <2>8. Reader!CompleteSingle(f) => R!CompleteSingle(f)
    BY DEF Reader!CompleteSingle, R!CompleteSingle
  <2>9. Reader!ReceiveMulti(f) => R!ReceiveMulti(f)
    BY SameSession DEF Reader!ReceiveMulti, R!ReceiveMulti
  <2>10. QED
    BY <1>3, <2>1, <2>2, <2>3, <2>4, <2>5, <2>6, <2>7, <2>8, <2>9
       DEF Reader!Receive, R!Receive
<1>4. QED
  BY <1>1, <1>2, <1>3

\* The encoder's calls, and what its parts state.
LEMMA SameEncoder ==
  /\ Sender!Fountain!Init => E!Init
  /\ \A m, o : Sender!Fountain!New(m, o) => E!New(m, o)
  /\ Sender!Fountain!NextPart => E!NextPart
  /\ Sender!NoStream = NoStream /\ Sender!Fountain!NoStream = NoStream
  /\ E!NoStream = NoStream
<1>1. \A m, o : E!NewError(m, o) = Sender!Fountain!NewError(m, o)
  BY DEF E!NewError, Sender!Fountain!NewError
<1>2. \A m, o : E!EncoderStream(m, o) = Sender!Fountain!EncoderStream(m, o)
  BY DEF E!EncoderStream, Sender!Fountain!EncoderStream,
     E!FragmentLength, Sender!Fountain!FragmentLength,
     E!DivCeil, Sender!Fountain!DivCeil, E!Pad, Sender!Fountain!Pad
<1>3. /\ E!NoStream = NoStream /\ Sender!NoStream = NoStream
      /\ Sender!Fountain!NoStream = NoStream
  BY DEF E!NoStream, NoStream, Sender!NoStream, Sender!Fountain!NoStream
<1>4. \A s, n, k, c : /\ E!Columns(s) = Sender!Fountain!Columns(s)
                      /\ E!Choose(n, k, c) = Sender!Fountain!Choose(n, k, c)
  BY DEF E!Columns, Sender!Fountain!Columns, E!Choose, Sender!Fountain!Choose
<1>5. \A S : E!Odd(S) <=> Sender!Fountain!Odd(S)
  BY DEF E!Odd, Sender!Fountain!Odd, E!Cardinality, Sender!Fountain!Cardinality
<1>6. /\ \A f, S : E!Combine(f, S) = Sender!Fountain!Combine(f, S)
      /\ \A m, s : E!Fragments(m, s) = Sender!Fountain!Fragments(m, s)
  BY <1>4, <1>5 DEF E!Combine, Sender!Fountain!Combine, E!Fragments,
     Sender!Fountain!Fragments
<1>7. \A m, s, n : E!PartAt(m, s, n) = Sender!Fountain!PartAt(m, s, n)
  BY <1>4, <1>6 DEF E!PartAt, Sender!Fountain!PartAt, E!Mix, Sender!Fountain!Mix
<1>8. Sender!Fountain!Init => E!Init
  BY <1>3 DEF Sender!Fountain!Init, E!Init, Sender!Fountain!NoOptions, E!NoOptions,
     Sender!Fountain!NoMessage, E!NoMessage, Sender!Fountain!NoOutput, E!NoOutput
<1>9. \A m, o : Sender!Fountain!New(m, o) => E!New(m, o)
  BY <1>1, <1>2, <1>3 DEF Sender!Fountain!New, E!New
<1>10. Sender!Fountain!NextPart => E!NextPart
  BY <1>3, <1>4, <1>7 DEF Sender!Fountain!NextPart, E!NextPart
<1>11. QED
  BY <1>3, <1>8, <1>9, <1>10

\* The encoder, the decoder and the transfer read the data alike.
LEMMA SameData ==
  /\ R!NoStream = NoStream
  /\ \A p : /\ R!StreamOf(p) = StreamOf(p) /\ E!StreamOf(p) = StreamOf(p)
            /\ R!LimitError(p) = LimitError(p)
  /\ \A p, m : E!Honest(p, m) <=> R!Honest(p, m)
  /\ \A s, b : R!Verify(s, b) = Verify(s, b)
  /\ \A t, n, b : Reader!Complete(t, n, b) = R!Complete(t, n, b)
<1>1. R!NoStream = NoStream
  BY DEF R!NoStream, NoStream
<1>2. \A p : R!StreamOf(p) = StreamOf(p) /\ E!StreamOf(p) = StreamOf(p)
  BY DEF R!StreamOf, StreamOf, E!StreamOf
<1>3. \A p : R!LimitError(p) = LimitError(p)
  BY DEF R!LimitError, LimitError
<1>4. \A p : R!Indexes(p) = E!Indexes(p)
  BY DEF R!Indexes, E!Indexes, R!Choose, E!Choose
<1>5. \A S : R!Odd(S) <=> E!Odd(S)
  BY DEF R!Odd, E!Odd, R!Cardinality, E!Cardinality
<1>6. \A s : R!Columns(s) = E!Columns(s)
  BY DEF R!Columns, E!Columns
<1>7. /\ \A f, S : R!Combine(f, S) = E!Combine(f, S)
      /\ \A m, s : R!Fragments(m, s) = E!Fragments(m, s)
  BY <1>5, <1>6 DEF R!Combine, E!Combine, R!Fragments, E!Fragments
<1>8. \A p, m : E!Honest(p, m) <=> R!Honest(p, m)
  BY <1>2, <1>4, <1>7 DEF R!Honest, E!Honest
<1>9. \A s, b : R!Verify(s, b) = Verify(s, b)
  BY DEF R!Verify, Verify
<1>10. \A t, n, b : Reader!Complete(t, n, b) = R!Complete(t, n, b)
  BY DEF Reader!Complete, R!Complete
<1>11. QED
  BY <1>1, <1>2, <1>3, <1>8, <1>9, <1>10

-----------------------------------------------------------------------------
(* The inductive invariant *)

\* What a line can carry: the message, or its part of sequence number n.
SingleBody == [kind |-> "single", length |-> source.length, bytes |-> source.bytes]
MultiBody(n) ==
  [kind |-> "multi", sequence |-> n, count |-> sent.sequence_count,
   part |-> E!PartAt(source, sent, n)]

LinesSent ==
  IF single THEN {Sender!Line(Type, SingleBody)}
  ELSE {Sender!Line(Type, MultiBody(n)) : n \in 1 .. U32Max}

\* The printed lines are lines of the message.
SenderInv ==
  /\ E!Built
  /\ sent = NoStream => lines = <<>>
  /\ sent # NoStream => ur_type = Type /\ lines \in Seq(LinesSent)

\* All that the session holds was sent, and its caps and accept list let it in.
Held ==
  /\ stream = sent /\ ~single
  /\ \A q \in equations : R!Honest(q, source)

ReaderInv ==
  /\ R!UInv
  /\ locked # R!NoType => locked = Type /\ Acceptable /\ WithinCaps
  /\ stream # NoStream => Held
  /\ sent = NoStream => locked = R!NoType /\ terminal = R!None /\ received = "none"
  /\ terminal.kind = "Failed" => ~WithinCaps
  /\ TransferIsExact

CInv == SenderInv /\ ReaderInv

-----------------------------------------------------------------------------
(* The sender *)

\* What a parser makes of a printed line.
LEMMA LineFacts ==
  ASSUME SenderInv, sent # NoStream, NEW f \in LinesSent
  PROVE  /\ source \in Messages /\ source.length \in Nat \ {0}
         /\ source.bytes \subseteq 0 .. source.length - 1
         /\ sent.message_length = source.length
         /\ sent.checksum = Crc32(source.length, source.bytes)
         /\ f.head = "ok" /\ f.text = "ok" /\ f.ur_type = Type
         /\ R!FrameValid(f) /\ R!BodyError(f) = "none"
         /\ single => f.body = SingleBody
         /\ ~single => /\ f.body.kind = "multi" /\ f.body.part \in WellFormed
                       /\ StreamOf(f.body.part) = sent /\ sent # NoStream
                       /\ R!Honest(f.body.part, source)
<1>1. /\ source \in Messages /\ options \in Options
      /\ E!NewError(source, options) = "none"
      /\ sent = E!EncoderStream(source, options)
  BY SameEncoder DEF SenderInv, E!Built
<1>2. /\ source.length \in Nat \ {0} /\ sent.message_length = source.length
  BY <1>1, EncoderAssumptions, E!StreamFits
<1>3. source.bytes \subseteq 0 .. source.length - 1
  BY <1>1, EncoderAssumptions DEF E!EncoderAssumption, E!ConstantsTyped
<1>4. sent.checksum = Crc32(source.length, source.bytes)
  BY <1>1 DEF E!EncoderStream
<1>5. /\ f.head = "ok" /\ f.text = "ok" /\ f.ur_type = Type /\ Type # R!NoType
      /\ single => f.body = SingleBody
      /\ ~single => \E n \in 1 .. U32Max : f.body = MultiBody(n)
  <2>1. Type # R!NoType
    BY TransferAssumption, SameCalls
  <2>2. QED
    BY <2>1 DEF LinesSent, Sender!Line
<1>6. CASE single
  <2>1. f.body.kind = "single"
    BY <1>5, <1>6 DEF SingleBody
  <2>2. QED
    BY <1>1, <1>2, <1>3, <1>4, <1>5, <1>6, <2>1 DEF R!FrameValid, R!BodyError, R!Received
<1>7. CASE ~single
  <2>1. PICK n \in 1 .. U32Max : f.body = MultiBody(n)
    BY <1>5, <1>7
  <2> DEFINE p == E!PartAt(source, sent, n)
  <2>2. /\ p \in E!PartFields /\ E!PartNew(p) /\ p.data \subseteq 0 .. p.data_len - 1
        /\ p.sequence = n /\ E!StreamOf(p) = sent /\ E!Honest(p, source)
        /\ n > sent.sequence_count =>
             /\ Mixed(n, sent.sequence_count, sent.checksum)
                  \subseteq 0 .. sent.sequence_count - 1
             /\ Mixed(n, sent.sequence_count, sent.checksum) # {}
    BY <1>1, EncoderAssumptions, E!EmittedIsPart
  <2>3. p.sequence_count = sent.sequence_count /\ p.checksum = sent.checksum
    BY DEF E!PartAt
  <2>4. f.body.kind = "multi" /\ f.body.part = p
        /\ f.body.sequence = n /\ f.body.count = sent.sequence_count
    BY <2>1 DEF MultiBody
  <2> HIDE DEF p
  <2>5. p \in WellFormed
    BY <2>2, <2>3 DEF WellFormed, E!PartFields, PartFields, E!PartNew, PartNew
  <2>6. StreamOf(p) = sent /\ R!Honest(p, source)
    BY <2>2, SameData
  <2>7. R!FrameValid(f) /\ R!BodyError(f) = "none"
    BY <1>5, <2>2, <2>3, <2>4, <2>5 DEF R!FrameValid, R!BodyError, R!Received
  <2>8. QED
    BY <1>1, <1>2, <1>3, <1>4, <1>5, <1>7, <2>4, <2>5, <2>6, <2>7
<1>8. QED
  BY <1>6, <1>7

\* Before the encoder is built nothing is printed.
LEMMA InitSender == Init => SenderInv
<1> SUFFICES ASSUME Init PROVE SenderInv
  OBVIOUS
<1>1. E!Built
  BY SameEncoder, EncoderAssumptions, E!InitBuilt DEF Init, Sender!Init
<1>2. sent = NoStream /\ lines = <<>>
  BY SameEncoder DEF Init, Sender!Init, Sender!Fountain!Init
<1>3. QED
  BY <1>1, <1>2 DEF SenderInv

\* A new encoder has printed nothing yet.
LEMMA StartSender ==
  ASSUME SenderInv, NEW m \in Messages, NEW o \in Options, Start(m, o)
  PROVE  SenderInv' /\ sent = NoStream /\ sent' # NoStream
<1>1. /\ sent = NoStream /\ E!New(m, o) /\ ur_type' = Type /\ lines' = lines
  BY SameEncoder DEF Start, Sender!New, Sender!Fountain!New
<1>2. E!Built'
  BY <1>1, EncoderAssumptions, E!NextBuilt DEF SenderInv, E!Next
<1>3. sent' # NoStream
  BY <1>1, SameEncoder, EncoderAssumptions, E!StreamIsBuilt DEF E!New
<1>4. lines' = <<>>
  BY <1>1 DEF SenderInv
<1>5. QED
  BY <1>1, <1>2, <1>3, <1>4 DEF SenderInv

\* Every line printed is a line of the message.
LEMMA PrintSender ==
  ASSUME SenderInv, PrintLine
  PROVE  SenderInv' /\ UNCHANGED <<source, sent, single>> /\ sent # NoStream
<1>1. /\ sent # NoStream /\ ur_type = Type /\ lines \in Seq(LinesSent)
      /\ lines' = Append(lines, line') /\ Sender!NextLine
  BY DEF PrintLine, SenderInv
<1>2. CASE Sender!NextSingle
  <2>1. /\ UNCHANGED <<E!vars, source, sent, single, ur_type>> /\ single
        /\ line' = Sender!Line(Type, SingleBody)
    BY <1>1, <1>2 DEF Sender!NextSingle, Sender!fountain, E!vars, SingleBody
  <2>2. E!Built'
    BY <2>1, EncoderAssumptions, E!NextBuilt DEF SenderInv
  <2>3. LinesSent' = LinesSent
    BY <2>1 DEF LinesSent, SingleBody, MultiBody
  <2>4. line' \in LinesSent
    BY <2>1 DEF LinesSent
  <2>5. QED
    BY <1>1, <2>1, <2>2, <2>3, <2>4 DEF SenderInv
<1>3. CASE Sender!NextMulti
  <2>1. /\ E!NextPart /\ UNCHANGED <<single, ur_type>> /\ ~single
        /\ line' = Sender!Line(Type,
             [kind |-> "multi", sequence |-> output'.sequence,
              count |-> output'.sequence_count, part |-> output'])
    BY <1>1, <1>3, SameEncoder DEF Sender!NextMulti
  <2>2. /\ UNCHANGED <<source, sent>> /\ output' = E!PartAt(source, sent, sequence')
        /\ sequence' = sequence + 1 /\ sequence # U32Max
    BY <2>1 DEF E!NextPart
  <2>3. sequence' \in 1 .. U32Max
    BY <2>2, EncoderAssumptions DEF SenderInv, E!Built, E!EncoderAssumption, E!ConstantsTyped
  <2>4. E!Built'
    BY <2>1, EncoderAssumptions, E!NextBuilt DEF SenderInv, E!Next
  <2>5. output'.sequence = sequence' /\ output'.sequence_count = sent.sequence_count
    BY <2>2 DEF E!PartAt
  <2>6. line' = Sender!Line(Type, MultiBody(sequence'))
    BY <2>1, <2>2, <2>5 DEF MultiBody
  <2>7. line' \in LinesSent
    BY <2>1, <2>3, <2>6 DEF LinesSent
  <2>8. LinesSent' = LinesSent
    BY <2>1, <2>2 DEF LinesSent, SingleBody, MultiBody
  <2>9. QED
    BY <1>1, <2>1, <2>2, <2>4, <2>7, <2>8 DEF SenderInv
<1>4. QED
  BY <1>1, <1>2, <1>3 DEF Sender!NextLine

-----------------------------------------------------------------------------
(* The reader *)

\* What the caps say of a part of the stream that is sent.
LEMMA CapsOfPart ==
  ASSUME NEW p \in WellFormed, StreamOf(p) = sent,
         sent.message_length = source.length, ~single
  PROVE  /\ LimitError(p) = "none" => WithinCaps
         /\ LimitError(p) # "none" => ~WithinCaps
<1>1. /\ p.sequence_count = sent.sequence_count /\ p.message_length = source.length
      /\ p.data_len = sent.fragment_len
  BY DEF StreamOf
<1>2. WithinCaps <=> /\ p.message_length <= MaxMessageLength
                     /\ p.sequence_count <= MaxFragmentCount
                     /\ p.data_len <= MaxFragmentLength
  BY <1>1 DEF WithinCaps
<1>3. /\ p.message_length \in Nat /\ p.sequence_count \in Nat /\ p.data_len \in Nat
  BY DEF WellFormed, PartFields
<1>4. QED
  BY <1>2, <1>3, LimitsAssumption DEF LimitError

\* A part starts a session only when no cap is exceeded.
LEMMA AdmittedFits ==
  ASSUME NEW p \in WellFormed, R!Fountain!Receive(p), stream = NoStream,
         phase \in {"Empty", "Collecting"}, out' \in {"Accepted", "Duplicate"}
  PROVE  LimitError(p) = "none"
<1>1. /\ R!Fountain!NoStream = NoStream
      /\ R!Fountain!StreamOf(p) = StreamOf(p)
      /\ R!Fountain!LimitError(p) = LimitError(p)
  BY DEF R!Fountain!NoStream, NoStream, R!Fountain!StreamOf, StreamOf,
         R!Fountain!LimitError, LimitError
<1>2. StreamOf(p) # NoStream
  BY DEF WellFormed, PartNew, StreamOf, NoStream
<1>3. LimitError(p) \in {"none", "FragmentCount", "MessageLength", "FragmentLength"}
  BY DEF LimitError
<1>4. CASE R!Fountain!ReceiveTerminal
  BY <1>4 DEF R!Fountain!ReceiveTerminal, R!Fountain!Terminal
<1>5. CASE R!Fountain!RejectInconsistent(p)
  BY <1>1, <1>5 DEF R!Fountain!RejectInconsistent
<1>6. CASE R!Fountain!FailLimit(p)
  BY <1>1, <1>3, <1>6 DEF R!Fountain!FailLimit
<1>7. CASE R!Fountain!ReceiveKnown(p) \/ R!Fountain!ReceiveNew(p)
  BY <1>1, <1>2, <1>7
     DEF R!Fountain!ReceiveKnown, R!Fountain!ReceiveNew, R!Fountain!Admitted
<1>8. QED
  BY <1>4, <1>5, <1>6, <1>7 DEF R!Fountain!Receive

\* K independent parts of the message join into it, and it passes both checks.
LEMMA JoinsToSource ==
  ASSUME NEW src \in Messages, src.length \in Nat \ {0},
         src.bytes \subseteq 0 .. src.length - 1,
         NEW s \in R!Streams, s.message_length = src.length,
         s.checksum = Crc32(src.length, src.bytes),
         NEW eqs \in SUBSET WellFormed, R!IsFiniteSet(eqs),
         \A q \in eqs : R!StreamOf(q) = s /\ R!Honest(q, src),
         R!Independent(s, eqs), R!Cardinality(eqs) = s.sequence_count
  PROVE  R!Solve(s, eqs) = src.bytes /\ R!Verify(s, R!Solve(s, eqs)) = "none"
<1>1. R!Solve(s, eqs) = src.bytes
  BY ReaderAssumptions, R!SolvesToSource
<1>2. QED
  BY <1>1, SameData DEF Verify

\* A part of the message, for a session that holds only such parts.
LEMMA CaptureMulti ==
  ASSUME SenderInv, ReaderInv, sent # NoStream, NEW f \in LinesSent,
         terminal = R!None, R!ReceiveMulti(f), R!Witness({f.ur_type}),
         UNCHANGED <<source, sent, single, accept>>
  PROVE  ReaderInv'
<1> DEFINE p == f.body.part
<1>1. /\ f.ur_type = Type /\ R!FrameValid(f) /\ R!BodyError(f) = "none"
      /\ source \in Messages /\ source.length \in Nat \ {0}
      /\ source.bytes \subseteq 0 .. source.length - 1
      /\ sent.message_length = source.length
      /\ sent.checksum = Crc32(source.length, source.bytes)
      /\ single => f.body = SingleBody
      /\ ~single => p \in WellFormed /\ StreamOf(p) = sent /\ R!Honest(p, source)
  BY LineFacts
<1>2. /\ ~single /\ R!Admitted(f) /\ R!Fountain!Receive(p)
  BY <1>1 DEF R!ReceiveMulti, R!Parsed, SingleBody
<1>3. p \in WellFormed /\ StreamOf(p) = sent /\ R!Honest(p, source)
  BY <1>1, <1>2
<1>4. R!UInv'
  BY <1>1, ReaderAssumptions, R!ReceiveMultiUInv DEF ReaderInv
<1>5. phase \in {"Empty", "Collecting"}
  BY DEF ReaderInv, R!UInv, R!SessionHolds, R!TerminalsAgree, R!None, R!Complete, R!Failed
<1>6. R!SessionHolds' /\ R!Ingested(p)
  BY <1>2, <1>3, <1>5, ReaderAssumptions, R!SessionReceives DEF ReaderInv, R!UInv
<1>7. Acceptable
  BY <1>1, <1>2 DEF R!Admitted, R!Foreign, Acceptable
<1>8. (WithinCaps <=> WithinCaps') /\ (Acceptable <=> Acceptable')
  BY DEF WithinCaps, Acceptable
<1>9. /\ LimitError(p) = "none" => WithinCaps
      /\ LimitError(p) # "none" => ~WithinCaps
  BY <1>1, <1>2, <1>3, CapsOfPart
<1>10. \A q : R!Honest(q, source) => R!Honest(q, source)'
  BY DEF R!Honest
<1>11. stream # NoStream => stream = sent /\ \A q \in equations : R!Honest(q, source)
  BY DEF ReaderInv, Held
<1>12. \A q \in equations : R!Honest(q, source)
  <2>1. stream = NoStream => equations = {}
    BY ReaderAssumptions, R!SessionSized, SameData DEF ReaderInv, R!UInv
  <2>2. QED
    BY <1>11, <2>1
<1> HIDE DEF p
<1>13. CASE out' = "InconsistentPart"
  <2>1. stream # NoStream /\ StreamOf(p) # stream
    BY <1>6, <1>13, SameData DEF R!Ingested, R!ReceiveMulti
  <2>2. QED
    BY <1>3, <2>1 DEF ReaderInv, Held
<1>14. CASE out' \in R!Fatal
  <2>1. /\ phase' = "Failed" /\ out' = error' /\ terminal' = R!Failed(error')
        /\ received' = error' /\ UNCHANGED locked
    BY <1>6, <1>14 DEF R!Ingested, R!ReceiveMulti, R!Fatal, R!Fatalize
  <2>2. CASE error' = LimitError(p) /\ phase = "Empty"
             /\ error' \in {"FragmentCount", "MessageLength", "FragmentLength"}
             /\ UNCHANGED <<stream, equations>>
    <3>1. ~WithinCaps
      BY <1>9, <2>2
    <3>2. TransferIsExact'
      BY <1>8, <2>1, <3>1 DEF TransferIsExact, R!Failed
    <3>3. (stream # NoStream => Held)'
      BY <1>10, <2>2 DEF ReaderInv, Held
    <3>4. QED
      BY <1>4, <1>8, <2>1, <3>1, <3>2, <3>3 DEF ReaderInv
  <2>3. CASE /\ stream' = StreamOf(p) /\ equations' = equations \cup {p}
             /\ error' \in {"InvalidPadding", "InvalidMessageChecksum"}
    <3>1. stream' # NoStream
      BY <1>3, <2>3
    <3>2. /\ stream' = sent /\ stream' # NoStream
          /\ \A q \in equations' : R!Honest(q, source)
      BY <1>3, <1>10, <1>12, <2>3
    <3>3. /\ R!Collected' = stream'.sequence_count
          /\ error' = R!Verify(stream', R!Solve(stream', equations'))
      BY <1>6, <2>1, <3>2, SameData DEF R!SessionHolds
    <3>4. R!Verify(stream', R!Solve(stream', equations')) = "none"
      <4>1. /\ stream' \in R!Streams /\ equations' \in SUBSET WellFormed
            /\ R!IsFiniteSet(equations') /\ R!Independent(stream', equations')
            /\ \A q \in equations' : R!StreamOf(q) = stream'
            /\ R!Cardinality(equations') = stream'.sequence_count
        BY <1>6, <3>2, <3>3, SameData DEF R!SessionHolds, R!Collected
      <4>2. QED
        BY <1>1, <3>2, <4>1, JoinsToSource
    <3>5. QED
      BY <2>3, <3>3, <3>4
  <2>4. /\ R!StreamOf(p) = StreamOf(p) /\ R!LimitError(p) = LimitError(p)
        /\ phase' \notin {"Collecting", "Complete"} /\ out' # "InconsistentPart"
    BY <1>14, <2>1, SameData DEF R!Fatal
  <2>5. QED
    BY <1>6, <2>2, <2>3, <2>4 DEF R!Ingested
<1>15. CASE out' \in {"Accepted", "Duplicate"}
  <2>1. /\ phase' \in {"Collecting", "Complete"} /\ stream' = sent
        /\ equations' = equations \/ equations' = equations \cup {p}
        /\ received' = out' /\ R!Lock(Type) /\ R!Finish(f)
    BY <1>1, <1>3, <1>6, <1>15, SameData DEF R!Ingested, R!ReceiveMulti, R!Fatal
  <2>2. WithinCaps
    <3>1. CASE stream = NoStream
      BY <1>2, <1>3, <1>5, <1>9, <1>15, <3>1, AdmittedFits
    <3>2. CASE stream # NoStream
      <4>1. locked # R!NoType
        BY <1>5, <3>2, SameData
           DEF ReaderInv, R!UInv, R!SessionHolds, R!TerminalsAgree
      <4>2. QED
        BY <4>1 DEF ReaderInv
    <3>3. QED
      BY <3>1, <3>2
  <2>3. locked' = Type
    BY <1>1, <1>2, <2>1, ReaderAssumptions, R!TypeTaken
  <2>4. Held'
    BY <1>2, <1>3, <1>10, <1>12, <2>1 DEF Held
  <2>5. /\ terminal' = IF phase' = "Complete"
                        THEN R!Complete(Type, stream'.message_length, message')
                        ELSE R!None
    BY <1>1, <2>1 DEF R!Finish
  <2>6. phase' = "Complete" => message' = source.bytes
    <3>1. SUFFICES ASSUME phase' = "Complete" PROVE message' = source.bytes
      OBVIOUS
    <3>2. /\ R!Collected' = stream'.sequence_count
          /\ message' = R!Solve(stream', equations')
      BY <1>6, <3>1 DEF R!SessionHolds
    <3>3. /\ stream' \in R!Streams /\ equations' \in SUBSET WellFormed
          /\ R!IsFiniteSet(equations') /\ R!Independent(stream', equations')
          /\ \A q \in equations' : R!StreamOf(q) = stream'
          /\ R!Cardinality(equations') = stream'.sequence_count
      <4>1. stream' # NoStream
        BY <2>1
      <4>2. QED
        BY <1>6, <3>2, <4>1, SameData DEF R!SessionHolds, R!Collected
    <3>4. \A q \in equations' : R!Honest(q, source)
      BY <1>3, <1>12, <2>1
    <3>5. R!Solve(stream', equations') = source.bytes
      BY <1>1, <2>1, <3>3, <3>4, JoinsToSource
    <3>6. QED
      BY <3>2, <3>5
  <2>7. TransferIsExact'
    <3>1. received' \in {"Accepted", "Duplicate"}
      BY <1>15, <2>1
    <3>2. terminal'.kind = "Complete" => phase' = "Complete"
      BY <2>5 DEF R!None
    <3>3. phase' = "Complete"
            => terminal' = Reader!Complete(Type, source'.length, source'.bytes)
      BY <1>1, <2>1, <2>5, <2>6, SameData
    <3>4. QED
      BY <1>7, <1>8, <2>2, <3>1, <3>2, <3>3 DEF TransferIsExact
  <2>8. terminal'.kind # "Failed"
    BY <2>5 DEF R!None, R!Complete
  <2>9. QED
    BY <1>4, <1>7, <1>8, <2>2, <2>3, <2>4, <2>7, <2>8 DEF ReaderInv
<1>16. QED
  BY <1>13, <1>14, <1>15 DEF R!ReceiveMulti

\* A line of the message, for a session that has not ended.
LEMMA CaptureReader ==
  ASSUME SenderInv, ReaderInv, sent # NoStream, NEW f \in LinesSent,
         R!Receive(f), UNCHANGED <<source, sent, single>>
  PROVE  ReaderInv'
<1>1. /\ f.head = "ok" /\ f.text = "ok" /\ f.ur_type = Type
      /\ R!FrameValid(f) /\ R!BodyError(f) = "none"
      /\ single => f.body = SingleBody
      /\ ~single => f.body.kind = "multi"
  BY LineFacts
<1>2. R!UInv' /\ UNCHANGED accept /\ terminal = R!None
  BY <1>1, ReaderAssumptions, R!ReceiveUInv, R!AcceptListKept DEF ReaderInv, R!Receive
<1>3. (WithinCaps <=> WithinCaps') /\ (Acceptable <=> Acceptable')
  BY <1>2 DEF WithinCaps, Acceptable
<1>4. \A q : R!Honest(q, source) => R!Honest(q, source)'
  BY DEF R!Honest
<1>5. CASE R!RejectType(f)
  <2>1. ~Acceptable
    BY <1>1, <1>5 DEF R!RejectType, R!Foreign, Acceptable, ReaderInv
  <2>2. received' = "UnexpectedType" /\ UNCHANGED <<locked, terminal, stream, equations>>
    BY <1>5 DEF R!RejectType, R!Reject, R!session, R!fountain
  <2>3. TransferIsExact'
    BY <1>2, <1>3, <2>1, <2>2 DEF TransferIsExact, R!None
  <2>4. QED
    BY <1>2, <1>3, <1>4, <2>2, <2>3 DEF ReaderInv, Held
<1>6. CASE R!RejectSingle(f)
  <2>1. phase = "Collecting"
    BY <1>2, <1>6
       DEF R!RejectSingle, ReaderInv, R!UInv, R!SessionHolds, R!TerminalsAgree, R!None,
           R!Complete, R!Failed
  <2>2. stream # NoStream
    BY <2>1, SameData DEF ReaderInv, R!UInv, R!SessionHolds
  <2>3. QED
    BY <1>1, <1>6, <2>2 DEF R!RejectSingle, R!Parsed, ReaderInv, Held
<1>7. CASE R!FailSingle(f) \/ R!CompleteSingle(f)
  <2>1. /\ single /\ f.body = SingleBody /\ f.body.length = source.length
        /\ f.body.bytes = source.bytes /\ R!Admitted(f) /\ UNCHANGED <<stream, equations>>
    BY <1>1, <1>7
       DEF R!FailSingle, R!CompleteSingle, R!Parsed, R!fountain, SingleBody
  <2>2. (stream # NoStream => Held)'
    BY <1>4, <2>1 DEF ReaderInv, Held
  <2>3. CASE R!FailSingle(f)
    <3>1. /\ ~WithinCaps /\ terminal' = R!Failed("MessageLength")
          /\ received' = "MessageLength" /\ UNCHANGED locked
      <4>1. source.length > MaxMessageLength
        BY <2>1, <2>3 DEF R!FailSingle
      <4>2. source.length \in Nat
        BY LineFacts
      <4>3. ~WithinCaps
        BY <4>1, <4>2, LimitsAssumption DEF WithinCaps
      <4>4. QED
        BY <2>3, <4>3 DEF R!FailSingle, R!Fatalize
    <3>2. TransferIsExact'
      BY <1>3, <3>1 DEF TransferIsExact, R!Failed
    <3>3. QED
      BY <1>2, <1>3, <2>2, <3>1, <3>2 DEF ReaderInv
  <2>4. CASE R!CompleteSingle(f)
    <3>1. /\ WithinCaps /\ received' = "Accepted"
          /\ terminal' = R!Complete(Type, source.length, source.bytes)
          /\ R!Lock(Type)
      BY <1>1, <2>1, <2>4 DEF R!CompleteSingle, WithinCaps
    <3>2. Acceptable
      BY <1>1, <2>1 DEF R!Admitted, R!Foreign, Acceptable
    <3>3. locked' = Type
      BY <1>1, <2>1, <3>1, ReaderAssumptions, R!TypeTaken
    <3>4. TransferIsExact'
      BY <1>3, <3>1, <3>2, SameData DEF TransferIsExact
    <3>5. terminal'.kind # "Failed"
      BY <3>1 DEF R!Complete
    <3>6. QED
      BY <1>2, <1>3, <2>2, <3>1, <3>2, <3>3, <3>4, <3>5 DEF ReaderInv
  <2>5. QED
    BY <1>7, <2>3, <2>4
<1>8. CASE R!ReceiveMulti(f)
  BY <1>2, <1>8, CaptureMulti DEF R!Receive
<1>9. ~(R!RejectHead(f) \/ R!RejectText(f) \/ R!FailText(f) \/ R!RejectBody(f))
  BY <1>1 DEF R!RejectHead, R!RejectText, R!FailText, R!RejectBody
<1>10. QED
  BY <1>5, <1>6, <1>7, <1>8, <1>9 DEF R!Receive

\* A frame after the end.
LEMMA TerminalReader ==
  ASSUME ReaderInv, Reader!ReceiveTerminal, UNCHANGED <<source, sent, single>>
  PROVE  ReaderInv'
<1>1. R!ReceiveTerminal
  BY SameCalls
     DEF Reader!ReceiveTerminal, R!ReceiveTerminal, Reader!Fountain!Saturate,
         R!Fountain!Saturate, Reader!Witness, R!Witness, Reader!Received, R!Received,
         Reader!fountain, R!fountain
<1>2. R!UInv'
  BY <1>1, ReaderAssumptions, R!TerminalUInv DEF ReaderInv
<1>3. /\ UNCHANGED <<stream, equations, accept, locked, terminal>>
      /\ received' = "Duplicate" /\ terminal # R!None
  BY <1>1 DEF R!ReceiveTerminal, R!fountain
<1>4. (WithinCaps <=> WithinCaps') /\ (Acceptable <=> Acceptable')
  BY <1>3 DEF WithinCaps, Acceptable
<1>5. \A q : R!Honest(q, source) => R!Honest(q, source)'
  BY DEF R!Honest
<1>6. TransferIsExact'
  BY <1>3, <1>4 DEF ReaderInv, TransferIsExact
<1>7. QED
  BY <1>2, <1>3, <1>4, <1>5, <1>6 DEF ReaderInv, Held

\* Starting over forgets the session.
LEMMA RestartReader ==
  ASSUME ReaderInv, Reader!Reset PROVE ReaderInv'
<1>1. R!Reset
  BY SameCalls
     DEF Reader!Reset, R!Reset, Reader!Fountain!Reset, R!Fountain!Reset,
         Reader!Fountain!NoStream, R!Fountain!NoStream
<1>2. R!UInv'
  BY <1>1, ReaderAssumptions, R!ResetUInv DEF ReaderInv
<1>3. /\ stream' = NoStream /\ locked' = R!NoType /\ terminal' = R!None
      /\ received' = "none"
  BY <1>1 DEF R!Reset, R!Fountain!Reset, R!Fountain!NoStream, NoStream
<1>4. QED
  BY <1>2, <1>3 DEF ReaderInv, TransferIsExact, R!None

\* A step of the sender alone.
LEMMA SenderMoves ==
  ASSUME ReaderInv, UNCHANGED <<decoder, source, sent, single>> PROVE ReaderInv'
<1>1. /\ UNCHANGED <<R!session, R!history, accept, received>>
      /\ UNCHANGED <<stream, equations, locked, terminal>>
  BY DEF decoder, R!session, R!fountain, R!history
<1>2. R!UInv'
  BY <1>1, ReaderAssumptions, R!SameUInv DEF ReaderInv
<1>3. (WithinCaps <=> WithinCaps') /\ (Acceptable <=> Acceptable')
  BY <1>1 DEF WithinCaps, Acceptable
<1>4. \A q : R!Honest(q, source) => R!Honest(q, source)'
  BY DEF R!Honest
<1>5. TransferIsExact'
  BY <1>1, <1>3 DEF ReaderInv, TransferIsExact
<1>6. QED
  BY <1>1, <1>2, <1>3, <1>4, <1>5 DEF ReaderInv, Held

-----------------------------------------------------------------------------
(* Theorems *)

\* The initial states satisfy the invariant.
LEMMA InitCInv == Init => CInv
<1> SUFFICES ASSUME Init PROVE CInv
  OBVIOUS
<1>1. R!Init
  BY SameCalls DEF Init
<1>2. R!UInv
  BY <1>1, ReaderAssumptions, R!InitUInv
<1>3. /\ stream = NoStream /\ locked = R!NoType /\ terminal = R!None
      /\ received = "none"
  BY <1>1 DEF R!Init, R!Fountain!Init, R!Fountain!NoStream, NoStream
<1>4. QED
  BY <1>2, <1>3, InitSender DEF CInv, ReaderInv, TransferIsExact, R!None

\* Every step keeps it.
LEMMA NextCInv == CInv /\ [Next]_vars => CInv'
<1> SUFFICES ASSUME SenderInv, ReaderInv, [Next]_vars PROVE SenderInv' /\ ReaderInv'
  BY DEF CInv
<1>1. ASSUME UNCHANGED <<encoder, lines>>
      PROVE  SenderInv' /\ UNCHANGED <<source, sent, single>>
  <2>1. UNCHANGED <<E!vars, source, sent, single, ur_type, lines>>
    BY <1>1 DEF encoder, E!vars
  <2>2. E!Built'
    BY <2>1, EncoderAssumptions, E!NextBuilt DEF SenderInv
  <2>3. LinesSent' = LinesSent
    BY <2>1 DEF LinesSent, SingleBody, MultiBody
  <2>4. QED
    BY <2>1, <2>2, <2>3 DEF SenderInv
<1>2. ASSUME NEW m \in Messages, NEW o \in Options, Start(m, o)
      PROVE  SenderInv' /\ ReaderInv'
  <2>1. SenderInv' /\ sent = NoStream
    BY <1>2, StartSender
  <2>2. /\ UNCHANGED <<R!session, R!history, accept, received>>
        /\ UNCHANGED <<stream, locked, terminal, received>>
    BY <1>2 DEF Start, decoder, R!session, R!fountain, R!history
  <2>3. R!UInv'
    BY <2>2, ReaderAssumptions, R!SameUInv DEF ReaderInv
  <2>4. /\ stream = NoStream /\ locked = R!NoType /\ terminal = R!None
        /\ received = "none"
    BY <2>1 DEF ReaderInv, Held
  <2>5. QED
    BY <2>1, <2>2, <2>3, <2>4 DEF ReaderInv, TransferIsExact, R!None
<1>3. CASE PrintLine
  BY <1>3, PrintSender, SenderMoves DEF PrintLine
<1>4. CASE Show \/ ShowStatic \/ Quit \/ UNCHANGED vars
  BY <1>1, <1>4, SenderMoves DEF Show, ShowStatic, Quit, vars
<1>5. ASSUME NEW i \in DOMAIN lines, Capture(i)
      PROVE  SenderInv' /\ ReaderInv'
  <2>1. UNCHANGED <<encoder, lines>> /\ R!Receive(lines[i])
    BY <1>5, SameCalls DEF Capture
  <2>2. sent # NoStream /\ lines[i] \in LinesSent
    BY DEF SenderInv
  <2>3. QED
    BY <1>1, <2>1, <2>2, CaptureReader
<1>6. CASE CaptureMore
  BY <1>1, <1>6, TerminalReader DEF CaptureMore
<1>7. CASE Restart
  BY <1>1, <1>7, RestartReader DEF Restart
<1>8. QED
  BY <1>2, <1>3, <1>4, <1>5, <1>6, <1>7 DEF Next

\* Whatever the reader sees of the printed lines, its session holds only parts
\* of the message, under the type and the caps that let them in.
THEOREM TransferInvariance == Spec => []CInv
BY InitCInv, NextCInv, PTL DEF Spec

\* Encoder and decoder agree for every message, options, counts and limits: no
\* line is refused or fails the session but for the reader's own caps and
\* accept list, and the message a session ends in is the one that was sent.
THEOREM TransferArrives == Spec => []TransferIsExact
<1>1. CInv => TransferIsExact
  BY DEF CInv, ReaderInv
<1>2. QED
  BY <1>1, TransferInvariance, PTL
=============================================================================
