------------------------------ MODULE UrDecoder -----------------------------
(***************************************************************************)
(* ur::Decoder: single-part and fountain URs received as text frames.      *)
(*                                                                         *)
(* It owns a fountain decoder, used here through its promise               *)
(* (FountainSession), and adds the admission order (scheme and type, accept *)
(* list, type lock, text budget, body), the single-part path, a terminal   *)
(* state of its own and its own count of processed frames.                 *)
(*                                                                         *)
(* A frame is what the parser distinguishes of a text:                     *)
(*   head   "ok", or the error parse_head returns                          *)
(*   ur_type the lower-cased type token                                    *)
(*   text   "ok", or the error check_text returns                          *)
(*   body   [kind |-> "malformed", error], [kind |-> "single", length,     *)
(*          bytes], or [kind |-> "multi", sequence, count, part] where     *)
(*          sequence and count come from the header                        *)
(***************************************************************************)
EXTENDS FountainStream

CONSTANTS
  MaxProcessed,    \* u64::MAX, where both `processed` counters saturate
  Frames,          \* the frames that may be received
  MaxFrames,       \* bound: where the history `counted` stops, past MaxProcessed
  AcceptLists      \* the type sets given to `accept` (the empty one: any type)

ASSUME CountsAssumption ==
  MaxProcessed \in Nat /\ MaxFrames \in Nat /\ MaxFrames > MaxProcessed

VARIABLES
  phase, stream, equations, processed, last_indexes, message, error, out,
                   \* the fountain decoder
  accept, locked, terminal, frames_processed,
  result,          \* what the last call returned
  counted, types   \* history: how many frames were taken, and of what types

Fountain == INSTANCE FountainSession

fountain == <<phase, stream, equations, processed, last_indexes, message,
              error, out>>
session == <<fountain, locked, terminal, frames_processed>>
history == <<counted, types>>
vars == <<session, history, accept, result>>

NoType == "none"

\* The two answers of receive that are not errors (Received)
Received == {"Accepted", "Duplicate"}

\* A frame names a type, a part it carries has passed Part::new, and what the
\* parser says of it is no answer of receive.
FrameValid(f) ==
  /\ f.ur_type # NoType
  /\ f.head \notin Received
  /\ f.body.kind = "malformed" => f.body.error \notin Received
  /\ f.head = "ok" /\ f.text = "ok" /\ f.body.kind = "multi" => f.body.part \in Parts

ASSUME FramesAssumption == \A f \in Frames : FrameValid(f)

None == [kind |-> "none"]
Complete(type, length, bytes) ==
  [kind |-> "Complete", ur_type |-> type, length |-> length, message |-> bytes]
Failed(e) == [kind |-> "Failed", error |-> e]

Fatal ==
  {"UriLength", "MessageLength", "FragmentCount", "FragmentLength",
   "InvalidPadding", "InvalidMessageChecksum", "Internal"}

Init ==
  /\ Fountain!Init
  /\ accept \in AcceptLists
  /\ locked = NoType /\ terminal = None /\ frames_processed = 0
  /\ result = "none" /\ counted = 0 /\ types = {}

-----------------------------------------------------------------------------
\* A rejected frame changes nothing.
Reject(e) == result' = e /\ UNCHANGED <<session, accept>>

FatalizeMutant(e) ==      \* the fatal error is returned but not kept
  /\ result' = e
  /\ UNCHANGED <<locked, terminal, frames_processed>>

Fatalize(e) ==
  /\ terminal' = Failed(e) /\ result' = e
  /\ UNCHANGED <<locked, frames_processed>>

CountMutant ==      \* a frame is counted only when it is accepted
  frames_processed' = IF result' = "Accepted"
                      THEN Fountain!Saturate(frames_processed)
                      ELSE frames_processed

Count == frames_processed' = Fountain!Saturate(frames_processed)

\* What a frame was answered is recorded apart from what the code did with it:
\* one answered accepted or duplicate was taken, and `read` holds the type
\* that was read of it.
Witness(read) ==
  LET taken == result' \in Received
  IN  /\ counted' = IF taken /\ counted < MaxFrames THEN counted + 1 ELSE counted
      /\ types' = IF taken THEN types \cup read ELSE types

Lock(type) == locked' = IF locked = NoType THEN type ELSE locked

\* Every frame after the end is counted and not parsed.
ReceiveTerminal ==
  /\ terminal # None
  /\ frames_processed' = Fountain!Saturate(frames_processed)
  /\ result' = "Duplicate"
  /\ UNCHANGED <<fountain, accept, locked, terminal>>
  /\ Witness({})

\* check_type: the accept list, then the lock
ForeignMutant(f) == accept # {} /\ f.ur_type \notin accept      \* the lock is not checked
Foreign(f) ==
  \/ accept # {} /\ f.ur_type \notin accept
  \/ locked # NoType /\ f.ur_type # locked

RejectHead(f) ==
  /\ f.head # "ok"
  /\ Reject(f.head)

RejectType(f) ==
  /\ f.head = "ok" /\ Foreign(f)
  /\ Reject("UnexpectedType")

AdmittedMutant(f) == f.head = "ok"      \* the text budget before the type
Admitted(f) == f.head = "ok" /\ ~Foreign(f)

\* check_text
RejectText(f) ==
  /\ Admitted(f) /\ f.text = "NonAscii"
  /\ Reject("NonAscii")

FailText(f) ==
  /\ Admitted(f) /\ f.text = "UriLength"
  /\ Fatalize("UriLength")
  /\ UNCHANGED <<fountain, accept>>

\* parse_rest: indices grammar, bytewords, part CBOR, and the header that
\* must name the part's own sequence and count
BodyError(f) ==
  IF f.body.kind = "malformed" THEN f.body.error
  ELSE IF /\ f.body.kind = "multi"
          /\ \/ f.body.sequence # f.body.part.sequence
             \/ f.body.count # f.body.part.sequence_count
       THEN "InvalidIndices"
  ELSE "none"

RejectBody(f) ==
  /\ Admitted(f) /\ f.text = "ok" /\ BodyError(f) # "none"
  /\ Reject(BodyError(f))

Parsed(f, kind) ==
  /\ Admitted(f) /\ f.text = "ok" /\ BodyError(f) = "none"
  /\ f.body.kind = kind

\* receive_single
RejectSingle(f) ==
  /\ Parsed(f, "single") /\ phase # "Empty"
  /\ Reject("InconsistentPart")

FailSingle(f) ==
  /\ Parsed(f, "single") /\ phase = "Empty"
  /\ f.body.length > MaxMessageLength
  /\ Fatalize("MessageLength")
  /\ UNCHANGED <<fountain, accept>>

CompleteSingle(f) ==
  /\ Parsed(f, "single") /\ phase = "Empty"
  /\ f.body.length <= MaxMessageLength
  /\ Lock(f.ur_type)
  /\ terminal' = Complete(f.ur_type, f.body.length, f.body.bytes)
  /\ result' = "Accepted"
  /\ Count
  /\ UNCHANGED <<fountain, accept>>

\* The session completes when the fountain decoder has.
Finish(f) ==
  terminal' = IF phase' = "Complete"
              THEN Complete(f.ur_type, stream'.message_length, message')
              ELSE terminal

\* receive_fountain
ReceiveMulti(f) ==
  /\ Parsed(f, "multi")
  /\ Fountain!Receive(f.body.part)
  /\ \/ out' \in Fatal /\ Fatalize(out')
     \/ /\ out' = "InconsistentPart" /\ result' = out'
        /\ UNCHANGED <<locked, terminal, frames_processed>>
     \/ /\ out' \in {"Accepted", "Duplicate"} /\ result' = out'
        /\ Lock(f.ur_type)
        /\ Count
        /\ Finish(f)
  /\ UNCHANGED accept

\* receive, in a session that has not ended
Receive(f) ==
  /\ terminal = None
  /\ \/ RejectHead(f) \/ RejectType(f) \/ RejectText(f) \/ FailText(f)
     \/ RejectBody(f)
     \/ RejectSingle(f) \/ FailSingle(f) \/ CompleteSingle(f)
     \/ ReceiveMulti(f)
  /\ Witness({f.ur_type})

\* accept is a builder, but nothing stops a caller from using it mid-session.
Accept(allowed) ==
  /\ accept' = allowed
  /\ UNCHANGED <<session, history, result>>

ProgressMutant ==      \* the single-part case is not told apart
  [fragment_count |-> stream.sequence_count,
   rank |-> Cardinality(equations),
   recovered |-> Cardinality({c \in Columns(stream) : Fountain!Spans(equations, {c})}),
   processed |-> frames_processed]

\* progress and state, as a caller reads them
Progress ==
  IF stream.sequence_count = 0 /\ terminal.kind = "Complete"
  THEN [fragment_count |-> 1, rank |-> 1, recovered |-> 1,
        processed |-> frames_processed]
  ELSE [fragment_count |-> stream.sequence_count,
        rank |-> Cardinality(equations),
        recovered |-> Cardinality({c \in Columns(stream) :
                                     Fountain!Spans(equations, {c})}),
        processed |-> frames_processed]

State ==
  IF terminal # None THEN terminal.kind
  ELSE IF Progress.fragment_count = 0 THEN "Empty" ELSE "Collecting"

\* reset keeps the limits and the accept list
Reset ==
  /\ Fountain!Reset
  /\ locked' = NoType /\ terminal' = None /\ frames_processed' = 0
  /\ result' = "none" /\ counted' = 0 /\ types' = {}
  /\ UNCHANGED accept

Next ==
  \/ ReceiveTerminal
  \/ \E f \in Frames : Receive(f)
  \/ \E allowed \in AcceptLists : Accept(allowed)
  \/ Reset

Spec == Init /\ [][Next]_vars

-----------------------------------------------------------------------------
(* Properties *)

TypeOK ==
  /\ Fountain!TypeOK
  /\ accept \in AcceptLists
  /\ locked \in {f.ur_type : f \in Frames} \cup {NoType}
  /\ terminal.kind \in {"none", "Complete", "Failed"}
  /\ terminal.kind = "Failed" => terminal.error \in Fatal
  /\ frames_processed \in 0 .. MaxProcessed
  /\ counted \in 0 .. MaxFrames
  /\ types \subseteq {f.ur_type : f \in Frames}

\* The terminal states of the two layers, and the lock between them.
TerminalsAgree ==
  /\ phase = "Complete" =>
       terminal = Complete(locked, stream.message_length, message)
  /\ phase = "Failed" => terminal = Failed(error)
  /\ terminal.kind = "Complete" => phase \in {"Empty", "Complete"} /\ locked # NoType
  /\ phase = "Collecting" => locked # NoType /\ terminal \in {None, Failed("UriLength")}
  /\ phase = "Empty" /\ terminal.kind # "Complete" => locked = NoType

\* The two terminal states never disagree: whatever ends the fountain decoder
\* ends the UR session with the same message or error, the type is locked
\* exactly once something was ingested, and a session ended from above leaves
\* no finished fountain decoder below.
LayersAgree ==
  /\ TerminalsAgree
  /\ State = "Empty" <=> phase = "Empty" /\ terminal = None

\* A session mixes no types: every frame it took carried the type it locked,
\* which is the type of the decoded message, even when the accept list was
\* replaced between two frames.
OneType ==
  /\ types \subseteq {locked}
  /\ terminal.kind = "Complete" => types = {terminal.ur_type}

\* `processed` is the number of frames answered accepted or duplicate since the
\* session began and of no other, the single-part and post-terminal ones
\* included, up to its width; and until the session ends the two layers, which
\* count on their own, have counted the same frames (the part that ends a
\* session is counted below whatever comes of it, and above only when taken).
CountsFrames ==
  /\ frames_processed = IF counted <= MaxProcessed THEN counted ELSE MaxProcessed
  /\ terminal = None => frames_processed = processed

\* What the caller reads at any time: nothing before the first frame, never
\* more recovered than ranked nor ranked than K, and all K (at least one)
\* when complete, on the single-part path as on the fountain path.
ProgressTracksState ==
  /\ Progress.recovered <= Progress.rank
  /\ Progress.rank <= Progress.fragment_count
  /\ State = "Empty" => Progress.processed = 0 /\ Progress.rank = 0
  /\ State = "Collecting" => Progress.rank \in 1 .. Progress.fragment_count - 1
  /\ State = "Complete" =>
       /\ Progress.rank = Progress.fragment_count
       /\ Progress.recovered = Progress.rank
       /\ Progress.rank >= 1

\* "A frame whose type is foreign to the session is rejected no matter its
\* size, and only an admitted frame can fail the session."
ForeignNeverFails ==
  [][ \A f \in Frames :
        f.head = "ok" /\ Foreign(f) /\ Receive(f)
          => result' = "UnexpectedType" /\ UNCHANGED session ]_vars
=============================================================================
