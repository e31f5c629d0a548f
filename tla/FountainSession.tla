--------------------------- MODULE FountainSession --------------------------
(***************************************************************************)
(* What a fountain decoder promises, without saying how it is computed.    *)
(*                                                                         *)
(* A session is the set of parts that brought new information.  A part     *)
(* brings some exactly when its index set is not the XOR of index sets     *)
(* already held; K such parts determine the fragments, and the message is  *)
(* the solution of the system of equations they state.  Each call is one   *)
(* atomic step.                                                            *)
(***************************************************************************)
EXTENDS FountainStream

CONSTANT MaxProcessed     \* u64::MAX, where `processed` saturates

VARIABLES phase, stream, equations, processed, last_indexes, message, error, out

session == <<phase, stream, equations, processed, last_indexes, message, error>>
vars == <<session, out>>

Terminal == phase \in {"Complete", "Failed"}

Saturate(n) == IF n < MaxProcessed THEN n + 1 ELSE n

Init ==
  /\ phase = "Empty" /\ stream = NoStream /\ equations = {}
  /\ processed = 0 /\ last_indexes = {}
  /\ message = {} /\ error = "none" /\ out = "none"

-----------------------------------------------------------------------------
ReceiveTerminal ==
  /\ Terminal
  /\ processed' = Saturate(processed)
  /\ out' = "Duplicate"
  /\ UNCHANGED <<phase, stream, equations, last_indexes, message, error>>

RejectInconsistent(p) ==
  /\ ~Terminal /\ stream # NoStream /\ StreamOf(p) # stream
  /\ out' = "InconsistentPart"
  /\ UNCHANGED session

FailLimit(p) ==
  /\ ~Terminal /\ stream = NoStream /\ LimitError(p) # "none"
  /\ phase' = "Failed" /\ error' = LimitError(p) /\ out' = LimitError(p)
  /\ UNCHANGED <<stream, equations, processed, last_indexes, message>>

\* The part is of the session's stream, or starts one.
Admitted(p) ==
  /\ ~Terminal
  /\ \/ stream = NoStream /\ LimitError(p) = "none"
     \/ StreamOf(p) = stream

ReceiveKnown(p) ==
  /\ Admitted(p) /\ Spans(equations, Indexes(p))
  /\ processed' = Saturate(processed)
  /\ last_indexes' = Indexes(p)
  /\ out' = "Duplicate"
  /\ UNCHANGED <<phase, stream, equations, message, error>>

ReceiveNew(p) ==
  /\ Admitted(p) /\ ~Spans(equations, Indexes(p))
  /\ stream' = StreamOf(p)
  /\ equations' = equations \cup {p}
  /\ processed' = Saturate(processed)
  /\ last_indexes' = Indexes(p)
  /\ LET full   == Cardinality(equations') = p.sequence_count
         solved == Solve(stream', equations')
         verdict == Verify(stream', solved)
     IN \/ /\ ~full
           /\ phase' = "Collecting" /\ out' = "Accepted"
           /\ UNCHANGED <<message, error>>
        \/ /\ full /\ verdict = "none"
           /\ phase' = "Complete" /\ message' = solved /\ out' = "Accepted"
           /\ UNCHANGED error
        \/ /\ full /\ verdict # "none"
           /\ phase' = "Failed" /\ error' = verdict /\ out' = verdict
           /\ UNCHANGED message

Reset ==
  /\ phase' = "Empty" /\ stream' = NoStream /\ equations' = {}
  /\ processed' = 0 /\ last_indexes' = {}
  /\ message' = {} /\ error' = "none" /\ out' = "none"

\* fountain::Decoder::receive as one step
Receive(p) ==
  \/ ReceiveTerminal
  \/ RejectInconsistent(p)
  \/ FailLimit(p)
  \/ ReceiveKnown(p)
  \/ ReceiveNew(p)

Next == Reset \/ \E p \in Parts : Receive(p)

Spec == Init /\ [][Next]_vars

-----------------------------------------------------------------------------
(* Properties *)

TypeOK ==
  /\ phase \in {"Empty", "Collecting", "Complete", "Failed"}
  /\ stream \in Streams \cup {NoStream}
  /\ equations \subseteq Parts
  /\ processed \in 0 .. MaxProcessed
  /\ last_indexes \subseteq Columns(stream)
  /\ message \subseteq Nat

\* A session completes at the earliest frame that can complete it, and at no
\* earlier one: while it collects, at least two messages fit everything held,
\* and when it has completed or failed its checks exactly one does.  (Rank,
\* the count of accepted parts, is an exact measure, as `Progress` says.)
CompletesWhenDetermined ==
  stream # NoStream =>
    LET candidates == Cardinality(Solutions(stream, equations))
    IN  IF phase = "Collecting" THEN candidates > 1 ELSE candidates = 1
=============================================================================
