--------------------------- MODULE FountainDecoder --------------------------
(***************************************************************************)
(* fountain::Decoder: incremental Gauss-Jordan elimination over GF(2).     *)
(*                                                                         *)
(* `receive` takes the decoder by mutable reference, so calls never        *)
(* overlap.  One call is a sequence of steps here: the checks that lock,   *)
(* refuse or admit the part, one step per iteration of forward_eliminate,  *)
(* and one step for the rest of the call (insertion, back substitution,    *)
(* counters, join).                                                        *)
(***************************************************************************)
EXTENDS FountainStream

CONSTANT MaxProcessed     \* u64::MAX, where `processed` saturates

ASSUME MaxProcessedAssumption == MaxProcessed \in Nat

VARIABLES
  phase,          \* Phase: Empty, Collecting, Complete, Failed
  stream,         \* the locked K, message_length, checksum, fragment_len
  rows,           \* pivot column -> row (a column without one is `None`)
  rank, recovered, processed,
  last_indexes,
  message,        \* payload of Phase::Complete
  error,          \* payload of Phase::Failed
  out,            \* what the last completed call returned
  pc, part, scan, mask, data,   \* the call in progress
  accepted        \* history: the parts that raised the rank

session == <<phase, stream, rows, rank, recovered, processed, last_indexes,
             message, error, accepted>>
call == <<pc, part, scan, mask, data>>
vars == <<session, out, call>>

Terminal == phase \in {"Complete", "Failed"}

SaturateMutant(n) == n + 1      \* no cap
Saturate(n) == IF n < MaxProcessed THEN n + 1 ELSE n

NoPart == [sequence |-> 0]

\* Row: the columns XORed into `data`.  `ones` is recomputed with every XOR,
\* so it is always the popcount of the mask.
IsUnit(row) == Cardinality(row.mask) = 1

XorRowMutant(row, m, d) ==      \* the payload is forgotten
  [mask |-> Xor(row.mask, m), data |-> row.data]
XorRow(row, m, d) == [mask |-> Xor(row.mask, m), data |-> Xor(row.data, d)]

NoCall ==
  /\ pc = "idle" /\ part = NoPart
  /\ scan = {} /\ mask = {} /\ data = {}

Init ==
  /\ phase = "Empty" /\ stream = NoStream
  /\ rows = [c \in {} |-> NoPart]
  /\ rank = 0 /\ recovered = 0 /\ processed = 0
  /\ last_indexes = {} /\ message = {} /\ error = "none"
  /\ accepted = {} /\ out = "none"
  /\ NoCall

-----------------------------------------------------------------------------
\* A frame after completion or failure is counted and adds nothing.
ReceiveTerminal ==
  /\ pc = "idle" /\ Terminal
  /\ processed' = Saturate(processed)
  /\ out' = "Duplicate"
  /\ UNCHANGED <<phase, stream, rows, rank, recovered, last_indexes, message,
                 error, accepted, call>>

\* A part of another stream is rejected and nothing is changed.
RejectInconsistent(p) ==
  /\ pc = "idle" /\ ~Terminal
  /\ stream # NoStream /\ StreamOf(p) # stream
  /\ out' = "InconsistentPart"
  /\ UNCHANGED <<session, call>>

\* The part that would lock the stream exceeds a cap.
FailLimit(p) ==
  /\ pc = "idle" /\ ~Terminal /\ stream = NoStream
  /\ LimitError(p) # "none"
  /\ phase' = "Failed" /\ error' = LimitError(p) /\ out' = LimitError(p)
  /\ UNCHANGED <<stream, rows, rank, recovered, processed, last_indexes,
                 message, accepted, call>>

\* The part locks the stream or matches it; its row enters the elimination.
Admit(p) ==
  /\ pc = "idle" /\ ~Terminal
  /\ \/ stream = NoStream /\ LimitError(p) = "none"
     \/ StreamOf(p) = stream
  /\ stream' = StreamOf(p) /\ phase' = "Collecting"
  /\ pc' = "eliminate" /\ part' = p
  /\ scan' = Indexes(p) /\ mask' = Indexes(p) /\ data' = p.data
  /\ UNCHANGED <<rows, rank, recovered, processed, last_indexes, message,
                 error, accepted, out>>

EliminateMutant ==      \* the payload is not eliminated with the mask
  /\ pc = "eliminate" /\ scan # {}
  /\ LET column == Min(scan) IN
       /\ scan' = scan \ {column}
       /\ mask' = IF column \in mask /\ column \in DOMAIN rows
                  THEN Xor(mask, rows[column].mask) ELSE mask
  /\ UNCHANGED <<session, out, pc, part, data>>

\* One iteration of forward_eliminate: the part's own indexes, ascending.
Eliminate ==
  /\ pc = "eliminate" /\ scan # {}
  /\ LET column == Min(scan) IN
       /\ scan' = scan \ {column}
       /\ IF column \in mask /\ column \in DOMAIN rows
          THEN /\ mask' = Xor(mask, rows[column].mask)
               /\ data' = Xor(data, rows[column].data)
          ELSE UNCHANGED <<mask, data>>
  /\ UNCHANGED <<session, out, pc, part>>

Return(result) ==
  /\ out' = result
  /\ pc' = "idle" /\ part' = NoPart
  /\ scan' = {} /\ mask' = {} /\ data' = {}

\* Nothing is left of the row: the part is linearly dependent.
DiscardDependent ==
  /\ pc = "eliminate" /\ scan = {} /\ mask = {}
  /\ last_indexes' = Indexes(part)
  /\ processed' = Saturate(processed)
  /\ Return("Duplicate")
  /\ UNCHANGED <<phase, stream, rows, rank, recovered, message, error, accepted>>

BackSubstituteNone(pivot) ==      \* no back substitution
  [c \in DOMAIN rows \cup {pivot} |->
     IF c = pivot THEN [mask |-> mask, data |-> data] ELSE rows[c]]

BackSubstituteAfter(pivot) ==      \* only the rows past the pivot
  [c \in DOMAIN rows \cup {pivot} |->
     IF c = pivot THEN [mask |-> mask, data |-> data]
     ELSE IF c > pivot /\ pivot \in rows[c].mask THEN XorRow(rows[c], mask, data)
     ELSE rows[c]]

\* The rows once the reduced part is stored: every row holding the new
\* pivot column has the new row XORed in.
BackSubstitute(pivot) ==
  [c \in DOMAIN rows \cup {pivot} |->
     IF c = pivot THEN [mask |-> mask, data |-> data]
     ELSE IF pivot \in rows[c].mask THEN XorRow(rows[c], mask, data)
     ELSE rows[c]]

RecoveredAfterMutant(pivot, new) ==      \* rows that become units are missed
  recovered + (IF IsUnit(new[pivot]) THEN 1 ELSE 0)

\* The running count of unit rows after the insertion at the pivot.
RecoveredAfter(pivot, new) ==
  LET touched == {c \in DOMAIN rows : pivot \in rows[c].mask}
      lost    == {c \in touched : IsUnit(rows[c]) /\ ~IsUnit(new[c])}
      gained  == {c \in touched : ~IsUnit(rows[c]) /\ IsUnit(new[c])}
  IN  recovered + Cardinality(gained) - Cardinality(lost)
        + (IF IsUnit(new[pivot]) THEN 1 ELSE 0)

FullLate(r) == r > stream.sequence_count
FullEarly(r) == r + 1 >= stream.sequence_count
Full(r) == r = stream.sequence_count

\* What join finds in the rows: the fatal error, or "none".
JoinError(new) ==
  IF \E c \in Columns(stream) : c \notin DOMAIN new \/ ~IsUnit(new[c])
  THEN "Internal"
  ELSE IF stream.sequence_count * stream.fragment_len < stream.message_length
  THEN "Internal"
  ELSE Verify(stream, Concat(stream, [c \in DOMAIN new |-> new[c].data]))

\* The call ends with the row stored.  The K-th row triggers join, which
\* completes the session or fails it.
StoreRow ==
  /\ pc = "eliminate" /\ scan = {} /\ mask # {}
  /\ LET pivot == Min(mask)
         new   == BackSubstitute(pivot)
     IN /\ rows' = new
        /\ recovered' = RecoveredAfter(pivot, new)
        /\ rank' = rank + 1
        /\ last_indexes' = Indexes(part)
        /\ processed' = Saturate(processed)
        /\ accepted' = accepted \cup {part}
        /\ \/ /\ ~Full(rank')
              /\ Return("Accepted")
              /\ UNCHANGED <<phase, message, error>>
           \/ /\ Full(rank') /\ JoinError(new) = "none"
              /\ phase' = "Complete"
              /\ message' = Concat(stream, [c \in DOMAIN new |-> new[c].data])
              /\ Return("Accepted")
              /\ UNCHANGED error
           \/ /\ Full(rank') /\ JoinError(new) # "none"
              /\ phase' = "Failed" /\ error' = JoinError(new)
              /\ Return(JoinError(new))
              /\ UNCHANGED message
  /\ UNCHANGED stream

\* reset: a new decoder with the same limits
Reset ==
  /\ pc = "idle"
  /\ phase' = "Empty" /\ stream' = NoStream
  /\ rows' = [c \in {} |-> NoPart]
  /\ rank' = 0 /\ recovered' = 0 /\ processed' = 0
  /\ last_indexes' = {} /\ message' = {} /\ error' = "none"
  /\ accepted' = {} /\ out' = "none"
  /\ UNCHANGED call

Next ==
  \/ ReceiveTerminal
  \/ \E p \in Parts : RejectInconsistent(p) \/ FailLimit(p) \/ Admit(p)
  \/ Eliminate
  \/ DiscardDependent
  \/ StoreRow
  \/ Reset

Spec == Init /\ [][Next]_vars

-----------------------------------------------------------------------------
(* Properties *)

TypeOK ==
  /\ phase \in {"Empty", "Collecting", "Complete", "Failed"}
  /\ stream \in Streams \cup {NoStream}
  /\ phase = "Empty" => stream = NoStream
  /\ DOMAIN rows \subseteq Columns(stream)
  /\ \A c \in DOMAIN rows :
       /\ rows[c].mask \subseteq Columns(stream)
       /\ rows[c].data \subseteq 0 .. stream.fragment_len - 1
  /\ rank \in Nat /\ recovered \in Nat
  /\ processed \in 0 .. MaxProcessed
  /\ last_indexes \subseteq Columns(stream)
  /\ message \subseteq Nat
  /\ pc \in {"idle", "eliminate"}
  /\ pc = "idle" => NoCall
  /\ pc = "eliminate" =>
       /\ phase = "Collecting" /\ part \in Parts /\ StreamOf(part) = stream
       /\ scan \subseteq Columns(stream) /\ mask \subseteq Columns(stream)
       /\ data \subseteq 0 .. stream.fragment_len - 1
  /\ accepted \subseteq Parts

\* Reduced row echelon form, the claim of the comments on `Row` and
\* `Decoder::rows`: a row's pivot is its lowest column and no other row holds
\* that column, whatever parts arrived in whatever order.
ReducedEchelon ==
  \A c \in DOMAIN rows :
    /\ c \in rows[c].mask
    /\ \A d \in rows[c].mask : c <= d
    /\ \A d \in DOMAIN rows \ {c} : c \notin rows[d].mask

\* The comment on forward_eliminate: scanning the part's own indexes covers
\* every elimination, so what is left of the mask holds no pivot column.
ScanCoversPivots ==
  pc = "eliminate" => mask \cap DOMAIN rows \subseteq scan

\* The counters kept step by step (rank, and recovered by unit transitions)
\* always equal what a recount of the rows would give.
CountersExact ==
  /\ rank = Cardinality(DOMAIN rows)
  /\ recovered = Cardinality({c \in DOMAIN rows : IsUnit(rows[c])})

\* The rank never exceeds K, and a session still collecting is short of it:
\* join runs at the very part that closes the system, and never on fewer.
CollectingIsShort ==
  /\ rank <= stream.sequence_count
  /\ phase = "Collecting" => rank < stream.sequence_count
  /\ phase = "Complete" => rank = stream.sequence_count /\ recovered = rank

\* When join runs, every fragment has been recovered and the rows are as long
\* as the message: its `Internal` branches (a missing row, a row that is not a
\* unit, a message longer than the rows) are never taken.
NeverInternal == error # "Internal"

\* Every part that raised the rank came from an encoder of src.
HonestSession(src) == \A p \in accepted : Honest(p, src)

\* When the parts that raised the rank come from one source, the rows are XORs
\* of that source's fragments, and the message handed over is the source,
\* whatever was lost, repeated, reordered or refused on the way, and whatever
\* the parts found dependent carried.
DeliversSource ==
  \A src \in Sources :
    HonestSession(src) =>
      /\ \A c \in DOMAIN rows :
           rows[c].data = Combine(Fragments(src, stream), rows[c].mask)
      /\ phase = "Complete" => message = src.bytes
      /\ error \notin {"InvalidPadding", "InvalidMessageChecksum"}

\* The bound of docs/limits.mdx: the payload of the rows a session holds is
\* less than one fragment over the largest message allowed, because a part's
\* padding is shorter than a fragment and the caps hold for the locking part.
RowMemoryBounded ==
  Cardinality(DOMAIN rows) * stream.fragment_len
    <= MaxMessageLength + MaxFragmentLength

-----------------------------------------------------------------------------
(* Refinement *)

Promise ==
  INSTANCE FountainSession WITH
    equations <- accepted,
    phase <- IF pc = "eliminate" /\ accepted = {} THEN "Empty" ELSE phase,
    stream <- IF pc = "eliminate" /\ accepted = {} THEN NoStream ELSE stream

\* The elimination keeps the promise of FountainSession: it accepts a part
\* exactly when its index set is not the XOR of those held, completes at the
\* K-th one, and hands over the solution of the system.  A call in progress
\* shows nothing until it returns.
KeepsPromise == Promise!Spec

\* A session completes at the earliest part that can complete it and at no
\* earlier one: as FountainSession states it, of the parts accepted here.
CompletesWhenDetermined == Promise!CompletesWhenDetermined
=============================================================================
