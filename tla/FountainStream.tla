--------------------------- MODULE FountainStream ---------------------------
(***************************************************************************)
(* The data of a fountain stream, shared by the decoder, the encoder and   *)
(* the session they implement.                                             *)
(*                                                                         *)
(* Bytes are abstracted to zero / nonzero: a byte string is the set of the *)
(* offsets of its nonzero bytes, and XOR is symmetric difference.  A       *)
(* K-bit column mask is the set of its columns.  The XOR of many fragments *)
(* keeps the bytes that are nonzero in an odd number of them.              *)
(***************************************************************************)
EXTENDS Integers, FiniteSets, FiniteSetsExt

CONSTANTS
  Parts,               \* the parts that may reach a decoder
  Sources,             \* the messages honest encoders send
  Mixed(_, _, _),      \* choice of fragments for a sequence above K
  Crc32(_, _),         \* checksum of a message (length, bytes)
  MaxFragmentCount,    \* DecoderLimits.max_fragment_count
  MaxMessageLength,    \* DecoderLimits.max_message_length
  MaxFragmentLength    \* DecoderLimits.max_fragment_length

Odd(S) == Cardinality(S) % 2 = 1

Xor(A, B) == SymDiff(A, B)

\* XOR of the fragments frags[c], c \in cols
Combine(frags, cols) ==
  {b \in UNION {frags[c] : c \in cols} : Odd({c \in cols : b \in frags[c]})}

-----------------------------------------------------------------------------
\* Part: the wire fields; `data` is a byte string of `data_len` bytes.
PartFields ==
  [sequence : Nat, sequence_count : Nat, message_length : Nat,
   checksum : Nat, data_len : Nat, data : SUBSET Nat]

\* Part::new: the checks every part has passed, decoded or emitted
PartNew(p) ==
  /\ p.sequence # 0 /\ p.sequence_count # 0
  /\ p.message_length # 0 /\ p.data_len # 0
  /\ p.sequence_count * p.data_len >= p.message_length
  /\ p.sequence_count * p.data_len - p.message_length < p.data_len

\* FragmentChooser::choose
Choose(sequence, count, checksum) ==
  IF sequence <= count THEN {sequence - 1} ELSE Mixed(sequence, count, checksum)

Indexes(p) == Choose(p.sequence, p.sequence_count, p.checksum)

ASSUME PartsAssumption ==
  \A p \in Parts :
    /\ p \in PartFields
    /\ PartNew(p)
    /\ p.data \subseteq 0 .. p.data_len - 1

\* The shuffle picks 1..K of the K fragments.
ASSUME MixedAssumption ==
  \A p \in Parts :
    p.sequence > p.sequence_count =>
      /\ Mixed(p.sequence, p.sequence_count, p.checksum)
           \subseteq 0 .. p.sequence_count - 1
      /\ Mixed(p.sequence, p.sequence_count, p.checksum) # {}

ASSUME LimitsAssumption ==
  /\ MaxFragmentCount \in Nat
  /\ MaxMessageLength \in Nat
  /\ MaxFragmentLength \in Nat

-----------------------------------------------------------------------------
\* The metadata the first part fixes; all zero while no stream is locked.
NoStream ==
  [sequence_count |-> 0, message_length |-> 0, checksum |-> 0, fragment_len |-> 0]

StreamOf(p) ==
  [sequence_count |-> p.sequence_count, message_length |-> p.message_length,
   checksum |-> p.checksum, fragment_len |-> p.data_len]

Streams == {StreamOf(p) : p \in Parts}

Columns(s) == 0 .. s.sequence_count - 1

LimitErrorMutant(p) ==      \* the fragment length is not checked
  IF p.sequence_count > MaxFragmentCount THEN "FragmentCount"
  ELSE IF p.message_length > MaxMessageLength THEN "MessageLength"
  ELSE "none"

\* lock_metadata: the first cap the part exceeds, in the order they are tried
LimitError(p) ==
  IF p.sequence_count > MaxFragmentCount THEN "FragmentCount"
  ELSE IF p.message_length > MaxMessageLength THEN "MessageLength"
  ELSE IF p.data_len > MaxFragmentLength THEN "FragmentLength"
  ELSE "none"

\* The fragments laid end to end: combined and padded.
Concat(s, frags) ==
  UNION {{c * s.fragment_len + b : b \in frags[c]} : c \in Columns(s)}

VerifyMutant(s, combined) ==      \* the padding is taken to start a byte early
  IF \E b \in combined : b + 1 >= s.message_length THEN "InvalidPadding"
  ELSE IF Crc32(s.message_length, combined) # s.checksum
       THEN "InvalidMessageChecksum"
  ELSE "none"

\* The padding and CRC-32 checks of a joined message, in their order.
Verify(s, combined) ==
  IF \E b \in combined : b >= s.message_length THEN "InvalidPadding"
  ELSE IF Crc32(s.message_length, combined) # s.checksum
       THEN "InvalidMessageChecksum"
  ELSE "none"

-----------------------------------------------------------------------------
\* What an encoder sends.  A source is [length, bytes]; fragment c of it
\* holds the bytes at c * len .. (c + 1) * len - 1.
Fragments(src, s) ==
  [c \in Columns(s) |->
     {b \in 0 .. s.fragment_len - 1 : c * s.fragment_len + b \in src.bytes}]

\* p is a part an encoder of src emits
Honest(p, src) ==
  /\ p.message_length = src.length
  /\ p.checksum = Crc32(src.length, src.bytes)
  /\ p.data = Combine(Fragments(src, StreamOf(p)), Indexes(p))

ASSUME SourcesAssumption ==
  \A src \in Sources :
    /\ src.length \in Nat \ {0}
    /\ src.bytes \subseteq 0 .. src.length - 1

-----------------------------------------------------------------------------
\* Parts as equations over the fragments: the XOR of their index sets.
XorOfIndexes(eqs) ==
  {c \in UNION {Indexes(q) : q \in eqs} : Odd({q \in eqs : c \in Indexes(q)})}

\* The index sets that are such XORs.
Spans(eqs, indexes) == \E sub \in SUBSET eqs : XorOfIndexes(sub) = indexes

\* The fragments, as byte strings, that satisfy every equation.
Solutions(s, eqs) ==
  {f \in [Columns(s) -> SUBSET (0 .. s.fragment_len - 1)] :
     \A q \in eqs : q.data = Combine(f, Indexes(q))}

\* The message they determine, when they do.
Solve(s, eqs) == Concat(s, CHOOSE f \in Solutions(s, eqs) : TRUE)
=============================================================================
