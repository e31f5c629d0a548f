--------------------------- MODULE FountainEncoder --------------------------
(***************************************************************************)
(* fountain::Encoder: partition, padding and the iterator over parts.      *)
(*                                                                         *)
(* The encoder writes its parts without Part::new, so that every part it   *)
(* emits passes those checks is a fact about the partition.                *)
(***************************************************************************)
EXTENDS FountainStream, Partition

CONSTANTS
  Messages,      \* the messages given to `new`: [length, bytes]
  Options,       \* EncoderOptions: [max, min, first]
  U32Max         \* u32::MAX

\* What `new` is given: unsigned numbers and byte strings with a checksum.
ConstantsTyped ==
  /\ U32Max \in Nat \ {0}
  /\ Options \subseteq [max : Nat, min : Nat, first : 0 .. U32Max]
  /\ \A m \in Messages :
       /\ m.length \in Nat /\ m.bytes \subseteq 0 .. m.length - 1
       /\ Crc32(m.length, m.bytes) \in Nat

ASSUME EncoderAssumption == ConstantsTyped

VARIABLES
  options,       \* the options of the encoder
  source,        \* its message
  stream,        \* K, message_length, checksum, fragment_len (NoStream: none built)
  sequence,
  last_fragment_indexes,
  result,        \* what the last call returned: "Ok", "Some", "None", an error
  output         \* the part returned with "Some"

vars == <<options, source, stream, sequence, last_fragment_indexes, result, output>>

NoOptions == [max |-> 0, min |-> 0, first |-> 0]
NoMessage == [length |-> 0, bytes |-> {}]
NoOutput ==
  [sequence |-> 0, sequence_count |-> 0, message_length |-> 0, checksum |-> 0,
   data_len |-> 0, data |-> {}]

\* The checks of Encoder::new, in their order.
NewError(m, o) ==
  IF m.length = 0 THEN "EmptyMessage"
  ELSE IF o.max = 0 \/ o.min = 0 \/ o.min > o.max THEN "InvalidFragmentLength"
  ELSE IF m.length > U32Max THEN "MessageTooLong"
  ELSE "none"

EncoderStreamMutant(m, o) ==      \* counted before padding
  LET len == FragmentLength(m.length, o.max, o.min)
  IN  [sequence_count |-> Max({1, m.length \div len}),
       message_length |-> m.length,
       checksum |-> Crc32(m.length, m.bytes),
       fragment_len |-> len]

EncoderStream(m, o) ==
  LET len == FragmentLength(m.length, o.max, o.min)
  IN  [sequence_count |-> (m.length + Pad(m.length, len)) \div len,
       message_length |-> m.length,
       checksum |-> Crc32(m.length, m.bytes),
       fragment_len |-> len]

\* The shuffle picks fragments of the message, whatever the sequence number.
ShufflePicks ==
  \A m \in Messages, o \in Options :
    NewError(m, o) = "none" =>
      LET s == EncoderStream(m, o)
      IN  \A n \in s.sequence_count + 1 .. U32Max :
            /\ Mixed(n, s.sequence_count, s.checksum) \subseteq Columns(s)
            /\ Mixed(n, s.sequence_count, s.checksum) # {}

ASSUME ShuffleAssumption == ShufflePicks

\* The payload of part n: the chosen chunks of the padded message, XORed.
Mix(m, s, n) ==
  Combine(Fragments(m, s), Choose(n, s.sequence_count, s.checksum))

PartAt(m, s, n) ==
  [sequence |-> n, sequence_count |-> s.sequence_count,
   message_length |-> s.message_length, checksum |-> s.checksum,
   data_len |-> s.fragment_len, data |-> Mix(m, s, n)]

Init ==
  /\ options = NoOptions /\ source = NoMessage
  /\ stream = NoStream /\ sequence = 0
  /\ last_fragment_indexes = {}
  /\ result = "none" /\ output = NoOutput

RefuseNew(m, o) ==
  /\ stream = NoStream /\ NewError(m, o) # "none"
  /\ result' = NewError(m, o)
  /\ UNCHANGED <<options, source, stream, sequence, last_fragment_indexes, output>>

New(m, o) ==
  /\ stream = NoStream /\ NewError(m, o) = "none"
  /\ options' = o /\ source' = m
  /\ stream' = EncoderStream(m, o)
  /\ sequence' = o.first
  /\ result' = "Ok"
  /\ UNCHANGED <<last_fragment_indexes, output>>

\* next, while sequence numbers last
NextPart ==
  /\ stream # NoStream /\ sequence # U32Max
  /\ sequence' = sequence + 1
  /\ result' = "Some" /\ output' = PartAt(source, stream, sequence')
  /\ last_fragment_indexes' =
       Choose(sequence', stream.sequence_count, stream.checksum)
  /\ UNCHANGED <<options, source, stream>>

\* next after u32::MAX
End ==
  /\ stream # NoStream /\ sequence = U32Max
  /\ result' = "None"
  /\ UNCHANGED <<options, source, stream, sequence, last_fragment_indexes, output>>

IsComplete == sequence >= stream.sequence_count

Next ==
  \/ \E m \in Messages, o \in Options : RefuseNew(m, o) \/ New(m, o)
  \/ NextPart
  \/ End

Spec == Init /\ [][Next]_vars

-----------------------------------------------------------------------------
(* Properties *)

TypeOK ==
  /\ options \in Options \cup {NoOptions}
  /\ source \in Messages \cup {NoMessage}
  /\ sequence \in 0 .. U32Max
  /\ last_fragment_indexes \subseteq Columns(stream)

\* Every part the encoder emits would pass Part::new, whatever the message
\* length and the options: a receiver never drops it as InvalidPart.
EmitsValidParts ==
  result = "Some" =>
    /\ PartNew(output)
    /\ output.data \subseteq 0 .. output.data_len - 1

\* URKit's findNominalFragmentLength: the linear search the closed form of
\* fragment_length stands for.
Nominal(length, max, min) ==
  LET most  == Max({1, length \div min})
      fits  == {n \in 1 .. most : DivCeil(length, n) <= max}
  IN  DivCeil(length, IF fits = {} THEN most ELSE Min(fits))

\* The closed form equals the search, and a fragment is longer than `max`
\* only when `min` leaves no count that would fit.
PartitionIsNominal ==
  stream # NoStream =>
    /\ stream.fragment_len = Nominal(stream.message_length, options.max, options.min)
    /\ stream.fragment_len > options.max =>
         stream.message_length \div options.min < DivCeil(stream.message_length, options.max)

\* The fragments cover the message, the padding is shorter than a fragment,
\* and `min` caps the count as its doc says: joined, the fragments are the message.
PartitionLosesNothing ==
  stream # NoStream =>
    /\ Concat(stream, Fragments(source, stream)) = source.bytes
    /\ stream.sequence_count * stream.fragment_len - stream.message_length
         \in 0 .. stream.fragment_len - 1
    /\ stream.sequence_count <= Max({1, stream.message_length \div options.min})
=============================================================================
