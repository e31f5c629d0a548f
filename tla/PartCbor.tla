------------------------------ MODULE PartCbor ------------------------------
(***************************************************************************)
(* part_cbor: the five-element CBOR array a fountain part travels in.      *)
(*                                                                         *)
(* The encoder writes every head in its shortest form.  The decoder reads  *)
(* with a cursor, takes heads of any definite width, and refuses all that  *)
(* is not exactly one such array.  A byte is a number below 256.  Numbers  *)
(* stay below 2^31; the high half of an eight-byte argument is a flag.     *)
(***************************************************************************)
EXTENDS Integers, Sequences, SequencesExt

VARIABLES
  bytes,       \* what is decoded
  limits,      \* the Option<DecoderLimits> it is held to
  i,           \* bytes consumed
  fields,      \* integers read: sequence, count, message length, checksum
  data,
  pc,          \* the element that is read next; "idle" before, "done" after
  result       \* "none", "Ok", or the error

partCbor == <<bytes, limits, i, fields, data, pc, result>>

NoLimits == [some |-> FALSE]
SomeLimits(l) == [some |-> TRUE, max |-> l]

-----------------------------------------------------------------------------
(* Encoding *)

\* A head of major type m with an argument n of w bytes
HeadBytes(m, n, w) ==
  LET ai == CASE w = 0 -> n [] w = 1 -> 24 [] w = 2 -> 25 [] w = 4 -> 26 [] w = 8 -> 27
      digit(k) == IF w - k > 3 THEN 0 ELSE (n \div 256 ^ (w - k)) % 256
  IN  <<32 * m + ai>> \o [k \in 1 .. w |-> digit(k)]

\* encode_u32, encode_bstr: the width of the shortest form
Shortest(n) == IF n <= 23 THEN 0 ELSE IF n <= 255 THEN 1 ELSE IF n <= 65535 THEN 2 ELSE 4

\* The array with a width for each of its six heads
EncodeWith(p, widths) ==
  HeadBytes(4, 5, widths[1]) \o HeadBytes(0, p.sequence, widths[2])
    \o HeadBytes(0, p.sequence_count, widths[3]) \o HeadBytes(0, p.message_length, widths[4])
    \o HeadBytes(0, p.checksum, widths[5]) \o HeadBytes(2, Len(p.data), widths[6]) \o p.data

\* encode_part
Encode(p) ==
  EncodeWith(p, <<0, Shortest(p.sequence), Shortest(p.sequence_count),
                  Shortest(p.message_length), Shortest(p.checksum),
                  Shortest(Len(p.data))>>)

-----------------------------------------------------------------------------
(* Decoding *)

WidthMutant(ai) ==      \* eight-byte arguments are not read
  CASE ai = 24 -> 1 [] ai = 25 -> 2 [] ai = 26 -> 4 [] OTHER -> 0

\* Bytes of the argument a head announces; 28 .. 31 are refused.
Width(ai) ==
  CASE ai = 24 -> 1 [] ai = 25 -> 2 [] ai = 26 -> 4 [] ai = 27 -> 8 [] OTHER -> 0

BigEndian(digits) == FoldLeft(LAMBDA n, d : 256 * n + d, 0, digits)

\* next_byte and decode_argument at the cursor: whether the head is there and
\* whole, its major type, its argument and whether that passes 32 bits, and
\* where the cursor is after it.
ReadHead ==
  IF i >= Len(bytes) THEN [ok |-> FALSE]
  ELSE LET ai    == bytes[i + 1] % 32
           w     == Width(ai)
           end   == i + 1 + w
           low   == IF w = 8 THEN i + 6 ELSE i + 2
       IN  IF ai > 27 \/ end > Len(bytes) THEN [ok |-> FALSE]
           ELSE [ok |-> TRUE, major |-> bytes[i + 1] \div 32, end |-> end,
                 wide |-> w = 8 /\ \E k \in i + 2 .. i + 5 : bytes[k] # 0,
                 arg |-> IF w = 0 THEN ai ELSE BigEndian(SubSeq(bytes, low, end))]

\* Part::new on the fields and the data
PartNew(f, len) ==
  /\ f[1] # 0 /\ f[2] # 0 /\ f[3] # 0 /\ len # 0
  /\ f[2] * len >= f[3]
  /\ f[2] * len - f[3] < len

Idle ==
  /\ bytes = <<>> /\ limits = NoLimits
  /\ i = 0 /\ fields = <<>> /\ data = <<>>
  /\ pc = "idle" /\ result = "none"

\* decode_part, decode_part_unlimited
Begin(b, l) ==
  /\ bytes' = b /\ limits' = l
  /\ i' = 0 /\ fields' = <<>> /\ data' = <<>>
  /\ pc' = "array" /\ result' = "none"

Fail(e) ==
  /\ result' = e /\ pc' = "done"
  /\ UNCHANGED <<bytes, limits, i, fields, data>>

IsArrayOf5(h) == h.ok /\ h.major = 4 /\ ~h.wide /\ h.arg = 5
IsU32(h) == h.ok /\ h.major = 0 /\ ~h.wide
IsBytes(h) == h.ok /\ h.major = 2

ReadArray ==
  /\ pc = "array"
  /\ \/ ~IsArrayOf5(ReadHead) /\ Fail("InvalidPartCbor")
     \/ /\ IsArrayOf5(ReadHead)
        /\ i' = ReadHead.end /\ pc' = "uint"
        /\ UNCHANGED <<bytes, limits, fields, data, result>>

\* decode_u32, four times
ReadUint ==
  /\ pc = "uint"
  /\ \/ ~IsU32(ReadHead) /\ Fail("InvalidPartCbor")
     \/ /\ IsU32(ReadHead)
        /\ i' = ReadHead.end
        /\ fields' = Append(fields, ReadHead.arg)
        /\ pc' = IF Len(fields') = 4 THEN "bytes" ELSE "uint"
        /\ UNCHANGED <<bytes, limits, data, result>>

\* A length that cannot be in the rest of the bytes (i.checked_add, get)
Beyond(h) == h.wide \/ h.arg > Len(bytes) - h.end
OverCapMutant(h) ==      \* a cap of 24 is tried where there are no limits
  h.wide \/ h.arg > 24
OverCap(h) == limits.some /\ (h.wide \/ h.arg > limits.max.fragment_length)

AfterData(h) == h.end + h.arg

\* decode_bstr: the cap is tried before the bytes are looked for
ReadBytes ==
  /\ pc = "bytes"
  /\ LET h == ReadHead IN
       \/ ~IsBytes(h) /\ Fail("InvalidPartCbor")
       \/ IsBytes(h) /\ OverCap(h) /\ Fail("FragmentLength")
       \/ IsBytes(h) /\ ~OverCap(h) /\ Beyond(h) /\ Fail("InvalidPartCbor")
       \/ /\ IsBytes(h) /\ ~OverCap(h) /\ ~Beyond(h)
          /\ data' = SubSeq(bytes, h.end + 1, h.end + h.arg)
          /\ i' = AfterData(h)
          /\ pc' = "finish"
          /\ UNCHANGED <<bytes, limits, fields, result>>

FinishMutant ==      \* bytes left over are not noticed
  /\ pc = "finish"
  /\ IF PartNew(fields, Len(data)) THEN result' = "Ok" ELSE result' = "InvalidPart"
  /\ pc' = "done" /\ UNCHANGED <<bytes, limits, i, fields, data>>

\* Nothing may follow; then Part::new, and the cap on the count.
Finish ==
  /\ pc = "finish"
  /\ result' =
       IF i # Len(bytes) THEN "InvalidPartCbor"
       ELSE IF ~PartNew(fields, Len(data)) THEN "InvalidPart"
       ELSE IF limits.some /\ fields[2] > limits.max.fragment_count THEN "FragmentCount"
       ELSE "Ok"
  /\ pc' = "done"
  /\ UNCHANGED <<bytes, limits, i, fields, data>>

Decode == ReadArray \/ ReadUint \/ ReadBytes \/ Finish

Decoded ==
  [sequence |-> fields[1], sequence_count |-> fields[2],
   message_length |-> fields[3], checksum |-> fields[4], data |-> data]
=============================================================================
