--------------------------- MODULE Encoding_proofs --------------------------
(***************************************************************************)
(* The sending side: what the partition guarantees for every message       *)
(* length and every pair of fragment lengths, and so for every part an     *)
(* encoder emits; and what the search of `bcur encode` for a fragment      *)
(* length finds, for every payload, limit and type.                        *)
(*                                                                         *)
(* The closed form of fragment_length chooses a count; everything else     *)
(* about the partition follows from what rounding up means, twice: the     *)
(* fragment is the least that this count of covers the message, and the    *)
(* encoder then takes the least count of such fragments.                   *)
(*                                                                         *)
(* A binary search needs an order: what fits must stay fitting below.  The *)
(* length of a part does not grow with every fragment length, because the  *)
(* count of fragments loses digits and bytes as they grow; but it never    *)
(* falls, as long as the count fits 16 bits.  Fragments longer by four     *)
(* bytes or more cost at least what the count can lose in all; fragments   *)
(* longer by less than four have a count too close to lose more than one   *)
(* digit or one byte.                                                      *)
(***************************************************************************)
EXTENDS FountainEncoder, FitFragment, FountainStream_proofs

\* What an encoder keeps between calls.
Built ==
  /\ stream # NoStream =>
       /\ source \in Messages /\ options \in Options
       /\ NewError(source, options) = "none"
       /\ stream = EncoderStream(source, options)
  /\ sequence \in 0 .. U32Max
  /\ result = "Some" =>
       /\ stream # NoStream /\ sequence # 0
       /\ output = PartAt(source, stream, sequence)

-----------------------------------------------------------------------------
(* The partition *)

ByMin(length, min) == IF length \div min = 0 THEN 1 ELSE length \div min

\* The count fragment_length divides by.
Count(length, max, min) ==
  IF DivCeil(length, max) < ByMin(length, min) THEN DivCeil(length, max)
  ELSE ByMin(length, min)

\* The fragment length is the message divided by a count of at least one.
LEMMA LengthOfCount ==
  ASSUME NEW length \in Nat \ {0}, NEW max \in Nat \ {0}, NEW min \in Nat \ {0}
  PROVE  /\ ByMin(length, min) \in Nat \ {0}
         /\ ByMin(length, min) = Max({1, length \div min})
         /\ DivCeil(length, max) \in Nat \ {0}
         /\ Count(length, max, min) \in Nat \ {0}
         /\ FragmentLength(length, max, min) = DivCeil(length, Count(length, max, min))
         /\ FragmentLength(length, max, min) \in Nat \ {0}
<1>1. length \div min \in Nat
  BY DivisionSplits
<1>2. DivCeil(length, max) \in Nat \ {0}
  BY CeilReaches
<1>3. ByMin(length, min) \in Nat \ {0}
  BY <1>1 DEF ByMin
<1>4. Max({1, length \div min}) = ByMin(length, min)
  <2> DEFINE x == length \div min
  <2> HIDE DEF x
  <2>1. x \in Nat => Max({1, x}) = IF x = 0 THEN 1 ELSE x
    BY DEF Max
  <2>2. QED
    BY <1>1, <2>1 DEF x, ByMin
<1>5. Count(length, max, min) \in Nat \ {0}
  BY <1>2, <1>3 DEF Count
<1>6. FragmentLength(length, max, min) = DivCeil(length, Count(length, max, min))
  BY DEF FragmentLength, Count, ByMin
<1>7. QED
  BY <1>2, <1>3, <1>4, <1>5, <1>6, CeilReaches

\* The fragments cover the message with less than one of them to spare, and
\* are no more than the count that was aimed at.
LEMMA StreamFits ==
  ASSUME NEW m \in Messages, NEW o \in Options, NewError(m, o) = "none"
  PROVE  LET s == EncoderStream(m, o)
         IN  /\ m.length \in Nat \ {0} /\ o.max \in Nat \ {0} /\ o.min \in Nat \ {0}
             /\ o.first \in 0 .. U32Max
             /\ s.message_length = m.length
             /\ s.fragment_len = FragmentLength(m.length, o.max, o.min)
             /\ s.fragment_len \in Nat \ {0} /\ s.sequence_count \in Nat \ {0}
             /\ s.sequence_count * s.fragment_len \in Nat
             /\ s.sequence_count * s.fragment_len >= m.length
             /\ s.sequence_count * s.fragment_len < m.length + s.fragment_len
             /\ s.sequence_count <= Count(m.length, o.max, o.min)
<1> DEFINE length == m.length
           len == FragmentLength(length, o.max, o.min)
           count == Count(length, o.max, o.min)
           k == DivCeil(length, len)
<1>1. /\ length \in Nat \ {0} /\ o.max \in Nat \ {0} /\ o.min \in Nat \ {0}
      /\ o.first \in 0 .. U32Max
  BY EncoderAssumption DEF ConstantsTyped, NewError
<1>2. count \in Nat \ {0} /\ len = DivCeil(length, count) /\ len \in Nat \ {0}
  BY <1>1, LengthOfCount
<1>3. EncoderStream(m, o) = [sequence_count |-> k, message_length |-> length,
                             checksum |-> Crc32(m.length, m.bytes), fragment_len |-> len]
  BY <1>1, <1>2, PaddedCount DEF EncoderStream
<1> HIDE DEF length, len, count, k
<1>4. /\ k \in Nat \ {0} /\ k * len \in Nat /\ k * len >= length
      /\ k * len < length + len
  <2>1. /\ k \in Nat \ {0} /\ k * len \in Nat /\ k * len >= length
        /\ (k - 1) * len \in Nat /\ (k - 1) * len < length
        /\ k * len = (k - 1) * len + len
    BY <1>1, <1>2, CeilReaches DEF k
  <2>2. QED
    BY <1>1, <1>2, <2>1
<1>5. k <= count
  <2>1. len * count \in Nat /\ len * count >= length
    BY <1>1, <1>2, CeilReaches
  <2>2. count * len = len * count
    BY <1>2
  <2>3. QED
    BY <1>1, <1>2, <2>1, <2>2, CeilLeast DEF k
<1>6. QED
  BY <1>1, <1>2, <1>3, <1>4, <1>5 DEF length, len, count

\* The closed form is the result of the search.
LEMMA SearchedLength ==
  ASSUME NEW length \in Nat \ {0}, NEW max \in Nat \ {0}, NEW min \in Nat \ {0}
  PROVE  FragmentLength(length, max, min) = Nominal(length, max, min)
<1> DEFINE most == ByMin(length, min)
           least == DivCeil(length, max)
           fits == {n \in 1 .. most : DivCeil(length, n) <= max}
<1>1. /\ most \in Nat \ {0} /\ most = Max({1, length \div min})
      /\ least \in Nat \ {0}
      /\ FragmentLength(length, max, min) = DivCeil(length, Count(length, max, min))
  BY LengthOfCount
<1>2. ASSUME NEW n \in 1 .. most PROVE DivCeil(length, n) <= max <=> least <= n
  <2>1. n \in Nat \ {0}
    BY <1>1
  <2>2. DivCeil(length, n) <= max <=> max * n >= length
    BY <2>1, CeilLeast
  <2>3. least <= n <=> n * max >= length
    BY <2>1, CeilLeast
  <2>4. max * n = n * max
    BY <2>1
  <2>5. QED
    BY <2>2, <2>3, <2>4
<1>3. Count(length, max, min) = IF least < most THEN least ELSE most
  BY DEF Count
<1>4. Nominal(length, max, min) = DivCeil(length, IF fits = {} THEN most ELSE Min(fits))
  BY <1>1 DEF Nominal
<1>5. fits = {n \in 1 .. most : least <= n}
  BY <1>2
<1> HIDE DEF fits, most, least
<1>6. CASE least <= most
  <2>1. least \in fits /\ \A n \in fits : least <= n
    BY <1>1, <1>5, <1>6
  <2>2. fits \in SUBSET Nat /\ fits # {}
    BY <1>1, <1>5, <2>1
  <2>3. Min(fits) \in fits /\ \A n \in fits : Min(fits) <= n
    BY <2>2, MinIsLeast
  <2>4. Min(fits) = least
    <3>1. Min(fits) \in Nat
      BY <2>2, <2>3
    <3>2. QED
      BY <1>1, <2>1, <2>3, <3>1
  <2>5. (IF least < most THEN least ELSE most) = least
    BY <1>1, <1>6
  <2>6. QED
    BY <1>1, <1>3, <1>4, <2>2, <2>4, <2>5
<1>7. CASE ~(least <= most)
  <2>1. fits = {}
    BY <1>1, <1>5, <1>7
  <2>2. (IF least < most THEN least ELSE most) = most
    BY <1>1, <1>7
  <2>3. QED
    BY <1>1, <1>3, <1>4, <2>1, <2>2
<1>8. QED
  BY <1>6, <1>7

-----------------------------------------------------------------------------
(* The encoder *)

\* A stream that was built is one.
LEMMA StreamIsBuilt ==
  ASSUME NEW m \in Messages, NEW o \in Options, NewError(m, o) = "none"
  PROVE  EncoderStream(m, o) # NoStream
<1>1. EncoderStream(m, o).message_length # 0
  BY StreamFits
<1>2. QED
  BY <1>1 DEF NoStream

\* Before the encoder is built.
LEMMA InitBuilt == Init => Built
BY EncoderAssumption DEF ConstantsTyped, Init, Built

\* Calls keep what was built.
LEMMA NextBuilt == Built /\ [Next]_vars => Built'
<1> SUFFICES ASSUME Built, [Next]_vars PROVE Built'
  OBVIOUS
<1>1. ASSUME NEW m \in Messages, NEW o \in Options, RefuseNew(m, o)
      PROVE  Built'
  BY <1>1 DEF RefuseNew, NewError, Built
<1>2. ASSUME NEW m \in Messages, NEW o \in Options, New(m, o)
      PROVE  Built'
  BY <1>2, StreamFits DEF New, Built
<1>3. CASE NextPart
  BY <1>3, EncoderAssumption DEF ConstantsTyped, NextPart, Built
<1>4. CASE End
  BY <1>4 DEF End, Built
<1>5. CASE UNCHANGED vars
  BY <1>5 DEF vars, Built
<1>6. QED
  BY <1>1, <1>2, <1>3, <1>4, <1>5 DEF Next

\* What was built stays.
THEOREM EncoderInvariance == Spec => []Built
BY InitBuilt, NextBuilt, PTL DEF Spec

\* The bytes of an XOR of fragments are among those of a fragment.
LEMMA MixWithin ==
  ASSUME NEW m \in Messages, NEW o \in Options, NewError(m, o) = "none",
         NEW n \in 1 .. U32Max
  PROVE  LET s == EncoderStream(m, o)
         IN  Mix(m, s, n) \subseteq 0 .. s.fragment_len - 1
<1> DEFINE s == EncoderStream(m, o)
           chosen == Choose(n, s.sequence_count, s.checksum)
<1>1. s.sequence_count \in Nat \ {0}
  BY StreamFits
<1>2. ASSUME n > s.sequence_count
      PROVE  Mixed(n, s.sequence_count, s.checksum) \subseteq Columns(s)
  <2>1. n \in s.sequence_count + 1 .. U32Max
    BY <1>1, <1>2
  <2>2. QED
    BY <2>1, ShuffleAssumption DEF ShufflePicks
<1> HIDE DEF s
<1>3. chosen \subseteq Columns(s)
  <2>1. CASE n <= s.sequence_count
    BY <1>1, <2>1 DEF Choose, Columns
  <2>2. CASE ~(n <= s.sequence_count)
    <3>1. n > s.sequence_count
      BY <1>1, <2>2
    <3>2. QED
      BY <1>2, <2>2, <3>1 DEF Choose
  <2>3. QED
    BY <2>1, <2>2
<1> HIDE DEF chosen
<1>4. \A c \in Columns(s) : Fragments(m, s)[c] \subseteq 0 .. s.fragment_len - 1
  BY DEF Fragments
<1>5. Combine(Fragments(m, s), chosen) \subseteq 0 .. s.fragment_len - 1
  BY <1>3, <1>4 DEF Combine
<1>6. QED
  BY <1>5 DEF Mix, s, chosen

\* The part of a sequence number passes Part::new, states the stream it is
\* of, and is an XOR of the message's fragments.
LEMMA EmittedIsPart ==
  ASSUME NEW m \in Messages, NEW o \in Options, NewError(m, o) = "none",
         NEW n \in 1 .. U32Max
  PROVE  LET s == EncoderStream(m, o)
             p == PartAt(m, s, n)
         IN  /\ p \in PartFields /\ PartNew(p)
             /\ p.data \subseteq 0 .. p.data_len - 1
             /\ p.sequence = n /\ StreamOf(p) = s /\ Honest(p, m)
             /\ n > s.sequence_count =>
                  /\ Mixed(n, s.sequence_count, s.checksum)
                       \subseteq 0 .. s.sequence_count - 1
                  /\ Mixed(n, s.sequence_count, s.checksum) # {}
<1> DEFINE s == EncoderStream(m, o)
           p == PartAt(m, s, n)
<1>1. /\ s.message_length = m.length /\ m.length \in Nat \ {0}
      /\ s.fragment_len \in Nat \ {0} /\ s.sequence_count \in Nat \ {0}
      /\ s.sequence_count * s.fragment_len \in Nat
      /\ s.sequence_count * s.fragment_len >= m.length
      /\ s.sequence_count * s.fragment_len < m.length + s.fragment_len
  BY StreamFits
<1>2. s = [sequence_count |-> s.sequence_count, message_length |-> s.message_length,
           checksum |-> s.checksum, fragment_len |-> s.fragment_len]
  BY DEF EncoderStream
<1>3. s.checksum = Crc32(m.length, m.bytes) /\ s.checksum \in Nat
  BY EncoderAssumption DEF EncoderStream, ConstantsTyped
<1>4. Mix(m, s, n) \subseteq 0 .. s.fragment_len - 1
  BY MixWithin
<1>5. n > s.sequence_count =>
        /\ Mixed(n, s.sequence_count, s.checksum) \subseteq Columns(s)
        /\ Mixed(n, s.sequence_count, s.checksum) # {}
  <2>1. ASSUME n > s.sequence_count PROVE n \in s.sequence_count + 1 .. U32Max
    BY <1>1, <2>1, EncoderAssumption DEF ConstantsTyped
  <2>2. QED
    BY <2>1, ShuffleAssumption DEF ShufflePicks
<1> HIDE DEF s
<1>6. /\ p.sequence = n /\ p.sequence_count = s.sequence_count
      /\ p.message_length = s.message_length /\ p.checksum = s.checksum
      /\ p.data_len = s.fragment_len /\ p.data = Mix(m, s, n)
  BY DEF PartAt
<1>7. p \in PartFields
  <2>1. n \in Nat
    BY EncoderAssumption DEF ConstantsTyped
  <2>2. Mix(m, s, n) \in SUBSET Nat
    BY <1>1, <1>4
  <2>3. QED
    BY <1>1, <1>3, <2>1, <2>2 DEF PartAt, PartFields
<1>8. StreamOf(p) = s
  BY <1>2, <1>6 DEF StreamOf
<1> HIDE DEF p
<1>9. PartNew(p)
  BY <1>1, <1>6, EncoderAssumption DEF PartNew, ConstantsTyped
<1>10. Honest(p, m)
  <2>1. Indexes(p) = Choose(n, s.sequence_count, s.checksum)
    BY <1>6 DEF Indexes
  <2>2. p.data = Combine(Fragments(m, StreamOf(p)), Indexes(p))
    BY <1>6, <1>8, <2>1 DEF Mix
  <2>3. QED
    BY <1>1, <1>3, <1>6, <2>2 DEF Honest
<1>11. p.data \subseteq 0 .. p.data_len - 1
  BY <1>4, <1>6
<1>12. QED
  BY <1>5, <1>6, <1>7, <1>8, <1>9, <1>10, <1>11 DEF Columns, s, p

-----------------------------------------------------------------------------
(* The theorems *)

\* Every part an encoder emits passes the checks of Part::new, which it skips.
THEOREM EmittedPartsPass == Spec => []EmitsValidParts
<1>1. Built => EmitsValidParts
  <2> SUFFICES ASSUME Built, result = "Some"
               PROVE  PartNew(output) /\ output.data \subseteq 0 .. output.data_len - 1
    BY DEF EmitsValidParts
  <2>1. /\ source \in Messages /\ options \in Options
        /\ NewError(source, options) = "none"
        /\ stream = EncoderStream(source, options)
        /\ sequence \in 1 .. U32Max
        /\ output = PartAt(source, stream, sequence)
    BY EncoderAssumption DEF ConstantsTyped, Built
  <2>2. QED
    BY <2>1, EmittedIsPart
<1>2. QED
  BY <1>1, EncoderInvariance, PTL

\* The fragment length is that of the linear search, and exceeds `max` only
\* when `min` leaves no count that would fit.
THEOREM LengthIsNominal == Spec => []PartitionIsNominal
<1>1. Built => PartitionIsNominal
  <2> SUFFICES ASSUME Built, stream # NoStream
               PROVE  PartitionIsNominal
    BY DEF PartitionIsNominal
  <2> DEFINE length == source.length
             max == options.max
             min == options.min
             len == FragmentLength(length, max, min)
  <2>1. /\ length \in Nat \ {0} /\ max \in Nat \ {0} /\ min \in Nat \ {0}
        /\ stream.message_length = length /\ stream.fragment_len = len
    BY StreamFits DEF Built
  <2>2. len = Nominal(length, max, min)
    BY <2>1, SearchedLength
  <2>3. ASSUME len > max PROVE length \div min < DivCeil(length, max)
    <3> HIDE DEF length, max, min, len
    <3>1. /\ ByMin(length, min) \in Nat \ {0} /\ DivCeil(length, max) \in Nat \ {0}
          /\ len = DivCeil(length, Count(length, max, min)) /\ len \in Nat \ {0}
      <4>1. length \in Nat \ {0} /\ max \in Nat \ {0} /\ min \in Nat \ {0}
        BY <2>1
      <4>2. ByMin(length, min) \in Nat \ {0}
        BY <4>1, LengthOfCount
      <4>3. DivCeil(length, max) \in Nat \ {0}
        BY <4>1, LengthOfCount
      <4>4. FragmentLength(length, max, min) \in Nat \ {0}
        BY <4>1, LengthOfCount
      <4>5. FragmentLength(length, max, min) = DivCeil(length, Count(length, max, min))
        BY <4>1, LengthOfCount
      <4>6. QED
        BY <4>2, <4>3, <4>4, <4>5 DEF len
    <3>2. CASE DivCeil(length, max) <= ByMin(length, min)
      <4>1. Count(length, max, min) = DivCeil(length, max)
        BY <3>1, <3>2 DEF Count
      <4>2. DivCeil(length, max) * max >= length
        BY <2>1, CeilReaches
      <4>3. max * DivCeil(length, max) >= length
        BY <2>1, <3>1, <4>2
      <4>4. DivCeil(length, DivCeil(length, max)) <= max
        BY <2>1, <3>1, <4>3, CeilLeast
      <4>5. QED
        BY <2>1, <2>3, <3>1, <4>1, <4>4
    <3>3. CASE ByMin(length, min) < DivCeil(length, max)
      BY <2>1, <3>1, <3>3 DEF ByMin
    <3>4. QED
      BY <3>1, <3>2, <3>3
  <2> HIDE DEF len
  <2>4. QED
    BY <2>1, <2>2, <2>3 DEF PartitionIsNominal
<1>2. QED
  BY <1>1, EncoderInvariance, PTL

\* Joined, the fragments are the message and less than one fragment of
\* padding; `min` caps their number.
THEOREM NothingIsLost == Spec => []PartitionLosesNothing
<1>1. Built => PartitionLosesNothing
  <2> SUFFICES ASSUME Built, stream # NoStream
               PROVE  PartitionLosesNothing
    BY DEF PartitionLosesNothing
  <2> DEFINE k == stream.sequence_count
             n == stream.fragment_len
  <2>1. /\ source.length \in Nat \ {0} /\ stream.message_length = source.length
        /\ source.bytes \subseteq 0 .. source.length - 1
        /\ options.max \in Nat \ {0} /\ options.min \in Nat \ {0}
        /\ n \in Nat \ {0} /\ k \in Nat \ {0}
        /\ k * n \in Nat /\ k * n >= source.length /\ k * n < source.length + n
        /\ k <= Count(source.length, options.max, options.min)
    BY StreamFits, EncoderAssumption DEF ConstantsTyped, Built
  <2>2. Concat(stream, Fragments(source, stream)) = source.bytes
    BY <2>1, FragmentsJoin
  <2>3. k * n - stream.message_length \in 0 .. n - 1
    BY <2>1
  <2>4. k <= Max({1, stream.message_length \div options.min})
    <3>1. /\ ByMin(source.length, options.min) \in Nat \ {0}
          /\ ByMin(source.length, options.min)
               = Max({1, source.length \div options.min})
          /\ DivCeil(source.length, options.max) \in Nat \ {0}
      BY <2>1, LengthOfCount
    <3>2. Count(source.length, options.max, options.min)
            <= ByMin(source.length, options.min)
      BY <3>1 DEF Count
    <3>3. Count(source.length, options.max, options.min) \in Nat
      BY <2>1, LengthOfCount
    <3>4. k <= ByMin(source.length, options.min)
      BY <2>1, <3>1, <3>2, <3>3
    <3>5. QED
      BY <2>1, <3>1, <3>4
  <2> HIDE DEF k, n
  <2>5. QED
    BY <2>2, <2>3, <2>4 DEF PartitionLosesNothing, k, n
<1>2. QED
  BY <1>1, EncoderInvariance, PTL
-----------------------------------------------------------------------------
(* The width of a number *)

\* As many numbers as the last one says.
LEMMA CountUpTo ==
  ASSUME NEW d \in Nat
  PROVE  Cardinality(1 .. d) = d
<1>1. 1 \in Int /\ d \in Int
  OBVIOUS
<1>2. /\ IsFiniteSet(1 .. d)
      /\ Cardinality(1 .. d) = IF 1 > d THEN 0 ELSE d - 1 + 1
  BY <1>1, FS_Interval
<1>3. QED
  BY <1>2

\* Digits of the counts a search can meet.
LEMMA DigitsAre ==
  ASSUME NEW n \in Nat \ {0}, n <= 65535
  PROVE  /\ n < 10 => Digits(n) = 1
         /\ 10 <= n /\ n < 100 => Digits(n) = 2
         /\ 100 <= n /\ n < 1000 => Digits(n) = 3
         /\ 1000 <= n /\ n < 10000 => Digits(n) = 4
         /\ 10000 <= n => Digits(n) = 5
<1> DEFINE reached == {k \in 1 .. 9 : n >= PowersOfTen[k]}
<1>1. ASSUME NEW d \in 0 .. 9, reached = 1 .. d
      PROVE  Digits(n) = d + 1
  <2>1. d \in Nat
    OBVIOUS
  <2>2. Cardinality(1 .. d) = d
    BY <2>1, CountUpTo
  <2> HIDE DEF reached
  <2>3. Cardinality(reached) = d
    BY <1>1, <2>2
  <2>4. Digits(n) = 1 + Cardinality(reached)
    BY DEF Digits, reached
  <2>5. QED
    BY <2>3, <2>4
<1>2. \A k \in 1 .. 9 :
        PowersOfTen[k] = IF k = 1 THEN 10 ELSE IF k = 2 THEN 100 ELSE IF k = 3 THEN 1000
                         ELSE IF k = 4 THEN 10000 ELSE IF k = 5 THEN 100000
                         ELSE IF k = 6 THEN 1000000 ELSE IF k = 7 THEN 10000000
                         ELSE IF k = 8 THEN 100000000 ELSE 1000000000
  <2>1. \A k \in 1 .. 9 : k \in {1, 2, 3, 4, 5, 6, 7, 8, 9}
    OBVIOUS
  <2>2. QED
    BY <2>1 DEF PowersOfTen
<1> HIDE DEF reached
<1>3. CASE n < 10
  <2>1. reached = 1 .. 0
    BY <1>2, <1>3 DEF reached
  <2>2. Digits(n) = 1
    BY <1>1, <2>1
  <2>3. QED
    BY <1>3, <2>2
<1>4. CASE 10 <= n /\ n < 100
  <2>1. reached = 1 .. 1
    BY <1>2, <1>4 DEF reached
  <2>2. Digits(n) = 2
    BY <1>1, <2>1
  <2>3. QED
    BY <1>4, <2>2
<1>5. CASE 100 <= n /\ n < 1000
  <2>1. reached = 1 .. 2
    BY <1>2, <1>5 DEF reached
  <2>2. Digits(n) = 3
    BY <1>1, <2>1
  <2>3. QED
    BY <1>5, <2>2
<1>6. CASE 1000 <= n /\ n < 10000
  <2>1. reached = 1 .. 3
    BY <1>2, <1>6 DEF reached
  <2>2. Digits(n) = 4
    BY <1>1, <2>1
  <2>3. QED
    BY <1>6, <2>2
<1>7. CASE 10000 <= n
  <2>1. /\ \A k \in 1 .. 4 : PowersOfTen[k] <= 10000
        /\ \A k \in 5 .. 9 : PowersOfTen[k] >= 100000
    BY <1>2
  <2>2. reached = 1 .. 4
    <3>1. ASSUME NEW k \in 1 .. 9 PROVE k \in 1 .. 4 \/ k \in 5 .. 9
      OBVIOUS
    <3>2. ASSUME NEW k \in 1 .. 9 PROVE n >= PowersOfTen[k] <=> k \in 1 .. 4
      BY <1>2, <1>7, <2>1, <3>1
    <3>3. QED
      BY <3>2 DEF reached
  <2>3. Digits(n) = 5
    BY <1>1, <2>2
  <2>4. QED
    BY <1>7, <2>3
<1>8. QED
  BY <1>3, <1>4, <1>5, <1>6, <1>7

\* The characters a count costs: its digits, and its CBOR head in bytewords.
CountCost(n) == Digits(n) + 2 * HeadSize(n)

\* That cost, of every count up to 65535: it never falls as counts grow.
LEMMA CountCostIs ==
  ASSUME NEW n \in Nat \ {0}, n <= 65535
  PROVE  /\ n < 10 => CountCost(n) = 3
         /\ 10 <= n /\ n < 24 => CountCost(n) = 4
         /\ 24 <= n /\ n < 100 => CountCost(n) = 6
         /\ 100 <= n /\ n < 256 => CountCost(n) = 7
         /\ 256 <= n /\ n < 1000 => CountCost(n) = 9
         /\ 1000 <= n /\ n < 10000 => CountCost(n) = 10
         /\ 10000 <= n => CountCost(n) = 11
<1>1. /\ n < 24 => HeadSize(n) = 1
      /\ 24 <= n /\ n < 256 => HeadSize(n) = 2
      /\ 256 <= n => HeadSize(n) = 3
  BY DEF HeadSize
<1>2. CountCost(n) = Digits(n) + 2 * HeadSize(n)
  BY DEF CountCost
<1>3. n \in Nat
  OBVIOUS
<1>4. QED
  BY <1>1, <1>2, <1>3, DigitsAre

\* A count loses 8 characters in all, and 2 when it shrinks by less than a third.
LEMMA CountLoses ==
  ASSUME NEW m \in Nat \ {0}, NEW n \in Nat \ {0}, m <= 65535, n <= 65535
  PROVE  /\ CountCost(m) \in Nat /\ CountCost(n) \in Nat
         /\ CountCost(m) <= CountCost(n) + 8
         /\ 10 * m < 13 * n + 10 => CountCost(m) <= CountCost(n) + 2
<1> DEFINE x == CountCost(m)
           y == CountCost(n)
<1>1. /\ m < 10 => x = 3
      /\ 10 <= m /\ m < 24 => x = 4
      /\ 24 <= m /\ m < 100 => x = 6
      /\ 100 <= m /\ m < 256 => x = 7
      /\ 256 <= m /\ m < 1000 => x = 9
      /\ 1000 <= m /\ m < 10000 => x = 10
      /\ 10000 <= m => x = 11
  BY CountCostIs
<1>2. /\ n < 10 => y = 3
      /\ 10 <= n /\ n < 24 => y = 4
      /\ 24 <= n /\ n < 100 => y = 6
      /\ 100 <= n /\ n < 256 => y = 7
      /\ 256 <= n /\ n < 1000 => y = 9
      /\ 1000 <= n /\ n < 10000 => y = 10
      /\ 10000 <= n => y = 11
  BY CountCostIs
<1> HIDE DEF x, y
<1>3. x \in Nat /\ y \in Nat
  BY <1>1, <1>2
<1>4. x <= y + 8 /\ (10 * m < 13 * n + 10 => x <= y + 2)
  BY <1>1, <1>2, <1>3
<1>5. QED
  BY <1>3, <1>4 DEF x, y

-----------------------------------------------------------------------------
(* The fragments of a payload *)

\* Fragments do not shrink as the length asked for grows.
LEMMA FragmentsGrow ==
  ASSUME NEW length \in Nat \ {0}, NEW a \in Nat \ {0}, NEW b \in Nat \ {0}, a <= b
  PROVE  /\ FragmentLength(length, a, MinFragmentLen) \in Nat \ {0}
         /\ FragmentLength(length, b, MinFragmentLen) \in Nat \ {0}
         /\ FragmentLength(length, a, MinFragmentLen) <= FragmentLength(length, b, MinFragmentLen)
<1> DEFINE byMin == IF length \div 10 = 0 THEN 1 ELSE length \div 10
           na == IF DivCeil(length, a) < byMin THEN DivCeil(length, a) ELSE byMin
           nb == IF DivCeil(length, b) < byMin THEN DivCeil(length, b) ELSE byMin
<1>1. byMin \in Nat \ {0}
  <2>1. length \div 10 \in Nat
    OBVIOUS
  <2>2. QED
    BY <2>1
<1>2. /\ FragmentLength(length, a, MinFragmentLen) = DivCeil(length, na)
      /\ FragmentLength(length, b, MinFragmentLen) = DivCeil(length, nb)
  BY DEF FragmentLength, MinFragmentLen
<1>3. /\ DivCeil(length, a) \in Nat \ {0} /\ DivCeil(length, b) \in Nat \ {0}
      /\ DivCeil(length, b) <= DivCeil(length, a)
  BY CeilReaches, CeilShrinks
<1> HIDE DEF byMin
<1>4. na \in Nat \ {0} /\ nb \in Nat \ {0} /\ nb <= na
  BY <1>1, <1>3
<1> HIDE DEF na, nb
<1>5. DivCeil(length, na) <= DivCeil(length, nb)
  BY <1>4, CeilShrinks
<1>6. DivCeil(length, na) \in Nat \ {0} /\ DivCeil(length, nb) \in Nat \ {0}
  BY <1>4, CeilReaches
<1>7. QED
  BY <1>2, <1>5, <1>6

\* Fragments shorter than the payload have at least the minimum length, and
\* are no more than it allows.
LEMMA FragmentsBounded ==
  ASSUME NEW length \in Nat \ {0}, NEW max \in Nat \ {0},
         FragmentLength(length, max, MinFragmentLen) < length
  PROVE  LET len == FragmentLength(length, max, MinFragmentLen)
         IN  /\ len \in Nat /\ len >= 10
             /\ DivCeil(length, len) \in 2 .. length \div MinFragmentLen
<1> DEFINE byMin == IF length \div 10 = 0 THEN 1 ELSE length \div 10
           n == IF DivCeil(length, max) < byMin THEN DivCeil(length, max) ELSE byMin
           len == FragmentLength(length, max, MinFragmentLen)
<1>1. PICK q \in Nat : \E r \in 0 .. 9 : length = q * 10 + r /\ length \div 10 = q
  <2>1. 10 \in Nat \ {0}
    OBVIOUS
  <2>2. \E q \in Nat : \E r \in 0 .. 10 - 1 :
          length = q * 10 + r /\ length \div 10 = q /\ length % 10 = r
    BY <2>1, DivisionSplits
  <2>3. QED
    BY <2>2
<1>2. byMin = IF q = 0 THEN 1 ELSE q
  BY <1>1
<1>3. len = DivCeil(length, n)
  BY DEF FragmentLength, MinFragmentLen
<1>4. DivCeil(length, max) \in Nat \ {0}
  BY CeilReaches
<1> HIDE DEF byMin
<1>5. n \in Nat \ {0} /\ n <= byMin
  BY <1>2, <1>4
<1> HIDE DEF n
<1>6. len \in Nat \ {0} /\ len * n \in Nat /\ len * n >= length
  BY <1>3, <1>5, CeilReaches
<1>7. n # 1
  BY <1>3, <1>6 DEF DivCeil
<1>8. n <= q
  BY <1>2, <1>5, <1>7
<1>9. len >= 10
  <2>1. SUFFICES ASSUME len <= 9 PROVE FALSE
    BY <1>6
  <2>2. len * n <= 9 * n
    BY <1>5, <1>6, <2>1, ProductGrows
  <2>3. 9 * n < 10 * n /\ 10 * n <= length
    BY <1>1, <1>5, <1>8
  <2>4. QED
    BY <1>5, <1>6, <2>2, <2>3
<1>10. DivCeil(length, len) <= n
  <2>1. n * len >= length
    BY <1>5, <1>6
  <2>2. QED
    BY <1>5, <1>6, <2>1, CeilLeast
<1>11. DivCeil(length, len) \in Nat \ {0} /\ DivCeil(length, len) * len >= length
  BY <1>6, CeilReaches
<1>12. DivCeil(length, len) # 1
  BY <1>6, <1>11
<1>13. length \div MinFragmentLen = q
  BY <1>1 DEF MinFragmentLen
<1> HIDE DEF len
<1>14. DivCeil(length, len) \in 2 .. q
  BY <1>5, <1>8, <1>10, <1>11, <1>12
<1>15. QED
  BY <1>6, <1>9, <1>13, <1>14 DEF len

-----------------------------------------------------------------------------
(* The length of a part *)

\* A CBOR head does not shrink as its argument grows.
LEMMA HeadsGrow ==
  ASSUME NEW m \in Nat, NEW n \in Nat, m <= n
  PROVE  HeadSize(m) \in Nat /\ HeadSize(n) \in Nat /\ HeadSize(m) <= HeadSize(n)
BY DEF HeadSize

\* Fragments that differ by less than four bytes have counts that are close.
LEMMA CountsClose ==
  ASSUME NEW length \in Nat \ {0}, NEW a \in Nat, NEW b \in Nat,
         a >= 10, a < b, b <= a + 3
  PROVE  10 * DivCeil(length, a) < 13 * DivCeil(length, b) + 10
<1> DEFINE m == DivCeil(length, a)
           n == DivCeil(length, b)
           d == b - a
<1>1. /\ m \in Nat \ {0} /\ n \in Nat \ {0}
      /\ (m - 1) * a < length /\ n * b >= length
  <2>1. a \in Nat \ {0} /\ b \in Nat \ {0}
    OBVIOUS
  <2>2. QED
    BY <2>1, CeilReaches
<1>2. d \in 1 .. 3 /\ b = a + d
  OBVIOUS
<1> HIDE DEF m, n, d
<1>3. ASSUME m <= n PROVE 10 * m < 13 * n + 10
  BY <1>1, <1>3
<1>4. ASSUME m > n PROVE 10 * m < 13 * n + 10
  <2> DEFINE e == m - 1 - n
  <2>1. e \in Nat /\ m - 1 = n + e
    BY <1>1, <1>4
  <2> HIDE DEF e
  <2>2. (n + e) * a = n * a + e * a /\ n * (a + d) = n * a + n * d
    BY <1>1, <1>2, <2>1
  <2>3. e * a \in Int /\ n * d \in Int /\ n * a \in Int /\ length \in Int
    BY <1>1, <1>2, <2>1
  <2>4. e * a < n * d
    BY <1>1, <1>2, <2>1, <2>2, <2>3
  <2>5. 10 * e <= a * e /\ a * e = e * a
    BY <2>1, ProductGrows
  <2>6. d * n <= 3 * n /\ d * n = n * d
    BY <1>1, <1>2, ProductGrows
  <2>7. QED
    BY <1>1, <2>1, <2>3, <2>4, <2>5, <2>6
<1>5. QED
  BY <1>1, <1>3, <1>4 DEF m, n

\* What a part costs beyond its count and its fragment.
Overhead(length) ==
  3 + TypeLen + 1 + Digits(1) + 2
    + 2 * (4 + 1 + HeadSize(1) + HeadSize(length) + HeadSize(Checksum))

\* The length of the first part of several.
LEMMA PartLength ==
  ASSUME NEW length \in Nat \ {0}, NEW max \in Nat \ {0},
         FragmentLength(length, max, MinFragmentLen) < length,
         length \div MinFragmentLen <= 65535
  PROVE  LET len == FragmentLength(length, max, MinFragmentLen)
         IN  /\ Overhead(length) \in Nat
             /\ UrLength(length, max, 1)
                  = Overhead(length) + CountCost(DivCeil(length, len))
                      + 2 * (HeadSize(len) + len)
<1> DEFINE len == FragmentLength(length, max, MinFragmentLen)
           count == (length + Pad(length, len)) \div len
<1>1. /\ len \in Nat /\ len >= 10
      /\ DivCeil(length, len) \in 2 .. length \div MinFragmentLen
  BY FragmentsBounded
<1>2. count = DivCeil(length, len)
  BY <1>1, PaddedCount
<1>3. UrLength(length, max, 1) =
        3 + TypeLen + 1 +
          (IF count = 1 THEN Bytewords(length)
           ELSE Digits(1) + 1 + Digits(count) + 1
                  + Bytewords(PartCborSize(1, count, length, len)))
  BY DEF UrLength
<1> HIDE DEF len, count
<1>4. length \div MinFragmentLen \in Nat
  BY DEF MinFragmentLen
<1>5. count \in Nat /\ count # 1 /\ count # 0 /\ count <= 65535
  BY <1>1, <1>2, <1>4
<1>6. Digits(1) = 1 /\ Digits(count) \in Nat
  BY <1>5, DigitsAre
<1>7. /\ HeadSize(1) \in Nat /\ HeadSize(length) \in Nat /\ HeadSize(Checksum) \in Nat
      /\ HeadSize(len) \in Nat /\ HeadSize(count) \in Nat /\ TypeLen \in Nat
  BY <1>1, <1>5, HeadsGrow, FitAssumption
<1>8. Bytewords(PartCborSize(1, count, length, len)) =
        2 * (1 + HeadSize(1) + HeadSize(count) + HeadSize(length)
               + HeadSize(Checksum) + HeadSize(len) + len + 4)
  BY DEF Bytewords, PartCborSize
<1>9. Overhead(length) \in Nat
  BY <1>6, <1>7 DEF Overhead
<1>10. UrLength(length, max, 1)
         = Overhead(length) + CountCost(count) + 2 * (HeadSize(len) + len)
  BY <1>1, <1>3, <1>5, <1>6, <1>7, <1>8 DEF Overhead, CountCost
<1>11. QED
  BY <1>2, <1>9, <1>10 DEF len

\* A part is no shorter for a larger fragment length, if that one cuts the
\* payload in several fragments, of a count that fits 16 bits.
LEMMA PartsGrow ==
  ASSUME NEW length \in Nat \ {0}, NEW a \in Nat \ {0}, NEW b \in Nat \ {0}, a <= b,
         FragmentLength(length, b, MinFragmentLen) < length,
         length \div MinFragmentLen <= 65535
  PROVE  /\ UrLength(length, a, 1) \in Nat /\ UrLength(length, b, 1) \in Nat
         /\ UrLength(length, a, 1) <= UrLength(length, b, 1)
<1> DEFINE x == FragmentLength(length, a, MinFragmentLen)
           y == FragmentLength(length, b, MinFragmentLen)
           m == DivCeil(length, x)
           n == DivCeil(length, y)
<1>1. x <= y /\ x \in Nat \ {0} /\ y \in Nat \ {0} /\ x < length
  BY FragmentsGrow
<1>2. /\ x >= 10 /\ y >= 10
      /\ m \in 2 .. length \div MinFragmentLen /\ n \in 2 .. length \div MinFragmentLen
  BY <1>1, FragmentsBounded
<1>3. m \in Nat \ {0} /\ n \in Nat \ {0} /\ m <= 65535 /\ n <= 65535
  <2>1. length \div MinFragmentLen \in Nat
    BY DEF MinFragmentLen
  <2>2. QED
    BY <1>2, <2>1
<1>4. /\ Overhead(length) \in Nat
      /\ UrLength(length, a, 1) = Overhead(length) + CountCost(m) + 2 * (HeadSize(x) + x)
      /\ UrLength(length, b, 1) = Overhead(length) + CountCost(n) + 2 * (HeadSize(y) + y)
  BY <1>1, PartLength
<1>5. HeadSize(x) \in Nat /\ HeadSize(y) \in Nat /\ HeadSize(x) <= HeadSize(y)
  BY <1>1, HeadsGrow
<1>6. x < y /\ y <= x + 3 => 10 * m < 13 * n + 10
  BY <1>1, <1>2, CountsClose
<1>7. x = y => m = n
  OBVIOUS
<1> HIDE DEF x, y, m, n
<1>8. /\ CountCost(m) \in Nat /\ CountCost(n) \in Nat
      /\ CountCost(m) <= CountCost(n) + 8
      /\ 10 * m < 13 * n + 10 => CountCost(m) <= CountCost(n) + 2
  BY <1>3, CountLoses
<1>9. CountCost(m) + 2 * x <= CountCost(n) + 2 * y
  <2>1. CASE x = y
    BY <1>1, <1>7, <1>8, <2>1
  <2>2. CASE x < y /\ y <= x + 3
    BY <1>1, <1>6, <1>8, <2>2
  <2>3. CASE x + 3 < y
    BY <1>1, <1>8, <2>3
  <2>4. QED
    BY <1>1, <2>1, <2>2, <2>3
<1>10. QED
  BY <1>1, <1>4, <1>5, <1>8, <1>9

-----------------------------------------------------------------------------
(* The search *)

\* A multi-part length that fits, fits for every smaller length that can be
\* measured.
LEMMA FittingBelow ==
  ASSUME data_len \in Nat \ {0}, max_chars \in Nat,
         data_len \div MinFragmentLen <= 65535,
         NEW a \in Nat, NEW b \in Nat, a <= b,
         Measurable(a), MultiPart(b), Fits(b)
  PROVE  Fits(a)
<1>1. a \in Nat \ {0} /\ b \in Nat \ {0}
  BY DEF Measurable, MinFragmentLen
<1>2. /\ UrLength(data_len, a, 1) \in Nat /\ UrLength(data_len, b, 1) \in Nat
      /\ UrLength(data_len, a, 1) <= UrLength(data_len, b, 1)
  BY <1>1, PartsGrow DEF MultiPart
<1>3. QED
  BY <1>2 DEF Fits, PartLenSlack

\* Below `lo` all is too small to measure, or `best` was the last that fitted;
\* above `hi` no cut in several parts fits.
Below ==
  /\ best # 0 => Fits(best) /\ best = lo - 1
  /\ best = 0 => \A max \in Nat : max < lo => ~Measurable(max)

Above ==
  data_len \div MinFragmentLen <= 65535 =>
    \A max \in 1 .. data_len : max > hi /\ MultiPart(max) => ~Fits(max)

SearchInv ==
  /\ data_len \in Nat \ {0} /\ max_chars \in Nat
  /\ lo \in Nat \ {0} /\ hi \in Nat /\ hi <= data_len /\ best \in Nat
  /\ Below /\ Above
  /\ pc \in {"search", "error", "print"}
  /\ pc # "search" => lo > hi
  /\ pc = "print" => best # 0

\* The search starts below every length that can be measured, and above none
\* that could fit in several parts.
LEMMA InitSearchInv ==
  ASSUME FitInit
  PROVE  SearchInv
<1>1. /\ data_len \in Nat \ {0} /\ max_chars \in Nat
      /\ lo = 1 /\ hi = data_len /\ best = 0 /\ pc = "search"
  BY FitAssumption DEF FitInit
<1>2. Below
  BY <1>1 DEF Below, Measurable, MinFragmentLen
<1>3. Above
  BY <1>1 DEF Above
<1>4. QED
  BY <1>1, <1>2, <1>3 DEF SearchInv

\* What fits does not depend on the search.
LEMMA SameFits ==
  ASSUME UNCHANGED <<data_len, max_chars>>
  PROVE  /\ \A max : Fits(max)' <=> Fits(max)
         /\ \A max : MultiPart(max)' <=> MultiPart(max)
BY DEF Fits, MultiPart

\* A step of the search.
LEMMA ProbeSearchInv ==
  ASSUME SearchInv, Probe
  PROVE  SearchInv'
<1> DEFINE mid == lo + (hi - lo) \div 2
<1>1. /\ pc = "search" /\ lo <= hi
      /\ UNCHANGED <<data_len, max_chars, pc>>
      /\ \/ Fits(mid) /\ best' = mid /\ lo' = mid + 1 /\ hi' = hi
         \/ Measurable(mid) /\ ~Fits(mid) /\ hi' = mid - 1 /\ UNCHANGED <<lo, best>>
         \/ ~Measurable(mid) /\ lo' = mid + 1 /\ UNCHANGED <<hi, best>>
  BY DEF Probe
<1>2. mid \in Nat /\ lo <= mid /\ mid <= hi
  BY <1>1 DEF SearchInv
<1> HIDE DEF mid
<1>3. /\ data_len \in Nat \ {0} /\ max_chars \in Nat
      /\ lo \in Nat \ {0} /\ hi \in Nat /\ hi <= data_len /\ best \in Nat
      /\ Below /\ Above
  BY DEF SearchInv
<1>4. /\ data_len' \in Nat \ {0} /\ max_chars' \in Nat
      /\ lo' \in Nat \ {0} /\ hi' \in Nat /\ hi' <= data_len' /\ best' \in Nat
      /\ pc' = "search"
  BY <1>1, <1>2, <1>3
<1>5. /\ \A max : Fits(max)' <=> Fits(max)
      /\ \A max : MultiPart(max)' <=> MultiPart(max)
  BY <1>1, SameFits
<1>6. CASE Fits(mid) /\ best' = mid /\ lo' = mid + 1 /\ hi' = hi
  <2>1. Fits(best)'
    BY <1>1, <1>6 DEF Fits, Measurable
  <2>2. Below'
    BY <1>2, <1>3, <1>6, <2>1 DEF Below
  <2>3. Above'
    BY <1>1, <1>3, <1>5, <1>6 DEF Above
  <2>4. QED
    BY <1>4, <2>2, <2>3 DEF SearchInv
<1>7. CASE Measurable(mid) /\ ~Fits(mid) /\ hi' = mid - 1 /\ UNCHANGED <<lo, best>>
  <2>1. Below'
    BY <1>3, <1>5, <1>7 DEF Below, Measurable
  <2>2. ASSUME data_len \div MinFragmentLen <= 65535,
               NEW max \in 1 .. data_len, max > mid - 1, MultiPart(max), Fits(max)
        PROVE  FALSE
    <3>1. max \in Nat /\ mid <= max
      BY <1>2, <1>3, <2>2
    <3>2. QED
      BY <1>2, <1>3, <1>7, <2>2, <3>1, FittingBelow
  <2>3. Above'
    BY <1>1, <1>5, <1>7, <2>2 DEF Above
  <2>4. QED
    BY <1>4, <2>1, <2>3 DEF SearchInv
<1>8. CASE ~Measurable(mid) /\ lo' = mid + 1 /\ UNCHANGED <<hi, best>>
  <2>1. \A max \in Nat : max < mid + 1 => ~Measurable(max)
    BY <1>2, <1>8 DEF Measurable, MinFragmentLen
  <2>2. best = 0
    <3>1. SUFFICES ASSUME best # 0 PROVE FALSE
      OBVIOUS
    <3>2. Measurable(best) /\ best = lo - 1
      BY <1>3, <3>1 DEF Below, Fits
    <3>3. QED
      BY <1>2, <1>3, <2>1, <3>2
  <2>3. Below'
    BY <1>8, <2>1, <2>2 DEF Below, Measurable
  <2>4. Above'
    BY <1>1, <1>3, <1>5, <1>8 DEF Above
  <2>5. QED
    BY <1>4, <2>3, <2>4 DEF SearchInv
<1>9. QED
  BY <1>1, <1>6, <1>7, <1>8

\* The other steps leave the search alone.
LEMMA OtherSearchInv ==
  ASSUME SearchInv, EndSearch \/ PrintLine \/ UNCHANGED fitVars
  PROVE  SearchInv'
<1>1. UNCHANGED <<data_len, max_chars, lo, hi, best>>
  BY DEF EndSearch, PrintLine, fitVars
<1>2. /\ pc' \in {"search", "error", "print"}
      /\ pc' # "search" => lo > hi
      /\ pc' = "print" => best # 0
  BY DEF SearchInv, EndSearch, PrintLine, fitVars
<1>3. Below' /\ Above'
  BY <1>1, SameFits DEF SearchInv, Below, Above, Measurable
<1>4. QED
  BY <1>1, <1>2, <1>3 DEF SearchInv

-----------------------------------------------------------------------------
(* What the search returns *)

\* The invariant of the search loop.
THEOREM SearchInvariance == FitSpec => []SearchInv
<1>1. SearchInv /\ [FitNext]_fitVars => SearchInv'
  BY ProbeSearchInv, OtherSearchInv DEF FitNext
<1>2. QED
  BY <1>1, InitSearchInv, PTL DEF FitSpec

\* The fragment length that fit_fragment_len returns has a first part that
\* fits --max-chars with the slack.
THEOREM ReturnedLengthFits == FitSpec => []ResultFits
<1>1. SearchInv => ResultFits
  BY DEF SearchInv, Below, ResultFits
<1>2. QED
  BY <1>1, SearchInvariance, PTL

\* fit_fragment_len misses no larger fragments that cut the payload in several
\* parts and fit: the binary search is right although the length of a part is
\* no sum of growing terms.
THEOREM LargestPartsFound == FitSpec => []MissesNoMultiPart
<1>1. ASSUME SearchInv, pc # "search", data_len \div MinFragmentLen <= 65535,
             NEW max \in 1 .. data_len, MultiPart(max), Fits(max)
      PROVE  FragmentLength(data_len, max, MinFragmentLen)
               <= (IF best = 0 THEN 0 ELSE FragmentLength(data_len, best, MinFragmentLen))
  <2>1. /\ data_len \in Nat \ {0} /\ lo \in Nat \ {0} /\ hi \in Nat /\ best \in Nat
        /\ lo > hi /\ Below /\ Above
    BY <1>1 DEF SearchInv
  <2>2. max \in Nat \ {0} /\ max < lo
    BY <1>1, <2>1 DEF Above
  <2>3. best # 0
    BY <1>1, <2>1, <2>2 DEF Below, Fits
  <2>4. max <= best
    BY <2>1, <2>2, <2>3 DEF Below
  <2>5. QED
    BY <2>1, <2>2, <2>3, <2>4, FragmentsGrow
<1>2. SearchInv => MissesNoMultiPart
  BY <1>1 DEF MissesNoMultiPart
<1>3. QED
  BY <1>2, SearchInvariance, PTL
=============================================================================
