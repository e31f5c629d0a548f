------------------------------ MODULE MCCarousel ----------------------------
(***************************************************************************)
(* Messages of one to three fragments and one that is over the reader's    *)
(* caps, printed as one to three lines or as many as the default gives;    *)
(* readers that take any type or another than the one sent, and that start *)
(* over once.                                                              *)
(***************************************************************************)
EXTENDS Carousel, Partition, TLC

MCCrc32(length, bytes) == (length + SumSet(bytes)) % 4
MCMixed(n, number, checksum) ==
  {c \in 0 .. number - 1 : (c + n + checksum) % 2 = 0} \cup {n % number}

MCMessages ==
  {[length |-> 5, bytes |-> {0, 4}], [length |-> 2, bytes |-> {1}],
   [length |-> 7, bytes |-> {6}]}
MCOptions ==
  {[max |-> 2, min |-> 1, first |-> 0], [max |-> 4, min |-> 1, first |-> 0]}
MCCounts == {1, 2, 3, 9}
MCAcceptLists == {{}, {"seed"}}

Part(m, len, n) ==
  LET s == [sequence_count |-> DivCeil(m.length, len), message_length |-> m.length,
            checksum |-> MCCrc32(m.length, m.bytes), fragment_len |-> len]
      chosen == IF n <= s.sequence_count THEN {n - 1}
                ELSE MCMixed(n, s.sequence_count, s.checksum)
  IN  [sequence |-> n, sequence_count |-> s.sequence_count,
       message_length |-> m.length, checksum |-> s.checksum, data_len |-> len,
       data |-> Combine(Fragments(m, s), chosen)]

MCParts ==
  UNION {{Part(m, FragmentLength(m.length, o.max, o.min), n) : n \in 1 .. U32Max} :
           m \in MCMessages, o \in MCOptions}
=============================================================================
