----------------------------- MODULE MCFountainParts --------------------------
(***************************************************************************)
(* A stream of three two-byte fragments carrying five bytes, with every    *)
(* index set a part of it can have; parts of the same stream whose data    *)
(* was damaged before they were sealed; parts of other streams; and parts  *)
(* over each cap.  The checksum collides on purpose, so that damaged       *)
(* streams meet every outcome of the completion check.                     *)
(***************************************************************************)
EXTENDS FountainStream, TLC

MCCrc32(length, bytes) == (length + SumSet(bytes)) % 4

MCMixed(sequence, count, checksum) ==
  LET all == 0 .. count - 1
  IN CASE sequence = count + 1 -> IF count > 1 THEN {0, 1} ELSE {0}
       [] sequence = count + 2 -> IF count > 2 THEN {1, 2} ELSE all
       [] sequence = count + 3 -> IF count > 2 THEN {0, 2} ELSE all
       [] OTHER -> all

Source1 == [length |-> 5, bytes |-> {0, 3}]
Source2 == [length |-> 5, bytes |-> {1, 2, 4}]      \* same checksum as Source1

Header(src, count, len) ==
  [sequence_count |-> count, message_length |-> src.length, data_len |-> len,
   checksum |-> MCCrc32(src.length, src.bytes)]

PartOf(src, count, len, sequence) ==
  LET h == Header(src, count, len)
      s == [sequence_count |-> count, message_length |-> src.length,
            checksum |-> h.checksum, fragment_len |-> len]
  IN  [sequence |-> sequence,
       data |-> Combine(Fragments(src, s),
                        IF sequence <= count THEN {sequence - 1}
                        ELSE MCMixed(sequence, count, h.checksum))] @@ h

\* a part whose data differs from what the encoder would send
Damaged(p, bytes) == [p EXCEPT !.data = Xor(p.data, bytes)]

MCSources == {Source1, Source2}

HonestParts == {PartOf(Source1, 3, 2, n) : n \in 1 .. 7}

MCParts ==
  HonestParts
    \cup {PartOf(Source2, 3, 2, 2), PartOf(Source2, 3, 2, 6)}
    \cup {Damaged(PartOf(Source1, 3, 2, 3), {1}), Damaged(PartOf(Source1, 3, 2, 1), {1})}
    \cup {PartOf([length |-> 3, bytes |-> {1}], 2, 2, 1),
          PartOf([length |-> 3, bytes |-> {1}], 2, 2, 3),
          PartOf([length |-> 5, bytes |-> {1}], 3, 2, 1)}
    \cup {PartOf([length |-> 4, bytes |-> {1}], 4, 1, 1),
          PartOf([length |-> 7, bytes |-> {1}], 3, 3, 2),
          PartOf([length |-> 1, bytes |-> {}], 1, 9, 1)}
    \cup {PartOf([length |-> 1, bytes |-> {0}], 1, 2, n) : n \in 1 .. 2}
=============================================================================
