--------------------------- MODULE MCDecodeCommand --------------------------
(***************************************************************************)
(* Every text of up to four lines made of: the three parts of a            *)
(* two-fragment stream, a part of another stream, of another type, of the  *)
(* wrong size, a damaged one, a single-part message, one that is too long, *)
(* an unreadable and a blank line; with and without --type.                *)
(***************************************************************************)
EXTENDS DecodeCommand, SequencesExt

MCCrc32(length, bytes) == (length + SumSet(bytes)) % 4
MCMixed(sequence, count, checksum) == 0 .. count - 1

Part(src, count, len, n) ==
  LET s == [sequence_count |-> count, message_length |-> src.length,
            checksum |-> MCCrc32(src.length, src.bytes), fragment_len |-> len]
  IN  [sequence |-> n, sequence_count |-> count, message_length |-> src.length,
       checksum |-> s.checksum, data_len |-> len,
       data |-> Combine(Fragments(src, s),
                        IF n <= count THEN {n - 1} ELSE 0 .. count - 1)]

Source == [length |-> 3, bytes |-> {0, 2}]
Other == [length |-> 3, bytes |-> {1}]
MCSources == {Source, Other}

DamagedPart == [Part(Source, 2, 2, 2) EXCEPT !.data = {1}]
MCParts ==
  {Part(Source, 2, 2, n) : n \in 1 .. 3}
    \cup {DamagedPart, Part(Other, 2, 2, 1), Part(Source, 3, 1, 1)}

Frame(type, body) == [head |-> "ok", ur_type |-> type, text |-> "ok", body |-> body]
Multi(p) ==
  [kind |-> "multi", sequence |-> p.sequence, count |-> p.sequence_count, part |-> p]
Single(n) == [kind |-> "single", length |-> n, bytes |-> {}]

MCFrames ==
  {Frame("bytes", Multi(p)) : p \in MCParts}
    \cup {Frame("seed", Multi(Part(Source, 2, 2, 1))), Frame("bytes", Single(2)),
          Frame("seed", Single(4)),
          Frame("bytes", [kind |-> "malformed", error |-> "InvalidBytewords"])}
MCTexts == UNION {[1 .. n -> MCFrames \cup {Blank}] : n \in 0 .. 3}
             \cup [1 .. 4 -> {Frame("bytes", Multi(p)) : p \in {Part(Source, 2, 2, n) : n \in 1 .. 3}}
                               \cup {Frame("seed", Multi(Part(Source, 2, 2, 1))),
                                     Frame("bytes", Multi(Part(Other, 2, 2, 1)))}]
MCTypeArgs == {NoArg, "bytes", "seed", BadToken}
=============================================================================
