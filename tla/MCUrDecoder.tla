----------------------------- MODULE MCUrDecoder ----------------------------
(***************************************************************************)
(* Frames of two types: the parts of a two-fragment stream, a part of      *)
(* another stream, single-part messages within and over the limit, a part  *)
(* under the wrong header, parts over the caps, and one text for each way  *)
(* a frame can be refused before its body is read.                         *)
(***************************************************************************)
EXTENDS UrDecoder, TLC

MCCrc32(length, bytes) == (length + SumSet(bytes)) % 4
MCMixed(sequence, count, checksum) == 0 .. count - 1

Part(src, count, len, n) ==
  LET s == [sequence_count |-> count, message_length |-> src.length,
            checksum |-> MCCrc32(src.length, src.bytes), fragment_len |-> len]
  IN  [sequence |-> n, sequence_count |-> count, message_length |-> src.length,
       checksum |-> s.checksum, data_len |-> len,
       data |-> Combine(Fragments(src, s),
                        IF n <= count THEN {n - 1} ELSE 0 .. count - 1)]

Source == [length |-> 3, bytes |-> {0, 2}]
Other == [length |-> 3, bytes |-> {1}]
MCSources == {Source}

Stream == {Part(Source, 2, 2, n) : n \in 1 .. 3}
DamagedPart == [Part(Source, 2, 2, 2) EXCEPT !.data = {1}]      \* bad padding
DamagedWhole == [Part(Source, 1, 3, 1) EXCEPT !.data = {1}]     \* bad checksum

MCParts ==
  Stream \cup {DamagedPart, DamagedWhole, Part(Other, 2, 2, 1),
               Part(Source, 3, 1, 1), Part(Source, 1, 3, 1)}

Frame(type, body) == [head |-> "ok", ur_type |-> type, text |-> "ok", body |-> body]
Multi(p) ==
  [kind |-> "multi", sequence |-> p.sequence, count |-> p.sequence_count, part |-> p]
Single(n) == [kind |-> "single", length |-> n, bytes |-> {}]
Bad(e) == [kind |-> "malformed", error |-> e]

MCFrames ==
  {Frame("bytes", Multi(p)) : p \in MCParts}
    \cup {Frame("seed", Multi(p)) : p \in {Part(Source, 2, 2, 1), Part(Source, 3, 1, 1)}}
    \cup {Frame("bytes", Single(0)), Frame("seed", Single(3)), Frame("seed", Single(4)),
          Frame("bytes", [Multi(Part(Source, 2, 2, 1)) EXCEPT !.sequence = 2]),
          Frame("bytes", Bad("InvalidBytewords"))}
    \cup {[Frame("bytes", Single(3)) EXCEPT !.head = "InvalidScheme"],
          [Frame("bytes", Single(3)) EXCEPT !.text = "NonAscii"],
          [Frame("bytes", Single(3)) EXCEPT !.text = "UriLength"]}

MCAcceptLists == {{}, {"bytes"}, {"seed"}}
=============================================================================
