------------------------------- MODULE MCUrText -----------------------------
(***************************************************************************)
(* Parts with values at both sides of every change of width, over a cap    *)
(* and refused by Part::new; each head in every width that can hold its    *)
(* value; the bytes cut short, extended and spoiled under a checksum that  *)
(* is right; and lines with one slip in any place.                         *)
(***************************************************************************)
EXTENDS UrText

\* a table of words over 16 first and 16 last letters
MCWords ==
  [b \in 0 .. 255 |-> <<LowerLetters[b \div 16 + 1], LowerLetters[(b % 16) + 11], "q",
                        LowerLetters[(b % 16) + 1]>>]
MCChecksum(bs) ==
  LET sum[k \in 0 .. Len(bs)] == IF k = 0 THEN 0 ELSE (sum[k - 1] + bs[k]) % 256
      mix[k \in 0 .. Len(bs)] == IF k = 0 THEN 0 ELSE (3 * mix[k - 1] + bs[k]) % 251
  IN  <<Len(bs) % 256, sum[Len(bs)], mix[Len(bs)], 7>>
MCIsDcbor(bs) == bs # <<>> /\ bs[1] < 160

MCLimits == [uri_length |-> 150, fragment_count |-> 20, fragment_length |-> 24]
MCDefaultLimits == [uri_length |-> 160, fragment_count |-> 25, fragment_length |-> 25]

-----------------------------------------------------------------------------
(* Parts *)

P(n, count, length, checksum, len) ==
  [sequence |-> n, sequence_count |-> count, message_length |-> length,
   checksum |-> checksum, data |-> [k \in 1 .. len |-> 133]]

PartsGiven ==
  {P(1, 1, 1, 0, 1), P(23, 3, 5, 24, 2), P(24, 2, 48, 255, 24), P(255, 12, 256, 65535, 23),
   P(65536, 30, 59, 2147483647, 2), P(256, 2, 51, 23, 26), P(5, 22, 43, 0, 2), P(9, 2, 49, 1, 25),
   P(2, 2, 133, 1, 67), P(1, 2, 5, 256, 2), P(1, 3, 3, 1, 2), P(1, 1, 2, 3, 0)}

Holds(n, w) ==
  CASE w = 0 -> n <= 23 [] w = 1 -> n <= 255 [] w = 2 -> n <= 65535 [] OTHER -> TRUE

Values(p) == <<5, p.sequence, p.sequence_count, p.message_length, p.checksum, Len(p.data)>>
ShortestOf(p) == [k \in 1 .. 6 |-> Shortest(Values(p)[k])]

\* all heads shortest but at most two
Widths(p) ==
  {[ShortestOf(p) EXCEPT ![a] = v, ![b] = w] :
     a \in 1 .. 6, b \in 1 .. 6, v \in {0, 1, 2, 4, 8}, w \in {0, 1, 2, 4, 8}}
Fitting(p) == {ws \in Widths(p) : \A k \in 1 .. 6 : Holds(Values(p)[k], ws[k])}

-----------------------------------------------------------------------------
(* Lines *)

Type == <<"b", "-", "1">>
Line(t, style, kind, says) == [text |-> t, style |-> style, kind |-> kind, says |-> says]

Under(p, zeros, cbor) ==
  MultiLine(Type, Decimal(p.sequence, zeros), Decimal(p.sequence_count, zeros), cbor)
\* capitals in every second place
Mixed(t) == [k \in DOMAIN t |-> IF k % 2 = 0 THEN to_ascii_uppercase(t)[k] ELSE t[k]]

WholeParts ==
  UNION {{Line(Under(p, 0, EncodeWith(p, ws)), "minimal", "written", Multi(Type, p)) :
            ws \in Fitting(p)} : p \in PartsGiven}
SpelledParts ==
  UNION {{Line(t, "minimal", "written", Multi(Type, p)) :
            t \in {to_qr_string(PartLine(Type, p)), Mixed(PartLine(Type, p)), Under(p, 1, Encode(p)),
                   Under(p, 12, Encode(p))}} : p \in PartsGiven}

Messages == {<<>>, <<130, 1, 24>>, <<255, 0>>, [k \in 1 .. 66 |-> k], [k \in 1 .. 69 |-> k],
             [k \in 1 .. 75 |-> k]}
SingleLines ==
  UNION {{Line(t, "minimal", "written", Single(Type, m)) :
            t \in {SingleLine(Type, m), to_qr_string(SingleLine(Type, m))}} : m \in Messages}
WordLines ==
  UNION {{Line(t, style, "written", [ok |-> TRUE, data |-> m]) :
            t \in {encode(m, style), to_ascii_uppercase(encode(m, style))}} :
           style \in {"standard", "uri"}, m \in {<<>>, <<130, 1, 24>>}}

\* The bytes of a part, cut short, with a byte after them, or with the head
\* of the array, of a number or of the data made a tag, an indefinite one, a
\* text, an array of four, or a length of 2^32
Wide(m, n) == <<32 * m + 27, 0, 0, 0, 1, 0, 0, 0, n>>
AfterArray == Tail(Encode(P(1, 1, 1, 0, 1)))
SpoiledBytes ==
  UNION {{SubSeq(Encode(p), 1, n) : n \in 0 .. Len(Encode(p)) - 1} \cup {Append(Encode(p), 133)} :
           p \in PartsGiven}
    \cup {h \o AfterArray : h \in {<<32 * 6 + 5>>, <<32 * 4 + 31>>, <<32 * 4 + 4>>, Wide(4, 5)}}
    \cup {<<133>> \o h \o Tail(AfterArray) : h \in {<<33>>, <<28>>, Wide(0, 1)}}
    \cup {<<133>> \o SubSeq(AfterArray, 1, 4) \o h \o <<7>> :
            h \in {<<97>>, <<95>>, <<66>>, Wide(2, 1), Wide(2, 0)}}
Nothing == [ok |-> FALSE]
SpoiledLines == {Line(Under(P(1, 1, 1, 0, 1), 0, b), "minimal", "spoiled", Nothing) : b \in SpoiledBytes}

\* One slip: a character lost, doubled, changed or put in, or two swapped
Characters == {"a", "B", "z", "0", "2", "-", "/", "+", " ", ":", "e acute"}
Slips(t) ==
  {SubSeq(t, 1, k - 1) \o SubSeq(t, k + 1, Len(t)) : k \in DOMAIN t}
  \cup {[t EXCEPT ![k] = c] : k \in DOMAIN t, c \in Characters}
  \cup {SubSeq(t, 1, k) \o <<c>> \o SubSeq(t, k + 1, Len(t)) : k \in 0 .. Len(t), c \in Characters}
  \cup {[t EXCEPT ![k] = t[k + 1], ![k + 1] = t[k]] : k \in 1 .. Len(t) - 1}
SlippedFrom(t, style) == {Line(s, style, "slipped", Nothing) : s \in Slips(t)}

\* the largest index, the one after it, and signs and signs alone
Indices == {Decimal(U32Max, 0), <<"2", "1", "4", "7", "4", "8", "3", "6", "4", "8">>,
            <<"9", "9", "9", "9", "9", "9", "9", "9", "9", "9", "9">>, <<"0">>, <<>>, <<"+">>, <<"-", "1">>}
IndexLines ==
  UNION {{Line(MultiLine(Type, n, <<"1">>, Encode(P(1, 1, 1, 0, 1))), "minimal", "slipped", Nothing),
          Line(MultiLine(Type, <<"1">>, n, Encode(P(1, 1, 1, 0, 1))), "minimal", "slipped", Nothing)} :
           n \in Indices}

MCLines ==
  WholeParts \cup SpelledParts \cup SingleLines \cup WordLines \cup SpoiledLines \cup IndexLines
  \cup SlippedFrom(PartLine(Type, P(12, 2, 3, 1, 2)), "minimal")
  \cup SlippedFrom(SingleLine(Type, <<130, 1, 24>>), "minimal")
  \cup SlippedFrom(encode(<<130>>, "uri"), "uri")
  \cup SlippedFrom(encode(<<130>>, "standard"), "standard")
  \cup {Line(t, "minimal", "slipped", Nothing) : t \in {<<>>, <<"u", "r">>, Scheme}}
  \cup {Line(t, style, "slipped", Nothing) : t \in {<<>>}, style \in {"standard", "uri"}}
=============================================================================
