------------------------------ MODULE Bytewords -----------------------------
(***************************************************************************)
(* bytewords: bytes as words of four letters, and the checksum behind them. *)
(*                                                                         *)
(* A text is a sequence of characters.  The word table is a constant, one  *)
(* word for each byte, no two with the same first and last letter; so is   *)
(* the checksum, any function to four bytes.                               *)
(***************************************************************************)
EXTENDS Integers, Sequences, SequencesExt, FiniteSetsExt, Functions

CONSTANTS
  WORDS,            \* the word of a byte: four letters
  Checksum(_)       \* crc32 of a byte string: four bytes

Bytes == 0 .. 255

-----------------------------------------------------------------------------
(* Characters *)

LowerLetters ==
  <<"a", "b", "c", "d", "e", "f", "g", "h", "i", "j", "k", "l", "m",
    "n", "o", "p", "q", "r", "s", "t", "u", "v", "w", "x", "y", "z">>
UpperLetters ==
  <<"A", "B", "C", "D", "E", "F", "G", "H", "I", "J", "K", "L", "M",
    "N", "O", "P", "Q", "R", "S", "T", "U", "V", "W", "X", "Y", "Z">>
Digits == <<"0", "1", "2", "3", "4", "5", "6", "7", "8", "9">>
Foreign == {"e acute"}      \* characters that are not ASCII

LowerOf == [c \in Range(UpperLetters) |-> LowerLetters[CHOOSE k \in 1 .. 26 : UpperLetters[k] = c]]
UpperOf == AntiFunction(LowerOf)

is_ascii(text) == Range(text) \cap Foreign = {}
to_ascii_lowercase(text) ==
  [k \in DOMAIN text |-> IF text[k] \in DOMAIN LowerOf THEN LowerOf[text[k]] ELSE text[k]]
to_ascii_uppercase(text) ==
  [k \in DOMAIN text |-> IF text[k] \in DOMAIN UpperOf THEN UpperOf[text[k]] ELSE text[k]]

Positions(text, c) == {k \in DOMAIN text : text[k] = c}

\* The parts between the separators, an empty one before or after the last
Split(text, c) ==
  LET cuts   == Positions(text, c) \cup {0, Len(text) + 1}
      cut(k) == CHOOSE x \in cuts : Cardinality({y \in cuts : y < x}) = k
  IN  [k \in 1 .. Cardinality(cuts) - 1 |-> SubSeq(text, cut(k - 1) + 1, cut(k) - 1)]

-----------------------------------------------------------------------------
(* Words *)

\* style: "standard", "uri" or "minimal"
Separator(style) == IF style = "standard" THEN " " ELSE "-"

MinimalWords == [b \in Bytes |-> <<WORDS[b][1], WORDS[b][4]>>]
ByteOf(table) == [w \in Range(table) |-> CHOOSE b \in Bytes : table[b] = w]
ByteOfWord == ByteOf(WORDS)
ByteOfMinimal == ByteOf(MinimalWords)

encode_words(data, style) ==
  IF style = "minimal"
  THEN [k \in 1 .. 2 * Len(data) |-> MinimalWords[data[(k + 1) \div 2]][2 - (k % 2)]]
  ELSE [k \in 1 .. 5 * Len(data) - 1 |->
          IF k % 5 = 0 THEN Separator(style) ELSE WORDS[data[(k \div 5) + 1]][k % 5]]

encode(data, style) == encode_words(data \o Checksum(data), style)

-----------------------------------------------------------------------------
(* Decoding: [ok |-> TRUE, data] or [ok |-> FALSE, error] *)

Refused(e) == [ok |-> FALSE, error |-> e]

strip_checksum(all) ==
  LET split == Len(all) - 4
  IN  IF split < 0 THEN Refused("InvalidBytewordsChecksum")
      ELSE IF Checksum(SubSeq(all, 1, split)) # SubSeq(all, split + 1, Len(all))
      THEN Refused("InvalidBytewordsChecksum")
      ELSE [ok |-> TRUE, data |-> SubSeq(all, 1, split)]

decode_parts(parts, table) ==
  IF \E k \in DOMAIN parts : parts[k] \notin DOMAIN table THEN Refused("InvalidWord")
  ELSE strip_checksum([k \in DOMAIN parts |-> table[parts[k]]])

Pairs(text) == [k \in 1 .. Len(text) \div 2 |-> SubSeq(text, 2 * k - 1, 2 * k)]

decode_minimal(text) ==
  IF Len(text) % 2 # 0 THEN Refused("InvalidBytewordsLength")
  ELSE decode_parts(Pairs(text), ByteOfMinimal)

LoweredMutant(text) == text      \* upper case is not folded
Lowered(text) == to_ascii_lowercase(text)

decode(text, style) ==
  IF ~is_ascii(text) THEN Refused("NonAscii")
  ELSE IF style = "minimal" THEN decode_minimal(Lowered(text))
  ELSE IF text = <<>> THEN Refused("InvalidBytewordsChecksum")
  ELSE decode_parts(Split(Lowered(text), Separator(style)), ByteOfWord)
=============================================================================
