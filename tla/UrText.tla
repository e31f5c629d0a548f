-------------------------------- MODULE UrText ------------------------------
(***************************************************************************)
(* A UR as text: how a line is written and how it is read.                 *)
(*                                                                         *)
(* The same text may be given to three doors: ur::parse, which holds a     *)
(* part to the limits; ur::Decoder::receive, which holds only the length   *)
(* of the text to them; and Ur::from_str, which takes single parts of      *)
(* deterministic CBOR under the default limits.  All go through parse_head, *)
(* check_text and parse_rest, and through bytewords and the part decoder.  *)
(* bytewords::decode is a door of its own for the two styles of four       *)
(* letters.  Characters are members of a sequence, one outside ASCII too.  *)
(***************************************************************************)
EXTENDS PartCbor, Bytewords, TLC

CONSTANTS
  Lines,            \* what is read: [text, style, kind, says]
  Limits,           \* the caller's [uri_length, fragment_count, fragment_length]
  DefaultLimits,    \* DecoderLimits::default()
  U32Max,           \* u32::MAX
  IsDcbor(_)        \* whether CBOR::try_from_data takes the bytes

VARIABLES
  line,
  door,             \* which door reads it
  stage,            \* what that door does next
  ur_type, rest,    \* after the head: the type and what follows it
  header,           \* the indices of a multi-part text
  read              \* what each door has returned

text == line.text
call == <<door, stage, ur_type, rest, header>>
vars == <<line, call, read, partCbor>>

-----------------------------------------------------------------------------
(* Writing *)

Scheme == <<"u", "r", ":">>

\* A number in decimal, with zeros before it
Decimal(n, zeros) ==
  LET places == CHOOSE k \in 1 .. 10 : (k = 10 \/ n < 10 ^ k) /\ (k = 1 \/ n >= 10 ^ (k - 1))
  IN  [k \in 1 .. zeros |-> "0"]
        \o [k \in 1 .. places |-> Digits[((n \div 10 ^ (places - k)) % 10) + 1]]

\* ur::encode
SingleLine(type, message) == Scheme \o type \o <<"/">> \o encode(message, "minimal")

\* A part under its header, its CBOR given
MultiLine(type, sequence, count, cbor) ==
  Scheme \o type \o <<"/">> \o sequence \o <<"-">> \o count \o <<"/">> \o encode(cbor, "minimal")

\* Encoder::next, K > 1
PartLine(type, p) ==
  MultiLine(type, Decimal(p.sequence, 0), Decimal(p.sequence_count, 0), Encode(p))

to_qr_string(ur) == to_ascii_uppercase(ur)

-----------------------------------------------------------------------------
(* Reading *)

Single(type, message) == [ok |-> TRUE, type |-> type, message |-> message]
Multi(type, part) == [ok |-> TRUE, type |-> type, part |-> part]
IsMulti(r) == "part" \in DOMAIN r

LimitsOf(d) == IF d = "from_str" THEN DefaultLimits ELSE Limits

\* UrType::new on a lower-cased token
is_valid_type(token) ==
  /\ token # <<>>
  /\ Range(token) \subseteq Range(LowerLetters) \cup Range(Digits) \cup {"-"}

parse_head(t) ==
  LET rest0 == SubSeq(t, 4, Len(t))
      cut   == Min(Positions(rest0, "/"))
      token == to_ascii_lowercase(SubSeq(rest0, 1, cut - 1))
  IN  IF Len(t) < 3 \/ to_ascii_lowercase(SubSeq(t, 1, 3)) # Scheme THEN Refused("InvalidScheme")
      ELSE IF Positions(rest0, "/") = {} THEN Refused("TypeUnspecified")
      ELSE IF ~is_valid_type(token) THEN Refused("InvalidType")
      ELSE [ok |-> TRUE, type |-> token, rest |-> SubSeq(rest0, cut + 1, Len(rest0))]

\* str::parse::<u32> on digits, which takes a plus before them
TooLarge == -1
DigitOf(c) == (CHOOSE k \in 1 .. 10 : Digits[k] = c) - 1
parse_u32(t) ==
  LET digits == IF t[1] = "+" THEN Tail(t) ELSE t
  IN  FoldLeft(LAMBDA n, c : IF n = TooLarge \/ n > (U32Max - DigitOf(c)) \div 10
                             THEN TooLarge ELSE 10 * n + DigitOf(c), 0, digits)

is_numberMutant(t) ==      \* left to str::parse
  LET digits == IF t # <<>> /\ t[1] = "+" THEN Tail(t) ELSE t
  IN  digits # <<>> /\ Range(digits) \subseteq Range(Digits)
is_number(t) == t # <<>> /\ Range(t) \subseteq Range(Digits)

decode_indices(t) ==
  LET cut == Min(Positions(t, "-"))
      idx == SubSeq(t, 1, cut - 1)
      idx_total == SubSeq(t, cut + 1, Len(t))
  IN  IF Positions(t, "-") = {} THEN Refused("InvalidIndices")
      ELSE IF ~is_number(idx) \/ ~is_number(idx_total) THEN Refused("InvalidIndices")
      ELSE IF {parse_u32(idx), parse_u32(idx_total)} \cap {0, TooLarge} # {}
      THEN Refused("InvalidIndices")
      ELSE [ok |-> TRUE, sequence |-> parse_u32(idx), count |-> parse_u32(idx_total)]

-----------------------------------------------------------------------------
NoHeader == [sequence |-> 0, count |-> 0]

Init ==
  /\ line \in Lines
  /\ door = "none" /\ stage = "idle" /\ ur_type = <<>> /\ rest = <<>> /\ header = NoHeader
  /\ read = <<>>
  /\ Idle

\* The doors, in turn
DoorsOf(style) == IF style = "minimal" THEN <<"parse", "receive", "from_str">> ELSE <<"decode">>

\* Ur::from_str and Ur::from_cbor_data on what was parsed
Typed(r) ==
  IF IsMulti(r) THEN Refused("NotSinglePart")
  ELSE IF ~IsDcbor(r.message) THEN Refused("CborDecode") ELSE r

Return(r) ==
  /\ read' = read @@ (door :> IF r.ok /\ door = "from_str" THEN Typed(r) ELSE r)
  /\ stage' = "idle" /\ door' = "none"
  /\ ur_type' = <<>> /\ rest' = <<>> /\ header' = NoHeader
  /\ UNCHANGED line

Continue(next) == stage' = next /\ UNCHANGED <<line, door, read>>

Call ==
  /\ stage = "idle" /\ Cardinality(DOMAIN read) < Len(DoorsOf(line.style))
  /\ door' = DoorsOf(line.style)[Cardinality(DOMAIN read) + 1]
  /\ stage' = IF door' = "decode" THEN "words" ELSE "head"
  /\ UNCHANGED <<line, ur_type, rest, header, read, partCbor>>

DecodeWords ==
  /\ stage = "words"
  /\ Return(decode(text, line.style))
  /\ UNCHANGED partCbor

ParseHead ==
  /\ stage = "head"
  /\ LET h == parse_head(text) IN
       \/ ~h.ok /\ Return(h)
       \/ h.ok /\ ur_type' = h.type /\ rest' = h.rest /\ Continue("text") /\ UNCHANGED header
  /\ UNCHANGED partCbor

CheckText ==
  /\ stage = "text"
  /\ \/ ~is_ascii(text) /\ Return(Refused("NonAscii"))
     \/ /\ is_ascii(text) /\ Len(text) > LimitsOf(door).uri_length
        /\ Return(Refused("UriLength"))
     \/ /\ is_ascii(text) /\ Len(text) <= LimitsOf(door).uri_length
        /\ Continue("rest") /\ UNCHANGED <<ur_type, rest, header>>
  /\ UNCHANGED partCbor

\* parse_rest, no slash
ReadSingle ==
  /\ stage = "rest" /\ Positions(rest, "/") = {}
  /\ LET body == decode(rest, "minimal")
     IN  Return(IF body.ok THEN Single(ur_type, body.data) ELSE body)
  /\ UNCHANGED partCbor

\* parse_rest, what is before the last slash
ReadIndices ==
  /\ stage = "rest" /\ Positions(rest, "/") # {}
  /\ LET cut == Max(Positions(rest, "/"))
         ix  == decode_indices(SubSeq(rest, 1, cut - 1))
     IN  \/ ~ix.ok /\ Return(ix)
         \/ /\ ix.ok
            /\ header' = [sequence |-> ix.sequence, count |-> ix.count]
            /\ rest' = SubSeq(rest, cut + 1, Len(rest))
            /\ Continue("body") /\ UNCHANGED ur_type
  /\ UNCHANGED partCbor

ReadBody ==
  /\ stage = "body"
  /\ LET body == decode(rest, "minimal") IN
       \/ ~body.ok /\ Return(body) /\ UNCHANGED partCbor
       \/ /\ body.ok
          /\ Begin(body.data, IF door = "receive" THEN NoLimits ELSE SomeLimits(LimitsOf(door)))
          /\ Continue("part") /\ UNCHANGED <<ur_type, rest, header>>

\* Part::from_cbor, a step at a time
DecodePart ==
  /\ stage = "part" /\ pc # "done"
  /\ Decode
  /\ UNCHANGED <<line, call, read>>

\* The header must name the part's own sequence and count.
MatchHeader ==
  /\ stage = "part" /\ pc = "done"
  /\ Return(IF result # "Ok" THEN Refused(result)
            ELSE IF header # [sequence |-> fields[1], count |-> fields[2]]
            THEN Refused("InvalidIndices")
            ELSE Multi(ur_type, Decoded))
  /\ UNCHANGED partCbor

Next ==
  \/ Call \/ DecodeWords
  \/ ParseHead \/ CheckText \/ ReadSingle \/ ReadIndices \/ ReadBody \/ DecodePart \/ MatchHeader

Spec == Init /\ [][Next]_vars

-----------------------------------------------------------------------------
(* Properties *)

Valid(p) ==
  PartNew(<<p.sequence, p.sequence_count, p.message_length, p.checksum>>, Len(p.data))
Capped(p, l) == Len(p.data) <= l.fragment_length /\ p.sequence_count <= l.fragment_count

\* What a door should return for a line that spells `says`
Expected(d, says) == IF d = "from_str" THEN Typed(says) ELSE says
Readable(d) ==
  d # "decode" =>
    /\ Len(text) <= LimitsOf(d).uri_length
    /\ IsMulti(line.says) =>
         /\ Valid(line.says.part)
         /\ d # "receive" => Capped(line.says.part, LimitsOf(d))

\* What was written is read by every door as what was written, in capitals or
\* not, whatever zeros stand before the indices and whatever widths the heads
\* of the CBOR have; and a line over a limit, or of a part that Part::new
\* refuses, is refused.
ReadsEverySpelling ==
  line.kind = "written" =>
    \A d \in DOMAIN read :
      IF Readable(d) THEN read[d] = Expected(d, line.says) ELSE ~read[d].ok

\* The segments of a text, in lower case, without zeros before the indices
StripZeros(t) ==
  LET kept == {k \in DOMAIN t : t[k] # "0"} IN IF kept = {} THEN t ELSE SubSeq(t, Min(kept), Len(t))
Segments(t) ==
  LET s == Split(to_ascii_lowercase(t), "/")
  IN  IF Len(s) # 3 THEN s
      ELSE [s EXCEPT ![2] = FlattenSeq([k \in DOMAIN Split(@, "-") |->
                                           StripZeros(Split(@, "-")[k]) \o <<"-">>])]

\* Nothing else is read.  Whatever comes out of a door, after any slip in any
\* place of a line, a cut, or a byte of the CBOR changed, writes back as the
\* line that went in, but for capitals, zeros before the indices and heads
\* that were wider than need be; the encoder's form is never the longer one.
TakesNothingElse ==
  \A d \in DOMAIN read :
    read[d].ok =>
      /\ line.kind # "spoiled"
      /\ d = "decode" => encode(read[d].data, line.style) = to_ascii_lowercase(text)
      /\ d # "decode" =>
           LET r    == read[d]
               own  == Segments(IF IsMulti(r) THEN PartLine(r.type, r.part)
                                ELSE SingleLine(r.type, r.message))
               gave == Segments(text)
               n    == Len(own)
           IN  /\ Len(gave) = n
               /\ Front(gave) = Front(own)
               /\ gave[n] = own[n] \/ (IsMulti(r) /\ Len(gave[n]) > Len(own[n]))

\* parse and receive are one parser: they differ only where parse refuses a
\* part that is over a cap, which receive leaves to the session.  from_str
\* takes what parse takes if it is a single part of deterministic CBOR.
ParsersAgree ==
  LET done(d) == d \in DOMAIN read
      overCap(r) == ~r.ok /\ r.error \in {"FragmentLength", "FragmentCount"}
  IN  /\ done("receive") =>
           /\ ~overCap(read["receive"])
           /\ \/ read["parse"] = read["receive"]
              \/ /\ overCap(read["parse"])
                 /\ read["receive"].ok => ~Capped(read["receive"].part, Limits)
      /\ done("from_str") /\ read["parse"].ok => read["from_str"] = Typed(read["parse"])
=============================================================================
