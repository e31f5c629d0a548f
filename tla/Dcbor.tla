-------------------------------- MODULE Dcbor -------------------------------
(***************************************************************************)
(* Deterministic CBOR values, and the readers the registry takes them      *)
(* apart with (read.rs).                                                   *)
(*                                                                         *)
(* A value is a record whose one field names its major type.  Byte strings *)
(* are sequences of bytes and texts sequences of tokens; a map is a        *)
(* function from integer keys, the negative ones being CBOR's negative     *)
(* integers.  A reader returns Ok(v) or Err(e), or panics.                 *)
(***************************************************************************)
EXTENDS Integers, Sequences, SequencesExt

CONSTANTS UINT8_MAX, UINT31_MAX, UINT32_MAX, INT64_MAX      \* widths of integers

ASSUME WidthAssumption ==
  /\ UINT8_MAX \in Nat /\ UINT31_MAX \in Nat /\ INT64_MAX \in Nat
  /\ UINT8_MAX < UINT31_MAX /\ UINT32_MAX = 2 * UINT31_MAX + 1
  /\ UINT32_MAX < INT64_MAX

Uint(n) == [uint |-> n]
Signed(n) == IF n < 0 THEN [nint |-> n] ELSE Uint(n)
Bool(b) == [bool |-> b]
Text(s) == [text |-> s]
Bytes(s) == [bytes |-> s]
Array(s) == [array |-> s]
Map(f) == [map |-> f]
Tagged(t, v) == [tag |-> t, content |-> v]
Null == [null |-> TRUE]

Is(c, major) == major \in DOMAIN c

-----------------------------------------------------------------------------
Ok(v) == [ok |-> v]
Err(e) == [err |-> e]
Panic == [panic |-> TRUE]
IsOk(r) == "ok" \in DOMAIN r

\* The `?` operator; a panic ends the call as an error does.
Then(r, Next1(_)) == IF IsOk(r) THEN Next1(r.ok) ELSE r

WrongType == Err("WrongType")
OutOfRange == Err("OutOfRange")

Check(ok, e, v) == IF ok THEN Ok(v) ELSE Err(e)

As(c, major) == IF Is(c, major) THEN Ok(c[major]) ELSE WrongType

uint(c) == As(c, "uint")
boolean(c) == As(c, "bool")
text(c) == As(c, "text")
bytes(c) == As(c, "bytes")
array(c) == As(c, "array")

uint_below(c, max) == Then(uint(c), LAMBDA n : Check(n <= max, "OutOfRange", n))
uint8(c) == uint_below(c, UINT8_MAX)
uint31(c) == uint_below(c, UINT31_MAX)
uint32_ne0Mutant(c) == uint_below(c, UINT32_MAX)      \* zero is let through
uint32_ne0(c) ==
  Then(uint_below(c, UINT32_MAX), LAMBDA n : Check(n # 0, "OutOfRange", n))

\* An integer of either sign, and one in the range of a signed type
integer(c) == IF Is(c, "nint") THEN Ok(c.nint) ELSE uint(c)
SignedIn(c, max) ==
  Then(integer(c), LAMBDA n : Check(n \in -max - 1 .. max, "OutOfRange", n))
int32(c) == SignedIn(c, UINT31_MAX)
int64(c) == SignedIn(c, INT64_MAX)

bytes_fixed(c, len) ==
  Then(bytes(c), LAMBDA b : Check(Len(b) = len, "InvalidLength", b))

\* The content under one of the tags that are expected
untag(c, expected) ==
  IF ~Is(c, "tag") THEN WrongType
  ELSE Check(c.tag \in expected, "UnexpectedTag", c.content)

\* MapReader::closed.  Unsigned keys come before negative ones in a dCBOR map.
closed(c, allowed) ==
  IF ~Is(c, "map") THEN WrongType
  ELSE LET others == DOMAIN c.map \ allowed
       IN  IF \E k \in others : k >= 0 THEN Err("UnknownKey")
           ELSE IF others # {} THEN WrongType
           ELSE Ok(c.map)

\* Reads the elements of an array until one fails.
ReadEach(items, Read(_)) ==
  FoldLeft(LAMBDA r, c : Then(r, LAMBDA s : Then(Read(c), LAMBDA v : Ok(Append(s, v)))),
           Ok(<<>>), items)

-----------------------------------------------------------------------------
(* Structs read from maps and written to them.  A value is a function from *)
(* the names of its fields, without those that are None.                   *)

\* One field: where it is in the map, how it is read, and what its absence
\* means: an error ("required"), None ("optional", and for an empty text
\* "nonempty"), or its type's default.
Field(name, key, kind, absent) ==
  [name |-> name, key |-> key, kind |-> kind, absent |-> absent]

With(v, name, x) == [f \in DOMAIN v \cup {name} |-> IF f = name THEN x ELSE v[f]]
Without(v, name) == [f \in DOMAIN v \ {name} |-> v[f]]

\* `nonempty` (seed.rs): an empty text is None, on read and in the setters.
nonempty(v, name, s) == IF s = <<>> THEN Without(v, name) ELSE With(v, name, s)

\* MapReader::required and optional for each field in turn.  Read(kind, v, c)
\* may look at the fields already read.
ReadFields(m, fields, Read(_, _, _), Default(_)) ==
  LET one(v, f) ==
        IF f.key \notin DOMAIN m
        THEN CASE f.absent = "required" -> Err("MissingKey")
               [] f.absent = "default"  -> Ok(With(v, f.name, Default(f.kind)))
               [] OTHER                 -> Ok(v)
        ELSE Then(Read(f.kind, v, m[f.key]),
                  LAMBDA x : Ok(IF f.absent = "nonempty" THEN nonempty(v, f.name, x)
                                ELSE With(v, f.name, x)))
  IN  FoldLeft(LAMBDA r, f : Then(r, LAMBDA v : one(v, f)), Ok(<<>>), fields)

\* Map::insert for each <<key, name>> whose field is there and is written
WriteFields(v, rows, Term(_), Omitted(_)) ==
  LET at(k) == CHOOSE name \in DOMAIN v : <<k, name>> \in rows
      keys  == {row[1] : row \in {r \in rows : r[2] \in DOMAIN v /\ ~Omitted(r[2])}}
  IN  Map([k \in keys |-> Term(at(k))])
=============================================================================
