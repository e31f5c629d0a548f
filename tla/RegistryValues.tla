---------------------------- MODULE RegistryValues ---------------------------
(***************************************************************************)
(* The registry's values without scripts: coin-info, keypath, seed, sskr,  *)
(* psbt, hdkey, eckey and address.  For each type: the constructors of its *)
(* API, how it is written, and how it is read.                             *)
(*                                                                         *)
(* A fingerprint is the number its four bytes stand for.                   *)
(***************************************************************************)
EXTENDS Dcbor, RegistryTags

CONSTANTS
  KEY_DATA_LEN, CHAIN_CODE_LEN, PRIVATE_KEY_LEN, COMPRESSED_KEY_LEN,
  UNCOMPRESSED_KEY_LEN, HASH_LEN, MAX_PAYLOAD,      \* lengths in bytes
  SECONDS_PER_DAY,
  F64_EXACT,                \* 2^53: up to it every integer is an f64
  DATE_MIN, DATE_MAX        \* first and last second of dcbor's calendar

ASSUME LengthAssumption ==
  /\ {KEY_DATA_LEN, CHAIN_CODE_LEN, PRIVATE_KEY_LEN, COMPRESSED_KEY_LEN,
      UNCOMPRESSED_KEY_LEN, HASH_LEN, MAX_PAYLOAD} \subseteq Nat \ {0}
  /\ SECONDS_PER_DAY \in Nat \ {0}

\* The calendar lies within f64's exact integers, and those within i64.
ASSUME CalendarAssumption ==
  /\ DATE_MIN \in Int /\ DATE_MAX \in Nat /\ F64_EXACT \in Nat
  /\ -F64_EXACT < DATE_MIN /\ DATE_MIN < 0
  /\ DATE_MAX < F64_EXACT /\ F64_EXACT < INT64_MAX

Write(type, body) == Tagged(cbor_tags(type)[1], body)

-----------------------------------------------------------------------------
(* coin-info *)

CoinInfo(coin_type, network) ==
  IF coin_type > UINT31_MAX THEN OutOfRange
  ELSE Ok([coin_type |-> coin_type, network |-> network])

CoinInfoTerm(v) ==
  WriteFields(v, {<<1, "coin_type">>, <<2, "network">>},
              LAMBDA f : Signed(v[f]), LAMBDA f : v[f] = 0)

CoinInfoFrom(c) ==
  Then(closed(c, {1, 2}), LAMBDA m :
    ReadFields(m, <<Field("coin_type", 1, "uint31", "default"),
                    Field("network", 2, "int32", "default")>>,
               LAMBDA kind, v, x : IF kind = "uint31" THEN uint31(x) ELSE int32(x),
               LAMBDA kind : 0))

-----------------------------------------------------------------------------
(* keypath.  A component is [child], [wildcard], [range] or [pair]. *)

Child(n, hardened) == [index |-> n, hardened |-> hardened]

ChildNew(n, hardened) == IF n > UINT31_MAX THEN OutOfRange ELSE Ok(Child(n, hardened))

\* ChildRange::new
RangeNew(start, end, hardened) ==
  Check(start < end, "Invalid", [start |-> start, end |-> end, hardened |-> hardened])

KeypathNew(v) ==
  IF "source_fingerprint" \in DOMAIN v /\ v.source_fingerprint = 0 THEN OutOfRange
  ELSE Check(v.components # <<>> \/ DOMAIN v # {"components"}, "Invalid", v)

ComponentItems(p) ==
  CASE "child" \in DOMAIN p    -> <<Uint(p.child.index), Bool(p.child.hardened)>>
    [] "wildcard" \in DOMAIN p -> <<Array(<<>>), Bool(p.wildcard)>>
    [] "range" \in DOMAIN p    ->
         <<Array(<<Uint(p.range.start), Uint(p.range.end)>>), Bool(p.range.hardened)>>
    [] "pair" \in DOMAIN p     ->
         <<Array(<<Uint(p.pair[1].index), Bool(p.pair[1].hardened),
                   Uint(p.pair[2].index), Bool(p.pair[2].hardened)>>)>>

KeypathTerm(v) ==
  WriteFields(v, {<<1, "components">>, <<2, "source_fingerprint">>, <<3, "depth">>},
              LAMBDA f : IF f = "components"
                         THEN Array(FlattenSeq([k \in DOMAIN v[f] |-> ComponentItems(v[f][k])]))
                         ELSE Uint(v[f]),
              LAMBDA f : FALSE)

\* The items at i, or an error past the end
Item(items, i) == IF i \in DOMAIN items THEN Ok(items[i]) ELSE WrongType

child_number(items, i) ==
  Then(Then(Item(items, i), uint31), LAMBDA n :
    Then(Then(Item(items, i + 1), boolean), LAMBDA h : Ok(Child(n, h))))

\* The component that starts at item i, and the number of items it takes
Component(items, i) ==
  LET head == items[i]
      flag == Then(Item(items, i + 1), boolean)
      One(r, name, n) == Then(r, LAMBDA x : Ok([component |-> [f \in {name} |-> x], width |-> n]))
      len == IF Is(head, "array") THEN Len(head.array) ELSE -1
      Span(start, end) == Then(flag, LAMBDA h : RangeNew(start, end, h))
  IN  CASE Is(head, "uint") -> One(child_number(items, i), "child", 2)
        [] len = 0 -> One(flag, "wildcard", 2)
        [] len = 2 -> One(Then(uint31(head.array[1]), LAMBDA s :
                            Then(uint31(head.array[2]), LAMBDA e : Span(s, e))), "range", 2)
        [] len = 4 -> One(Then(child_number(head.array, 1), LAMBDA e :
                            Then(child_number(head.array, 3), LAMBDA n : Ok(<<e, n>>))), "pair", 1)
        [] OTHER -> WrongType

\* The cursor runs over the items, one or two at a time.
decode_components(items) ==
  LET from[i \in 1 .. Len(items) + 1] ==
        IF i > Len(items) THEN Ok(<<>>)
        ELSE Then(Component(items, i), LAMBDA p :
               Then(from[i + p.width], LAMBDA rest : Ok(<<p.component>> \o rest)))
  IN  from[1]

KeypathFrom(c) ==
  Then(Then(closed(c, {1, 2, 3}), LAMBDA m :
         ReadFields(m, <<Field("components", 1, "components", "required"),
                         Field("source_fingerprint", 2, "uint32_ne0", "optional"),
                         Field("depth", 3, "uint8", "optional")>>,
                    LAMBDA kind, v, x : CASE kind = "components" -> Then(array(x), decode_components)
                                          [] kind = "uint32_ne0" -> uint32_ne0(x)
                                          [] kind = "uint8"      -> uint8(x),
                    LAMBDA kind : 0)),
       KeypathNew)

-----------------------------------------------------------------------------
(* seed *)

PayloadOk(b) == Len(b) \in 1 .. MAX_PAYLOAD
SeedNew(payload) == Check(PayloadOk(payload), "InvalidLength", [payload |-> payload])

\* An i64 as f64: past F64_EXACT the floats are 2^k apart, with k as small as
\* the number allows, and the nearest is taken, the even one of two.
f64(n) ==
  LET size == IF n < 0 THEN -n ELSE n
      k == CHOOSE j \in 0 .. 10 :
             size <= F64_EXACT * 2^j /\ \A i \in 0 .. j - 1 : size > F64_EXACT * 2^i
      below == n \div 2^k
      twice == 2 * (n % 2^k)
  IN  (IF twice > 2^k \/ (twice = 2^k /\ below % 2 = 1) THEN below + 1 ELSE below) * 2^k

\* dcbor's Date: whole seconds, written under tag 1 and read from it.  A
\* number that is not an f64 is refused; one outside the calendar panics.
DateTerm(date) == Tagged(1, Signed(date))
from_timestamp(seconds) == IF seconds \in DATE_MIN .. DATE_MAX THEN Ok(seconds) ELSE Panic
DateFrom(c) ==
  Then(Then(integer(c), LAMBDA n : Check(f64(n) = n, "OutOfRange", n)), from_timestamp)

wrapping_mul(a, b) ==      \* the product may wrap around
  Ok(CASE a > INT64_MAX \div b          -> a * b - INT64_MAX - INT64_MAX - 2
       [] a < -((INT64_MAX + 1) \div b) -> a * b + INT64_MAX + INT64_MAX + 2
       [] OTHER                         -> a * b)
checked_mul(a, b) ==
  IF a > INT64_MAX \div b \/ a < -((INT64_MAX + 1) \div b) THEN OutOfRange ELSE Ok(a * b)

\* Seconds under tag 1, or days under tag 100
read_date(c) ==
  IF ~Is(c, "tag") THEN WrongType
  ELSE IF c.tag = 100
  THEN Then(Then(int64(c.content), LAMBDA days : checked_mul(days, SECONDS_PER_DAY)),
            LAMBDA seconds : from_timestamp(f64(seconds)))
  ELSE IF c.tag = 1 THEN DateFrom(c.content) ELSE WrongType

SeedTerm(v) ==
  WriteFields(v, {<<1, "payload">>, <<2, "creation_date">>, <<3, "name">>, <<4, "note">>},
              LAMBDA f : CASE f = "payload" -> Bytes(v[f])
                           [] f = "creation_date" -> DateTerm(v[f])
                           [] OTHER -> Text(v[f]),
              LAMBDA f : FALSE)

SeedFrom(c) ==
  Then(closed(c, {1, 2, 3, 4}), LAMBDA m :
    ReadFields(m, <<Field("payload", 1, "payload", "required"),
                    Field("creation_date", 2, "date", "optional"),
                    Field("name", 3, "text", "nonempty"),
                    Field("note", 4, "text", "nonempty")>>,
               LAMBDA kind, v, x :
                 CASE kind = "payload" ->
                        Then(bytes(x), LAMBDA b : Check(PayloadOk(b), "InvalidLength", b))
                   [] kind = "date" -> read_date(x)
                   [] kind = "text" -> text(x),
               LAMBDA kind : 0))
=============================================================================
