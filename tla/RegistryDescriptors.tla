------------------------- MODULE RegistryDescriptors -------------------------
(***************************************************************************)
(* Output and account descriptors, and the script expressions of version 1 *)
(* that are turned into them when they are read (script.rs).               *)
(*                                                                         *)
(* The text of a descriptor is a sequence of tokens: "@" and each digit    *)
(* are tokens of their own.                                                *)
(***************************************************************************)
EXTENDS RegistryKeys

Digit == <<"0", "1", "2", "3", "4", "5", "6", "7", "8", "9", "a", "b", "c", "d", "e", "f">>
DecimalDigits == {Digit[d] : d \in 1 .. 10}

RECURSIVE Decimal(_)
Decimal(n) == IF n < 10 THEN <<Digit[n + 1]>> ELSE Append(Decimal(n \div 10), Digit[(n % 10) + 1])

Hex(b) == FlattenSeq([i \in DOMAIN b |-> <<Digit[(b[i] \div 16) + 1], Digit[(b[i] % 16) + 1]>>])

Comma(texts) == FoldLeft(LAMBDA acc, t : acc \o <<",">> \o t, Head(texts), Tail(texts))
Call(fn, texts) == <<fn, "(">> \o Comma(texts) \o <<")">>
At(n) == <<"@">> \o Decimal(n)

-----------------------------------------------------------------------------
(* One of the keys of a descriptor: <<type, value>> *)

KeyTerm(k) ==
  Write(k[1], CASE k[1] = "hdkey" -> HdKeyTerm(k[2])
                [] k[1] = "eckey" -> EcKeyTerm(k[2])
                [] k[1] = "address" -> AddressTerm(k[2]))

DescriptorKeyFrom(c) ==
  LET as(type, r) == Then(r, LAMBDA v : Ok(<<type, v>>))
  IN  IF ~Is(c, "tag") THEN WrongType
      ELSE CASE c.tag \in Expected("hdkey")   -> as("hdkey", HdKeyFrom(c.content))
             [] c.tag \in Expected("eckey")   -> as("eckey", EcKeyFrom(c.content))
             [] c.tag \in Expected("address") -> as("address", AddressFrom(c.content))
             [] OTHER                         -> Err("UnexpectedTag")

-----------------------------------------------------------------------------
(* Script expressions.  Parsing carries the keys met so far and returns    *)
(* them with the text that stands for the expression.                      *)

KeyFn == PK :> "pk" @@ PKH :> "pkh" @@ WPKH :> "wpkh" @@ COMBO :> "combo" @@ COSIGNER :> "cosigner"

UnsupportedScript == Err("UnsupportedScript")

IsTagged(c, tags) == IF Is(c, "tag") THEN c.tag \in tags ELSE FALSE
IsKey(c) == IF Is(c, "tag") THEN is_key_tag(c.tag) ELSE FALSE

\* Script::key: one more key, named by its place
CollectKey(c, keys) == Then(DescriptorKeyFrom(c), LAMBDA k : Ok(Append(keys, k)))
OneKey(fn, c, keys) ==
  Then(CollectKey(c, keys), LAMBDA ks : Ok([text |-> Call(fn, <<At(Len(keys))>>), keys |-> ks]))

MultiKeys(fn, threshold, items, keys) ==
  IF items = <<>> THEN Err("InvalidLength")
  ELSE IF threshold \notin 1 .. Len(items) THEN OutOfRange
  ELSE Then(FoldLeft(LAMBDA r, c : Then(r, LAMBDA ks : CollectKey(c, ks)), Ok(keys), items),
            LAMBDA ks : Ok([text |-> Call(fn, <<Decimal(threshold)>> \o
                                              [i \in DOMAIN items |-> At(Len(keys) + i - 1)]),
                            keys |-> ks]))

Multi(fn, c, keys) ==
  Then(Then(closed(c, {1, 2}), LAMBDA m :
         ReadFields(m, <<Field("threshold", 1, "uint31", "required"),
                         Field("keys", 2, "array", "required")>>,
                    LAMBDA kind, v, x : IF kind = "uint31" THEN uint31(x) ELSE array(x),
                    LAMBDA kind : 0)),
       LAMBDA v : MultiKeys(fn, v.threshold, v.keys, keys))

AllowedMutant(tag, parent) == parent = "none" \/ tag = WSH      \* wsh inside wsh
\* sh is on top; wsh on top or directly inside sh.
Allowed(tag, parent) == parent = "none" \/ (parent = "sh" /\ tag = WSH)

RECURSIVE Parse(_, _, _)
Parse(c, parent, keys) ==
  LET fn    == IF c.tag = SH THEN "sh" ELSE "wsh"
      inner == IF IsKey(c.content) THEN OneKey("cosigner", c.content, keys)
               ELSE Parse(c.content, fn, keys)
  IN  CASE ~Is(c, "tag") -> WrongType
        [] IsTagged(c, DOMAIN KeyFn) -> OneKey(KeyFn[c.tag], c.content, keys)
        [] IsTagged(c, {SH, WSH}) ->
             IF ~Allowed(c.tag, parent) THEN UnsupportedScript
             ELSE Then(inner, LAMBDA s : Ok([s EXCEPT !.text = Call(fn, <<s.text>>)]))
        [] IsTagged(c, {MULTI, SORTEDMULTI}) ->
             Multi(IF c.tag = MULTI THEN "multi" ELSE "sortedmulti", c.content, keys)
        [] IsTagged(c, {RAW}) ->
             Then(bytes(c.content), LAMBDA b : Ok([text |-> Call("raw", <<Hex(b)>>), keys |-> keys]))
        [] IsTagged(c, {TR}) ->
             IF IsTagged(c.content, ScriptTags) THEN UnsupportedScript
             ELSE OneKey("tr", c.content, keys)
        [] OTHER -> UnsupportedScript

to_descriptor_parts(c) == Parse(c, "none", <<>>)

-----------------------------------------------------------------------------
(* output-descriptor *)

\* The number of digits that follow the token at i
RunLen(s, i) ==
  LET rest == SubSeq(s, i + 1, Len(s))
      stop == SelectInSeq(rest, LAMBDA x : x \notin DecimalDigits)
  IN  IF stop = 0 THEN Len(rest) ELSE stop - 1
Number(s, i) ==
  FoldLeft(LAMBDA n, x : 10 * n + (CHOOSE d \in 1 .. 10 : Digit[d] = x) - 1, 0,
           SubSeq(s, i + 1, i + RunLen(s, i)))
Placeholders(s) == {Number(s, i) : i \in {j \in DOMAIN s : s[j] = "@" /\ RunLen(s, j) > 0}}

\* The placeholders are each of the keys, and none else.
assert_placeholders(s, count) == Placeholders(s) = 0 .. count - 1

OutputNew(source, keys) ==
  Check(assert_placeholders(source, Len(keys)), "Placeholders", [source |-> source, keys |-> keys])

OutputTerm(v) ==
  WriteFields(v, {<<1, "source">>, <<2, "keys">>, <<3, "name">>, <<4, "note">>},
              LAMBDA f : IF f = "keys" THEN Array([i \in DOMAIN v.keys |-> KeyTerm(v.keys[i])])
                         ELSE Text(v[f]),
              LAMBDA f : f = "keys" /\ v.keys = <<>>)

\* The fields, then the placeholders, then the texts: the order in which the
\* code may fail.  A body that is no map is a script expression.
OutputFrom(c) ==
  LET Read(kind, v, x) ==
        IF kind = "keys" THEN Then(array(x), LAMBDA items : ReadEach(items, DescriptorKeyFrom))
        ELSE text(x)
      checked(v) == Then(OutputNew(v.source, v.keys), LAMBDA parts : Ok(v))
  IN  IF ~Is(c, "map")
      THEN Then(to_descriptor_parts(c), LAMBDA s : Ok([source |-> s.text, keys |-> s.keys]))
      ELSE Then(closed(c, 1 .. 4), LAMBDA m :
             Then(ReadFields(m, <<Field("source", 1, "text", "required"),
                                  Field("keys", 2, "keys", "default")>>, Read, LAMBDA kind : <<>>),
                  LAMBDA v : Then(checked(v), LAMBDA u :
                    Then(ReadFields(m, <<Field("name", 3, "text", "nonempty"),
                                         Field("note", 4, "text", "nonempty")>>,
                                    Read, LAMBDA kind : <<>>),
                         LAMBDA w : Ok(u @@ w)))))

-----------------------------------------------------------------------------
(* account-descriptor *)

AccountNew(fingerprint, first) ==
  [master_fingerprint |-> fingerprint, output_descriptors |-> <<first>>]
with_output_descriptor(v, d) == [v EXCEPT !.output_descriptors = Append(@, d)]

AccountTerm(v) ==
  Map(1 :> Uint(v.master_fingerprint) @@
      2 :> Array([i \in DOMAIN v.output_descriptors |->
                    Write("output_descriptor", OutputTerm(v.output_descriptors[i]))]))

\* An entry may be a script expression without the tag of a descriptor.
entry(c) ==
  IF IsTagged(c, ScriptTags)
  THEN Then(to_descriptor_parts(c), LAMBDA s : OutputNew(s.text, s.keys))
  ELSE Then(untag(c, Expected("output_descriptor")), OutputFrom)

AccountFrom(c) ==
  Then(Then(closed(c, {1, 2}), LAMBDA m :
         ReadFields(m, <<Field("master_fingerprint", 1, "uint32", "required"),
                         Field("output_descriptors", 2, "entries", "required")>>,
                    LAMBDA kind, v, x : IF kind = "uint32" THEN uint_below(x, UINT32_MAX)
                                        ELSE Then(array(x), LAMBDA items : ReadEach(items, entry)),
                    LAMBDA kind : 0)),
       LAMBDA v : Check(v.output_descriptors # <<>>, "InvalidLength", v))
=============================================================================
