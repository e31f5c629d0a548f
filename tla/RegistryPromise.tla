---------------------------- MODULE RegistryPromise --------------------------
(***************************************************************************)
(* What the registry promises of a value that was sent and read.           *)
(***************************************************************************)
EXTENDS Registry

Read1(door) == IF door \in DOMAIN outcome THEN IsOk(outcome[door]) ELSE FALSE
Doors == {"cbor", "ur"}

-----------------------------------------------------------------------------
(* What the constructors and setters can make: of a record that was read,  *)
(* they make the same record again.                                        *)

Named(v) == \A f \in {"name", "note"} \cap DOMAIN v : v[f] # <<>>

BuildsChild(n) == ChildNew(n.index, n.hardened) = Ok(n)
BuildsComponent(p) ==
  CASE "child" \in DOMAIN p -> BuildsChild(p.child)
    [] "range" \in DOMAIN p ->
         /\ RangeNew(p.range.start, p.range.end, p.range.hardened) = Ok(p.range)
         /\ {p.range.start, p.range.end} \subseteq 0 .. UINT31_MAX
    [] "pair" \in DOMAIN p  -> BuildsChild(p.pair[1]) /\ BuildsChild(p.pair[2])
    [] OTHER                -> p.wildcard \in BOOLEAN

BuildsCoinInfo(v) ==
  /\ CoinInfo(v.coin_type, v.network) = Ok(v)
  /\ v.network \in -UINT31_MAX - 1 .. UINT31_MAX

BuildsKeypath(v) ==
  /\ KeypathNew(v) = Ok(v)
  /\ \A i \in DOMAIN v.components : BuildsComponent(v.components[i])
  /\ "source_fingerprint" \in DOMAIN v => v.source_fingerprint <= UINT32_MAX
  /\ "depth" \in DOMAIN v => v.depth <= UINT8_MAX

BuildsHdKey(v) ==
  /\ Len(v.key_data) = KEY_DATA_LEN
  /\ "chain_code" \in DOMAIN v => Len(v.chain_code) = CHAIN_CODE_LEN
  /\ IF is_master(v) THEN MasterNew(v.key_data, v.chain_code) = Ok(v)
     ELSE /\ v.is_private => IsOk(DerivedPrivate(v.key_data))
          /\ "use_info" \in DOMAIN v => BuildsCoinInfo(v.use_info)
          /\ \A f \in {"origin", "children"} \cap DOMAIN v : BuildsKeypath(v[f])
          /\ "parent_fingerprint" \in DOMAIN v =>
               with_parent_fingerprint(v, v.parent_fingerprint) = Ok(v)
          /\ Named(v)

BuildsAddress(v) ==
  /\ "info" \in DOMAIN v => BuildsCoinInfo(v.info)
  /\ IF "address_type" \in DOMAIN v THEN Len(v.data) = HASH_LEN ELSE IsOk(AddressUntyped(v.data))

BuildsEcKey(v) == EcKeyNew(v.curve, v.is_private, v.data) = Ok(v)

BuildsKey(k) ==
  CASE k[1] = "hdkey"   -> BuildsHdKey(k[2])
    [] k[1] = "eckey"   -> BuildsEcKey(k[2])
    [] k[1] = "address" -> BuildsAddress(k[2])

BuildsOutput(v) ==
  /\ IsOk(OutputNew(v.source, v.keys))
  /\ \A i \in DOMAIN v.keys : BuildsKey(v.keys[i])
  /\ Named(v)

Builds(t, v) ==
  CASE t = "coin_info"          -> BuildsCoinInfo(v)
    [] t = "keypath"            -> BuildsKeypath(v)
    [] t = "seed"               ->
         /\ IsOk(SeedNew(v.payload)) /\ Named(v)
         /\ "creation_date" \in DOMAIN v => v.creation_date \in DATE_MIN .. DATE_MAX
    [] t = "sskr"               -> SskrNew(v.header, v.value) = Ok(v)
    [] t = "psbt"               -> PsbtNew(v.bytes) = Ok(v)
    [] t \in KeyTypes           -> BuildsKey(<<t, v>>)
    [] t = "output_descriptor"  -> BuildsOutput(v)
    [] t = "account_descriptor" ->
         /\ v.master_fingerprint \in 0 .. UINT32_MAX
         /\ v.output_descriptors # <<>>
         /\ \A i \in DOMAIN v.output_descriptors : BuildsOutput(v.output_descriptors[i])

-----------------------------------------------------------------------------
(* The canonical form of a body: tags of version 2, no field at its        *)
(* default, dates in seconds.                                              *)

EmptyText == Text(<<>>)
Defaults(t) ==
  CASE t = "coin_info"         -> {<<1, Uint(0)>>, <<2, Uint(0)>>}
    [] t = "seed"              -> {<<3, EmptyText>>, <<4, EmptyText>>}
    [] t = "hdkey"             -> {<<2, Bool(FALSE)>>, <<9, EmptyText>>, <<10, EmptyText>>}
    [] t = "eckey"             -> {<<1, Uint(0)>>, <<2, Bool(FALSE)>>}
    [] t = "output_descriptor" -> {<<2, Array(<<>>)>>, <<3, EmptyText>>, <<4, EmptyText>>}
    [] OTHER                   -> {}

RECURSIVE Canonical(_)
CanonicalBody(t, c) ==
  IF ~Is(c, "map") THEN c
  ELSE Map([k \in {j \in DOMAIN c.map : <<j, c.map[j]>> \notin Defaults(t)} |->
              Canonical(c.map[k])])
Canonical(c) ==
  LET of == {t \in Types : IsTagged(c, {V1[t], V2[t]})}
      t  == CHOOSE x \in of : TRUE
  IN  CASE of # {}               -> Tagged(V2[t], CanonicalBody(t, c.content))
        [] IsTagged(c, {100})    ->
             Tagged(1, Signed(SECONDS_PER_DAY * integer(c.content).ok))
        [] Is(c, "array")        -> Array([i \in DOMAIN c.array |-> Canonical(c.array[i])])
        [] OTHER                 -> c

-----------------------------------------------------------------------------
(* A script expression: its functions and its keys, in order.              *)

FnNames == SH :> "sh" @@ WSH :> "wsh" @@ PK :> "pk" @@ PKH :> "pkh" @@ WPKH :> "wpkh" @@
           COMBO :> "combo" @@ MULTI :> "multi" @@ SORTEDMULTI :> "sortedmulti" @@
           RAW :> "raw" @@ TR :> "tr" @@ COSIGNER :> "cosigner"

RECURSIVE KeysOf(_)
KeysOf(c) ==
  CASE IsKey(c)                        -> <<c>>
    [] Is(c, "tag") /\ ~IsKey(c)       -> KeysOf(c.content)
    [] Is(c, "map")                    -> FlattenSeq([i \in DOMAIN c.map[2].array |->
                                                        KeysOf(c.map[2].array[i])])
    [] OTHER                           -> <<>>

RECURSIVE FunctionsOf(_)
FunctionsOf(c) ==
  IF ~IsTagged(c, ScriptTags) THEN <<>>
  ELSE <<FnNames[c.tag]>> \o
       (IF c.tag \in {SH, WSH} /\ IsKey(c.content) THEN <<"cosigner">> ELSE FunctionsOf(c.content))

\* The descriptor d says what the expression c says.
Says(d, c) ==
  LET fns == {FnNames[t] : t \in ScriptTags}
      ats == SelectSeq([i \in DOMAIN d.source |-> i], LAMBDA i : d.source[i] = "@")
  IN  /\ [i \in DOMAIN d.keys |-> KeyTerm(d.keys[i])] =
         [i \in DOMAIN KeysOf(c) |-> Canonical(KeysOf(c)[i])]
      /\ [i \in DOMAIN ats |-> Number(d.source, ats[i])] = [i \in DOMAIN d.keys |-> i - 1]
      /\ SelectSeq(d.source, LAMBDA x : x \in fns) = FunctionsOf(c)

RECURSIVE WrappersOf(_)
WrappersOf(c) == IF IsTagged(c, {SH, WSH}) THEN <<c.tag>> \o WrappersOf(c.content) ELSE <<>>
RECURSIVE Core(_)
Core(c) == IF IsTagged(c, {SH, WSH}) THEN Core(c.content) ELSE c

\* The expressions that have a descriptor: sh is outermost, wsh has at most
\* an sh around it, and inside is a function of keys or raw bytes.
MultiOk(c) ==
  /\ Is(c, "map")
  /\ DOMAIN c.map = {1, 2}
  /\ Is(c.map[2], "array") /\ \A i \in DOMAIN c.map[2].array : IsKey(c.map[2].array[i])
  /\ Is(c.map[1], "uint") /\ c.map[1].uint \in 1 .. Len(c.map[2].array)
CoreOk(c) ==
  CASE IsTagged(c, {RAW})                           -> Is(c.content, "bytes")
    [] IsTagged(c, {MULTI, SORTEDMULTI})            -> MultiOk(c.content)
    [] IsTagged(c, ScriptTags \ {RAW, MULTI, SORTEDMULTI}) -> IsKey(c.content)
    [] OTHER                                        -> FALSE
Grammatical(c) ==
  /\ WrappersOf(c) \in {<<>>, <<SH>>, <<WSH>>, <<SH, WSH>>}
  /\ CoreOk(Core(c)) \/ (WrappersOf(c) # <<>> /\ IsKey(Core(c)))
  /\ \A i \in DOMAIN KeysOf(c) : IsOk(DescriptorKeyFrom(KeysOf(c)[i]))

\* The descriptors that were read, each with what stood for it
Entries(t, v) ==
  CASE t = "output_descriptor"  -> {<<v, Tagged(wire.tag, wire.body)>>}
    [] t = "account_descriptor" -> {<<v.output_descriptors[i], wire.body.map[2].array[i]>> :
                                      i \in DOMAIN v.output_descriptors}
    [] OTHER                    -> {}
IsScript(c) == IsTagged(c, ScriptTags)
Expression(c) == IF IsScript(c) THEN c ELSE c.content
Expressions(t, v) ==
  {<<e[1], Expression(e[2])>> : e \in {x \in Entries(t, v) : IsScript(Expression(x[2]))}}

-----------------------------------------------------------------------------
\* Curve::Other(0) has no form of its own on the wire.
Distinct(t, v) == t = "eckey" => v.curve # Other(0)

Untouched == stage = "sent" /\ change \in {"none", "v1", "days"}

\* Whatever was built and sent is read as it was, by either door, whether its
\* tags are those of version 2 or 1 (lib.rs:6-10: "Every value writes the v2
\* tag and reads both") and its date is in seconds or in days (seed.rs:121), up
\* to both ends of the calendar.  Other(0) is the exception.
RoundTrips ==
  \A door \in DOMAIN outcome :
    Untouched /\ asked = type /\ Distinct(type, value) => outcome[door] = Ok(value)

\* lib.rs:9 "types re-encode to the recorded canonical bytes and round-trip",
\* said of every value that the constructors return
EveryValueRoundTrips ==
  \A door \in DOMAIN outcome :
    Untouched /\ asked = type => outcome[door] = Ok(value)

\* The readers fill the structs themselves, beside the constructors; still no
\* body makes a value that the constructors and setters would refuse.
ReadsOnlyBuildable ==
  \A door \in Doors : Read1(door) => Builds(asked, outcome[door].ok)

\* What was read and is written again is what was on the wire, but for the
\* tags of version 1, fields at their defaults and dates in days: no reader
\* drops, moves or makes up a field, and no number of days, however large,
\* becomes another date.
LosesNothing ==
  \A door \in Doors :
    Read1(door) /\ Expressions(asked, outcome[door].ok) = {}
      => Write(asked, untagged_cbor(asked, outcome[door].ok)) = Canonical(Tagged(wire.tag, wire.body))

\* A script expression of version 1 is read if it nests as BIP-380 has it, and
\* becomes the text of the same functions over the same keys, each named by
\* its place (script.rs).
ScriptFaithful ==
  \A door \in DOMAIN outcome :
    /\ Read1(door) => \A e \in Expressions(asked, outcome[door].ok) :
                        Says(e[1], e[2]) /\ Grammatical(e[2])
    /\ change = "foreign" /\ type = "output_descriptor" /\ asked = type
         => (Grammatical(wire.body) => Read1(door))

\* The door by tag and the door by name read the same, and neither reads a
\* value as another type, though bodies of one type may pass for another's.
DoorsAgree ==
  /\ DOMAIN outcome = Doors =>
       /\ Read1("cbor") = Read1("ur")
       /\ Read1("cbor") => outcome["cbor"] = outcome["ur"]
  /\ \A door \in Doors : Read1(door) => asked = type
=============================================================================
