----------------------------- MODULE RegistryKeys ----------------------------
(***************************************************************************)
(* The registry's shares, transactions, keys and addresses: sskr, psbt,    *)
(* hdkey, eckey and address.                                               *)
(***************************************************************************)
EXTENDS RegistryValues

(* sskr: a header of five bytes before the value of the share.  Counts are *)
(* from 1, their nibbles from 0.                                           *)

HEADER_LEN == 5

assert_group(h) ==
  h.group_threshold <= h.group_count /\ h.group_index < h.group_count

HeaderOk(h) ==
  /\ {h.group_threshold, h.group_count, h.member_threshold} \subseteq 1 .. 16
  /\ {h.group_index, h.member_index} \subseteq 0 .. 15
  /\ assert_group(h)

SskrNew(header, value) ==
  Check(HeaderOk(header), "OutOfRange", [header |-> header, value |-> value])

packMutant(h) ==      \* the count of groups is written as it is
  << h.identifier \div 256, h.identifier % 256,
     (16 * (h.group_threshold - 1) + h.group_count) % 256,
     16 * h.group_index + h.member_threshold - 1, h.member_index >>
pack(h) ==
  << h.identifier \div 256, h.identifier % 256,
     16 * (h.group_threshold - 1) + h.group_count - 1,
     16 * h.group_index + h.member_threshold - 1, h.member_index >>

SskrTerm(v) == Bytes(pack(v.header) \o v.value)

unpack(b) ==
  [identifier       |-> 256 * b[1] + b[2],
   group_threshold  |-> b[3] \div 16 + 1, group_count      |-> (b[3] % 16) + 1,
   group_index      |-> b[4] \div 16,     member_threshold |-> (b[4] % 16) + 1,
   member_index     |-> b[5] % 16]

SskrFrom(c) ==
  Then(bytes(c), LAMBDA b :
    CASE Len(b) < HEADER_LEN         -> Err("InvalidLength")
      [] Len(b) >= HEADER_LEN /\ b[HEADER_LEN] \div 16 # 0 -> Err("Invalid")
      [] OTHER -> Check(assert_group(unpack(b)), "OutOfRange",
                        [header |-> unpack(b), value |-> SubSeq(b, HEADER_LEN + 1, Len(b))]))

-----------------------------------------------------------------------------
(* psbt *)

PSBT_MAGIC == <<112, 115, 98, 116, 255>>

assert_psbt(b) ==
  IF Len(b) < Len(PSBT_MAGIC) THEN Err("InvalidLength")
  ELSE Check(IsPrefix(PSBT_MAGIC, b), "Invalid", b)
PsbtNew(b) == Then(assert_psbt(b), LAMBDA x : Ok([bytes |-> x]))
PsbtTerm(v) == Bytes(v.bytes)
PsbtFrom(c) == Then(bytes(c), PsbtNew)

-----------------------------------------------------------------------------
(* hdkey: a master key has no more than its key and chain code. *)

is_master(v) == "is_private" \notin DOMAIN v

MasterNew(key_data, chain_code) ==
  Check(key_data[1] = 0, "OutOfRange", [key_data |-> key_data, chain_code |-> chain_code])
DerivedPublic(key_data) == [is_private |-> FALSE, key_data |-> key_data]
DerivedPrivate(key_data) ==
  Check(key_data[1] = 0, "OutOfRange", [is_private |-> TRUE, key_data |-> key_data])

with_parent_fingerprint(v, fingerprint) ==
  Check(fingerprint # 0, "OutOfRange", With(v, "parent_fingerprint", fingerprint))

HdKeyRows == {<<2, "is_private">>, <<3, "key_data">>, <<4, "chain_code">>, <<5, "use_info">>,
              <<6, "origin">>, <<7, "children">>, <<8, "parent_fingerprint">>,
              <<9, "name">>, <<10, "note">>}

HdKeyTerm(v) ==
  IF is_master(v)
  THEN Map(1 :> Bool(TRUE) @@ 3 :> Bytes(v.key_data) @@ 4 :> Bytes(v.chain_code))
  ELSE WriteFields(v, HdKeyRows,
         LAMBDA f : CASE f = "is_private"                  -> Bool(TRUE)
                      [] f \in {"key_data", "chain_code"}  -> Bytes(v[f])
                      [] f = "use_info"                    -> Write("coin_info", CoinInfoTerm(v[f]))
                      [] f \in {"origin", "children"}      -> Write("keypath", KeypathTerm(v[f]))
                      [] f = "parent_fingerprint"          -> Uint(v[f])
                      [] f \in {"name", "note"}            -> Text(v[f]),
         LAMBDA f : f = "is_private" /\ ~v.is_private)

ReadMaster(c) ==
  Then(Then(closed(c, {1, 3, 4}), LAMBDA m :
         ReadFields(m, <<Field("key_data", 3, KEY_DATA_LEN, "required"),
                         Field("chain_code", 4, CHAIN_CODE_LEN, "required")>>,
                    LAMBDA len, v, x : bytes_fixed(x, len), LAMBDA kind : 0)),
       LAMBDA v : MasterNew(v.key_data, v.chain_code))

ReadDerivedField(kind, v, x) ==
  CASE kind = "boolean"     -> boolean(x)
    [] kind = "key_data"    -> Then(bytes_fixed(x, KEY_DATA_LEN), LAMBDA b :
                                 Check(v.is_private => b[1] = 0, "OutOfRange", b))
    [] kind = "chain_code"  -> bytes_fixed(x, CHAIN_CODE_LEN)
    [] kind = "coin_info"   -> Then(untag(x, Expected(kind)), CoinInfoFrom)
    [] kind = "keypath"     -> Then(untag(x, Expected(kind)), KeypathFrom)
    [] kind = "fingerprint" -> uint32_ne0(x)
    [] kind = "text"        -> text(x)

ReadDerived(c) ==
  Then(closed(c, 2 .. 10), LAMBDA m :
    ReadFields(m, <<Field("is_private", 2, "boolean", "default"),
                    Field("key_data", 3, "key_data", "required"),
                    Field("chain_code", 4, "chain_code", "optional"),
                    Field("use_info", 5, "coin_info", "optional"),
                    Field("origin", 6, "keypath", "optional"),
                    Field("children", 7, "keypath", "optional"),
                    Field("parent_fingerprint", 8, "fingerprint", "optional"),
                    Field("name", 9, "text", "nonempty"),
                    Field("note", 10, "text", "nonempty")>>,
               ReadDerivedField, LAMBDA kind : FALSE))

\* Key 1 decides, before any other key is looked at, and is only ever true.
HdKeyFrom(c) ==
  CASE ~Is(c, "map")       -> WrongType
    [] Is(c, "map") /\ 1 \in DOMAIN c.map ->
         Then(boolean(c.map[1]), LAMBDA flag : IF flag THEN ReadMaster(c) ELSE WrongType)
    [] OTHER               -> ReadDerived(c)

-----------------------------------------------------------------------------
(* eckey.  Curve::Other takes any number, 0 among them. *)

Secp256k1 == [secp256k1 |-> TRUE]
Other(n) == [other |-> n]
CurveFrom(n) == IF n = 0 THEN Secp256k1 ELSE Other(n)
CurveNumber(curve) == IF curve = Secp256k1 THEN 0 ELSE curve.other

\* EcKey::checked, for EcKey::private and EcKey::public
EcKeyNew(curve, is_private, data) ==
  Check(IF curve # Secp256k1 THEN data # <<>>
        ELSE IF is_private THEN Len(data) = PRIVATE_KEY_LEN
        ELSE Len(data) \in {COMPRESSED_KEY_LEN, UNCOMPRESSED_KEY_LEN},
        "InvalidLength", [curve |-> curve, is_private |-> is_private, data |-> data])

EcKeyTerm(v) ==
  WriteFields(v, {<<1, "curve">>, <<2, "is_private">>, <<3, "data">>},
              LAMBDA f : CASE f = "curve"      -> Uint(CurveNumber(v.curve))
                           [] f = "is_private" -> Bool(TRUE)
                           [] f = "data"       -> Bytes(v.data),
              LAMBDA f : (f = "curve" /\ v.curve = Secp256k1) \/ (f = "is_private" /\ ~v.is_private))

EcKeyFrom(c) ==
  Then(Then(closed(c, {1, 2, 3}), LAMBDA m :
         ReadFields(m, <<Field("curve", 1, "uint", "default"),
                         Field("is_private", 2, "boolean", "default"),
                         Field("data", 3, "bytes", "required")>>,
                    LAMBDA kind, v, x : CASE kind = "uint"    -> Then(uint(x), LAMBDA n : Ok(CurveFrom(n)))
                                          [] kind = "boolean" -> boolean(x)
                                          [] kind = "bytes"   -> bytes(x),
                    LAMBDA kind : IF kind = "uint" THEN Secp256k1 ELSE FALSE)),
       LAMBDA v : EcKeyNew(v.curve, v.is_private, v.data))

-----------------------------------------------------------------------------
(* address: of a type, over a hash, or of none, over any bytes. *)

AddressTypes == <<"p2pkh", "p2sh", "p2wpkh">>      \* AddressType::wire, plus one

AddressTyped(address_type, hash) == [address_type |-> address_type, data |-> hash]
AddressUntyped(data) == Check(data # <<>>, "InvalidLength", [data |-> data])

AddressTerm(v) ==
  WriteFields(v, {<<1, "info">>, <<2, "address_type">>, <<3, "data">>},
              LAMBDA f : CASE f = "info"         -> Write("coin_info", CoinInfoTerm(v.info))
                           [] f = "address_type" -> Uint((CHOOSE i \in 1 .. 3 : AddressTypes[i] = v[f]) - 1)
                           [] f = "data"         -> Bytes(v.data),
              LAMBDA f : FALSE)

AddressFrom(c) ==
  Then(closed(c, {1, 2, 3}), LAMBDA m :
    ReadFields(m, <<Field("info", 1, "coin_info", "optional"),
                    Field("address_type", 2, "type", "optional"),
                    Field("data", 3, "data", "required")>>,
               LAMBDA kind, v, x :
                 CASE kind = "coin_info" -> Then(untag(x, Expected(kind)), CoinInfoFrom)
                   [] kind = "type" -> Then(uint_below(x, 2), LAMBDA n : Ok(AddressTypes[n + 1]))
                   [] kind = "data" -> Then(bytes(x), LAMBDA b :
                        Check(IF "address_type" \in DOMAIN v THEN Len(b) = HASH_LEN ELSE b # <<>>,
                              "InvalidLength", b)),
               LAMBDA kind : 0))
=============================================================================
