----------------------------- MODULE RegistryTags ----------------------------
(***************************************************************************)
(* The CBOR tags of the registry (tags.rs) and what the types derive from  *)
(* them: which tag is written, which are read, and the name of the UR type *)
(* of each.                                                                *)
(***************************************************************************)
EXTENDS Integers

V2 == [seed |-> 40300, hdkey |-> 40303, keypath |-> 40304, coin_info |-> 40305,
       eckey |-> 40306, address |-> 40307, output_descriptor |-> 40308,
       sskr |-> 40309, psbt |-> 40310, account_descriptor |-> 40311]
V1 == [seed |-> 300, hdkey |-> 303, keypath |-> 304, coin_info |-> 305,
       eckey |-> 306, address |-> 307, output_descriptor |-> 308,
       sskr |-> 309, psbt |-> 310, account_descriptor |-> 311]

SH == 400
WSH == 401
PK == 402
PKH == 403
WPKH == 404
COMBO == 405
MULTI == 406
SORTEDMULTI == 407
RAW == 408
TR == 409
COSIGNER == 410
ScriptTags == SH .. COSIGNER

Types == DOMAIN V2

\* CBORTagged::cbor_tags: the first is written, all are read.
cbor_tags(type) == <<V2[type], V1[type]>>

Expected(type) == {cbor_tags(type)[i] : i \in DOMAIN cbor_tags(type)}

KeyTypes == {"hdkey", "eckey", "address"}
is_key_tag(tag) == \E type \in KeyTypes : tag \in Expected(type)

\* The names, which are the types of URs
V2Names == [seed |-> "seed", hdkey |-> "hdkey", keypath |-> "keypath",
            coin_info |-> "coin-info", eckey |-> "eckey", address |-> "address",
            output_descriptor |-> "output-descriptor", sskr |-> "sskr", psbt |-> "psbt",
            account_descriptor |-> "account-descriptor"]
V1Names == [seed |-> "crypto-seed", hdkey |-> "crypto-hdkey", keypath |-> "crypto-keypath",
            coin_info |-> "crypto-coin-info", eckey |-> "crypto-eckey",
            address |-> "crypto-address", output_descriptor |-> "crypto-output",
            sskr |-> "crypto-sskr", psbt |-> "crypto-psbt",
            account_descriptor |-> "crypto-account"]

NameOfTag(tag) ==
  LET type == CHOOSE t \in Types : tag \in {V2[t], V1[t]}
  IN  IF tag = V2[type] THEN V2Names[type] ELSE V1Names[type]

first_tag_ur_type(type) == NameOfTag(cbor_tags(type)[1])
tag_ur_types(type) == {NameOfTag(tag) : tag \in Expected(type)}
=============================================================================
