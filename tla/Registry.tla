------------------------------- MODULE Registry ------------------------------
(***************************************************************************)
(* A value of the registry on its way from the program that builds it to   *)
(* the program that reads it.                                              *)
(*                                                                         *)
(* A value is made by a constructor and changed by its setters, then       *)
(* written as tagged CBOR or as a UR.  Another implementation may stand    *)
(* between: one that knows the tags of version 1 only, one that leaves out *)
(* or adds a field or writes another value in it, one that writes dates in *)
(* days, one that writes scripts of version 1.  The reader asks for a type *)
(* at one of two doors: TryFrom<CBOR>, by tag, and UrDecodable::from_ur,   *)
(* which goes by the type of the UR (typed/traits.rs).                     *)
(***************************************************************************)
EXTENDS RegistryDescriptors

CONSTANTS
  Made,          \* what the constructors return: <<type, result>>
  Setters,       \* <<field, argument>> for the setters
  MaxSets,       \* bound: setters called on one value
  MaxEdited,     \* bound: setters called on one that is edited on its way
  FieldKeys,     \* bound: keys that are written on its way
  Foreign,       \* <<type, body>> that other implementations write
  FieldTerms     \* what they may write in a field

VARIABLES
  stage,         \* "empty", "built", "sent"
  type, value,   \* the value
  sets,          \* setters called
  wire,          \* [tag, name, body]: the tag, the name of the UR type, the body
  change,        \* what was done to it on its way
  asked,         \* the type that is read
  outcome        \* what each door has returned

vars == <<stage, type, value, sets, wire, change, asked, outcome>>

Unset == <<>>

-----------------------------------------------------------------------------
(* Building *)

Build ==
  /\ stage = "empty"
  /\ \E made \in Made :
       /\ IsOk(made[2])
       /\ type' = made[1]
       /\ value' = made[2].ok
  /\ stage' = "built"
  /\ UNCHANGED <<sets, wire, change, asked, outcome>>

\* Fields with a setter that cannot fail
SetterFields ==
  [seed              |-> {"creation_date", "name", "note"},
   hdkey             |-> {"chain_code", "use_info", "origin", "children", "name", "note"},
   address           |-> {"info"},
   output_descriptor |-> {"name", "note"}]

\* The with_* of a type
SetField(field, x) ==
  IF type = "hdkey" /\ field = "parent_fingerprint" /\ ~is_master(value)
  THEN with_parent_fingerprint(value, x)
  ELSE IF type = "account_descriptor" /\ field = "output_descriptor"
  THEN Ok(with_output_descriptor(value, x))
  ELSE IF type \notin DOMAIN SetterFields \/ (type = "hdkey" /\ is_master(value))
  THEN Err("no such setter")
  ELSE IF field \notin SetterFields[type] THEN Err("no such setter")
  ELSE Ok(IF field \in {"name", "note"} THEN nonempty(value, field, x) ELSE With(value, field, x))

Set ==
  /\ stage = "built" /\ sets < MaxSets
  /\ \E s \in Setters : LET r == SetField(s[1], s[2]) IN IsOk(r) /\ value' = r.ok
  /\ sets' = sets + 1
  /\ UNCHANGED <<stage, type, wire, change, asked, outcome>>

-----------------------------------------------------------------------------
(* Writing and reading, for every type *)

untagged_cbor(t, v) ==
  CASE t = "coin_info"          -> CoinInfoTerm(v)
    [] t = "keypath"            -> KeypathTerm(v)
    [] t = "seed"               -> SeedTerm(v)
    [] t = "sskr"               -> SskrTerm(v)
    [] t = "psbt"               -> PsbtTerm(v)
    [] t = "hdkey"              -> HdKeyTerm(v)
    [] t = "eckey"              -> EcKeyTerm(v)
    [] t = "address"            -> AddressTerm(v)
    [] t = "output_descriptor"  -> OutputTerm(v)
    [] t = "account_descriptor" -> AccountTerm(v)

from_body(t, c) ==
  CASE t = "coin_info"          -> CoinInfoFrom(c)
    [] t = "keypath"            -> KeypathFrom(c)
    [] t = "seed"               -> SeedFrom(c)
    [] t = "sskr"               -> SskrFrom(c)
    [] t = "psbt"               -> PsbtFrom(c)
    [] t = "hdkey"              -> HdKeyFrom(c)
    [] t = "eckey"              -> EcKeyFrom(c)
    [] t = "address"            -> AddressFrom(c)
    [] t = "output_descriptor"  -> OutputFrom(c)
    [] t = "account_descriptor" -> AccountFrom(c)

try_from(t, c) == Then(untag(c, Expected(t)), LAMBDA body : from_body(t, body))

\* Every error of the registry, through dcbor::Error, is of one kind.
map_cbor(r) == IF IsOk(r) \/ r = Panic THEN r ELSE Err("CborType")

from_urMutant(t, name, c) == map_cbor(from_body(t, c))      \* any type of UR will do
from_ur(t, name, c) ==
  IF name \notin tag_ur_types(t) THEN Err("UnexpectedType") ELSE map_cbor(from_body(t, c))

Send ==
  /\ stage = "built"
  /\ stage' = "sent"
  /\ wire' = [tag |-> cbor_tags(type)[1], name |-> first_tag_ur_type(type),
              body |-> untagged_cbor(type, value)]
  /\ UNCHANGED <<type, value, sets, change, asked, outcome>>

Read(t, door) ==
  /\ stage = "sent" /\ door \notin DOMAIN outcome
  /\ asked \in {"none", t}
  /\ door = "ur" => "cbor" \in DOMAIN outcome      \* bound: the doors in turn
  /\ t # type => change = "none"      \* bound: a wrong type is asked of what was sent
  /\ asked' = t
  /\ outcome' = outcome @@
       door :> IF door = "cbor" THEN try_from(t, Tagged(wire.tag, wire.body))
               ELSE from_ur(t, wire.name, wire.body)
  /\ UNCHANGED <<stage, type, value, sets, wire, change>>

-----------------------------------------------------------------------------
(* On the way *)

\* Tags of version 2 become those of version 1, at every depth.
RECURSIVE Retag(_)
Retag(c) ==
  LET old(tag) == IF \E t \in Types : V2[t] = tag
                  THEN V1[CHOOSE t \in Types : V2[t] = tag] ELSE tag
  IN  CASE Is(c, "tag")   -> Tagged(old(c.tag), Retag(c.content))
        [] Is(c, "array") -> Array([i \in DOMAIN c.array |-> Retag(c.array[i])])
        [] Is(c, "map")   -> Map([k \in DOMAIN c.map |-> Retag(c.map[k])])
        [] OTHER          -> c

Carry(how, w) ==
  /\ stage = "sent" /\ change = "none" /\ asked = "none"
  /\ change' = how
  /\ wire' = w
  /\ UNCHANGED <<stage, type, value, sets, asked, outcome>>

OldWallet ==
  Carry("v1", [tag |-> V1[type], name |-> V1Names[type], body |-> Retag(wire.body)])

\* The date of a seed, when it is a whole day, is written in days.
DaysWallet ==
  /\ stage = "sent" /\ type = "seed" /\ change = "none" /\ 2 \in DOMAIN wire.body.map
  /\ LET seconds == integer(wire.body.map[2].content).ok
     IN  /\ seconds % SECONDS_PER_DAY = 0
         /\ Carry("days", [wire EXCEPT !.body =
              Map(With(@.map, 2, Tagged(100, Signed(seconds \div SECONDS_PER_DAY))))])

DropsField ==
  /\ stage = "sent" /\ sets <= MaxEdited /\ Is(wire.body, "map")
  /\ \E k \in DOMAIN wire.body.map :
       Carry("edited", [wire EXCEPT !.body = Map(Without(@.map, k))])

\* A field, known or not, is there with another value.
WritesField ==
  /\ stage = "sent" /\ sets <= MaxEdited /\ Is(wire.body, "map")
  /\ \E k \in FieldKeys, x \in FieldTerms :
       Carry("edited", [wire EXCEPT !.body = Map(With(@.map, k, x))])

\* A body that another implementation wrote from values of its own
Arrives ==
  /\ stage = "empty"
  /\ \E f \in Foreign, old \in BOOLEAN :
       /\ type' = f[1]
       /\ wire' = [tag  |-> IF old THEN V1[f[1]] ELSE V2[f[1]],
                   name |-> IF old THEN V1Names[f[1]] ELSE V2Names[f[1]], body |-> f[2]]
  /\ stage' = "sent" /\ change' = "foreign"
  /\ UNCHANGED <<value, sets, asked, outcome>>

-----------------------------------------------------------------------------
Init ==
  /\ stage = "empty" /\ type = "none" /\ value = Unset /\ sets = 0
  /\ wire = Unset /\ change = "none" /\ asked = "none" /\ outcome = <<>>

ReadCbor == \E t \in Types : Read(t, "cbor")
ReadUr == \E t \in Types : Read(t, "ur")

Next ==
  \/ Build \/ Set \/ Send
  \/ OldWallet \/ DaysWallet \/ DropsField \/ WritesField \/ Arrives
  \/ ReadCbor \/ ReadUr

Spec == Init /\ [][Next]_vars
=============================================================================
