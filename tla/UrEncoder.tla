------------------------------ MODULE UrEncoder -----------------------------
(***************************************************************************)
(* ur::Encoder: the lines of a message under a type.                       *)
(*                                                                         *)
(* It owns a fountain encoder.  A message of one fragment is sent as one   *)
(* single-part UR, repeated for ever without the fountain encoder; a larger *)
(* one as a header and a part for each sequence number.  A line is what    *)
(* UrDecoder's parser makes of it.                                         *)
(***************************************************************************)
EXTENDS FountainStream

CONSTANTS
  Messages,      \* the messages given to `new`: [length, bytes]
  Options,       \* EncoderOptions: [max, min, first]
  U32Max         \* u32::MAX

VARIABLES
  options, source, stream, sequence, last_fragment_indexes, result, output,
                 \* the fountain encoder
  ur_type,
  single,        \* whether the single-part URI was precomputed
  emitted,       \* whether it has been emitted
  line           \* what the last call of `next` returned

Fountain == INSTANCE FountainEncoder

fountain == <<options, source, stream, sequence, last_fragment_indexes, result,
              output>>
vars == <<fountain, ur_type, single, emitted, line>>

NoLine == [head |-> "none"]

Line(type, body) == [head |-> "ok", ur_type |-> type, text |-> "ok", body |-> body]

Init ==
  /\ Fountain!Init
  /\ ur_type = "none" /\ single = FALSE /\ emitted = FALSE /\ line = NoLine

New(type, m, o) ==
  /\ Fountain!New(m, o)
  /\ ur_type' = type
  /\ single' = (stream'.sequence_count = 1)
  /\ UNCHANGED <<emitted, line>>

RefuseNew(m, o) ==
  /\ Fountain!RefuseNew(m, o)
  /\ UNCHANGED <<ur_type, single, emitted, line>>

\* next, K = 1: the same line every time
NextSingle ==
  /\ stream # NoStream /\ single
  /\ emitted' = TRUE
  /\ line' = Line(ur_type, [kind |-> "single", length |-> source.length,
                            bytes |-> source.bytes])
  /\ UNCHANGED <<fountain, ur_type, single>>

\* next, K > 1: a part under its own sequence number and count
NextMulti ==
  /\ ~single
  /\ Fountain!NextPart
  /\ line' = Line(ur_type, [kind |-> "multi", sequence |-> output'.sequence,
                            count |-> output'.sequence_count, part |-> output'])
  /\ UNCHANGED <<ur_type, single, emitted>>

\* next after the last sequence number
End ==
  /\ ~single
  /\ Fountain!End
  /\ line' = NoLine
  /\ UNCHANGED <<ur_type, single, emitted>>

NextLine == NextSingle \/ NextMulti

IsComplete == IF single THEN emitted ELSE Fountain!IsComplete
=============================================================================
