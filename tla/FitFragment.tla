----------------------------- MODULE FitFragment ----------------------------
(***************************************************************************)
(* fit_fragment_len of `bcur encode`: a binary search for the fragment     *)
(* length whose UR fits --max-chars, and the parts printed with it.        *)
(*                                                                         *)
(* Only lengths matter.  A UR is measured as the code builds it: the       *)
(* header, then two characters for each byte of the body and of its        *)
(* four-byte checksum; the body of a part is its CBOR, whose integers are  *)
(* in their shortest form.                                                 *)
(***************************************************************************)
EXTENDS Integers, Partition, FiniteSetsExt

CONSTANTS
  DataLengths,     \* lengths of the payload
  MaxCharsGiven,   \* values of --max-chars
  TypeLen,         \* length of the type token
  Checksum,        \* CRC-32 of the payload; only its size matters
  Sequences        \* sequence numbers at which a part is measured

ASSUME FitAssumption ==
  /\ DataLengths \subseteq Nat \ {0}
  /\ MaxCharsGiven \subseteq Nat \ {0}
  /\ Sequences \subseteq Nat \ {0}
  /\ TypeLen \in Nat /\ Checksum \in Nat

MinFragmentLen == 10       \* EncoderOptions::new
PartLenSlack == 12         \* PART_LEN_SLACK

VARIABLES data_len, max_chars, lo, hi, best, pc, printed

fitVars == <<data_len, max_chars, lo, hi, best, pc, printed>>

\* encode_u32 / encode_bstr: bytes of a shortest-form CBOR head
HeadSize(n) ==
  IF n <= 23 THEN 1 ELSE IF n <= 255 THEN 2 ELSE IF n <= 65535 THEN 3 ELSE 5

\* Decimal digits of a u32
PowersOfTen ==
  <<10, 100, 1000, 10000, 100000, 1000000, 10000000, 100000000, 1000000000>>
Digits(n) == 1 + Cardinality({k \in 1 .. 9 : n >= PowersOfTen[k]})

\* bytewords::encode, minimal style
Bytewords(size) == 2 * (size + 4)

PartCborSize(sequence, count, length, len) ==
  1 + HeadSize(sequence) + HeadSize(count) + HeadSize(length)
    + HeadSize(Checksum) + HeadSize(len) + len

\* ur::Encoder: `ur:<type>/<body>` when one fragment holds the message,
\* `ur:<type>/<seq>-<count>/<body>` otherwise
UrLength(length, max, sequence) ==
  LET len   == FragmentLength(length, max, MinFragmentLen)
      count == (length + Pad(length, len)) \div len
  IN  3 + TypeLen + 1 +
      (IF count = 1 THEN Bytewords(length)
       ELSE Digits(sequence) + 1 + Digits(count) + 1
              + Bytewords(PartCborSize(sequence, count, length, len)))

\* measure_part: the encoder of this length cannot be built below the minimum
Measurable(max) == max >= MinFragmentLen

Fits(max) ==
  /\ Measurable(max)
  /\ UrLength(data_len, max, 1) + PartLenSlack <= max_chars

\* Any pair gets here: --animate sends even a payload whose single-part UR
\* fits to the fountain encoder.
FitInit ==
  /\ data_len \in DataLengths /\ max_chars \in MaxCharsGiven
  /\ lo = 1 /\ hi = data_len /\ best = 0      \* 0 is None
  /\ pc = "search" /\ printed = 0

ProbeMutant ==      \* a length too small to measure is taken as too long
  /\ pc = "search" /\ lo <= hi
  /\ LET mid == lo + (hi - lo) \div 2 IN
       IF Fits(mid)
       THEN best' = mid /\ lo' = mid + 1 /\ hi' = hi
       ELSE hi' = mid - 1 /\ UNCHANGED <<lo, best>>
  /\ UNCHANGED <<data_len, max_chars, pc, printed>>

ProbeStuck ==      \* the lower bound is moved to the probe itself
  /\ pc = "search" /\ lo <= hi
  /\ LET mid == lo + (hi - lo) \div 2 IN
       IF Fits(mid) THEN best' = mid /\ lo' = mid /\ hi' = hi
       ELSE IF Measurable(mid) THEN hi' = mid - 1 /\ UNCHANGED <<lo, best>>
       ELSE lo' = mid + 1 /\ UNCHANGED <<hi, best>>
  /\ UNCHANGED <<data_len, max_chars, pc, printed>>

ProbeLast ==      \* the last length probed is kept, fitting or not
  /\ pc = "search" /\ lo <= hi
  /\ LET mid == lo + (hi - lo) \div 2 IN
       /\ best' = mid
       /\ IF Fits(mid) \/ ~Measurable(mid)
          THEN lo' = mid + 1 /\ hi' = hi ELSE hi' = mid - 1 /\ lo' = lo
  /\ UNCHANGED <<data_len, max_chars, pc, printed>>

\* One iteration of the search.
Probe ==
  /\ pc = "search" /\ lo <= hi
  /\ LET mid == lo + (hi - lo) \div 2 IN
       \/ Fits(mid) /\ best' = mid /\ lo' = mid + 1 /\ hi' = hi
       \/ Measurable(mid) /\ ~Fits(mid) /\ hi' = mid - 1 /\ UNCHANGED <<lo, best>>
       \/ ~Measurable(mid) /\ lo' = mid + 1 /\ UNCHANGED <<hi, best>>
  /\ UNCHANGED <<data_len, max_chars, pc, printed>>

\* The search ends with the best length, or with "cannot fit".
EndSearch ==
  /\ pc = "search" /\ lo > hi
  /\ pc' = IF best = 0 THEN "error" ELSE "print"
  /\ UNCHANGED <<data_len, max_chars, lo, hi, best, printed>>

\* A part of the stream, sequence numbers rising
PrintLine ==
  /\ pc = "print"
  /\ \E n \in Sequences : n > printed /\ printed' = n
  /\ UNCHANGED <<data_len, max_chars, lo, hi, best, pc>>

FitNext == Probe \/ EndSearch \/ PrintLine

\* The loop runs until it ends.
FitSpec ==
  FitInit /\ [][FitNext]_fitVars /\ WF_fitVars(Probe) /\ WF_fitVars(EndSearch)

-----------------------------------------------------------------------------
(* Properties *)

\* Whatever the search returns does fit, slack included.
ResultFits == pc = "print" => Fits(best)

MultiPart(max) ==
  LET len == FragmentLength(data_len, max, MinFragmentLen) IN len < data_len

\* No fragment length that cuts the payload in several parts and fits is
\* missed for a smaller one, though the length of a part does not grow evenly
\* with it (the count loses digits as fragments grow).  It is so while the
\* count fits 16 bits: at 65536 fragments its CBOR head loses two bytes at
\* once, and the search can pass over the only length that fits.
MissesNoMultiPart ==
  pc # "search" /\ data_len \div MinFragmentLen <= 65535 =>
    \A max \in 1 .. data_len : MultiPart(max) /\ Fits(max) =>
      FragmentLength(data_len, max, MinFragmentLen)
        <= (IF best = 0 THEN 0 ELSE FragmentLength(data_len, best, MinFragmentLen))

\* The search ends.
Terminates == <>(pc # "search")

\* The doc of PART_LEN_SLACK ("Slack for later sequence numbers") and of
\* --max-chars ("Max characters per UR"): a part printed later is still within
\* the limit.
LaterPartsFit ==
  pc = "print" /\ printed # 0 => UrLength(data_len, best, printed) <= max_chars
=============================================================================
