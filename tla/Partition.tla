------------------------------ MODULE Partition -----------------------------
(***************************************************************************)
(* How a message is cut into fragments: fragment_length, the closed form   *)
(* of URKit's search, and the padding of the last fragment.                *)
(***************************************************************************)
EXTENDS Integers

DivCeil(a, b) == IF a % b > 0 THEN a \div b + 1 ELSE a \div b

FragmentLengthMutant(length, max, min) ==      \* the count is rounded down
  LET byMin == IF length \div min = 0 THEN 1 ELSE length \div min
      byMax == IF length \div max = 0 THEN 1 ELSE length \div max
  IN  DivCeil(length, IF byMax < byMin THEN byMax ELSE byMin)

FragmentLength(length, max, min) ==
  LET byMin == IF length \div min = 0 THEN 1 ELSE length \div min
      byMax == DivCeil(length, max)
  IN  DivCeil(length, IF byMax < byMin THEN byMax ELSE byMin)

PadMutant(length, len) == len - (length % len)      \* a whole fragment of padding
Pad(length, len) == (len - (length % len)) % len
=============================================================================
