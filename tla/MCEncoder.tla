------------------------------ MODULE MCEncoder -----------------------------
(***************************************************************************)
(* Messages of every length up to one over u32::MAX (12 here), every pair  *)
(* of fragment lengths up to 6 (the invalid ones included), and encoders   *)
(* started at zero, past K, and next to the end of the sequence numbers.   *)
(***************************************************************************)
EXTENDS FountainEncoder, TLC

MCCrc32(length, bytes) == (length + SumSet(bytes)) % 4
MCMixed(n, count, checksum) ==
  {c \in 0 .. count - 1 : (c + n + checksum) % 2 = 0} \cup {n % count}

MCMessages == {[length |-> n, bytes |-> {b \in {0, n - 1} : b >= 0 /\ b < n}] : n \in 0 .. 13}
MCOptions == [max : 0 .. 6, min : 0 .. 4, first : {0, 9}]
MCParts == {}
MCSources == {m \in MCMessages : m.length > 0}
=============================================================================
