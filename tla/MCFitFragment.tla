---------------------------- MODULE MCFitFragment ---------------------------
(***************************************************************************)
(* Payloads around the sizes where the count or a CBOR head changes width, *)
(* and limits from too small for any part to larger than the single-part   *)
(* UR; parts measured where a sequence number gains a digit or a byte.     *)
(***************************************************************************)
EXTENDS FitFragment

MCDataLengths == (1 .. 50) \cup {100, 101, 240, 255, 256, 257}
MCMaxCharsGiven == {20, 66, 79, 80, 84, 85, 90, 91, 100, 101, 150, 200, 399, 400}
MCSequences == {1, 9, 10, 23, 24, 99, 255, 256, 65535, 65536, 99999, 100000}
=============================================================================
