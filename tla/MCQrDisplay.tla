----------------------------- MODULE MCQrDisplay ----------------------------
(***************************************************************************)
(* Terminals too small for any code, for most and for few; lists of no to  *)
(* three lines; payloads whose single UR fits, whose parts fit, or nothing *)
(* does; streams whose parts grow.                                         *)
(***************************************************************************)
EXTENDS QrDisplay

MCSizes == {<<30, 13>>, <<80, 24>>, <<120, 40>>}
Grows(first, by) == [n \in 1 .. U32Max |-> first + by * (n - 1)]
MCStreams == {Grows(40, 2), Grows(55, 8), Grows(90, 1)}
Lists == {<<>>, <<60>>, <<190>>, <<16, 29>>, <<60, 170, 60>>}
MCJobs ==
  {[command |-> "qr", lines |-> l] : l \in Lists}
    \cup {[command |-> "encode", max_chars |-> m, animate |-> a, max_fragment |-> f,
           empty |-> e, single |-> s] :
            m \in {NoMax, 0, 60, 100}, a \in BOOLEAN, f \in BOOLEAN, e \in BOOLEAN,
            s \in {50, 300}}
=============================================================================
