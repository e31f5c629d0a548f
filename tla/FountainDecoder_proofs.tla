----------------------- MODULE FountainDecoder_proofs -----------------------
(***************************************************************************)
(* What the elimination guarantees for every stream, every set of parts    *)
(* and every choice of fragments.                                          *)
(*                                                                         *)
(* The inductive invariant joins the type invariant to the echelon form,   *)
(* the coverage of the scan and the counters: none of them is inductive    *)
(* alone.  The counter of recovered fragments stays a natural number only  *)
(* because a unit row is never touched again, which is the echelon form;   *)
(* the echelon form survives an insertion only because the scan leaves no  *)
(* pivot in the mask; and the scan does so only because of the echelon     *)
(* form.                                                                   *)
(*                                                                         *)
(* The second half is about what the rows mean: they are XORs of the parts *)
(* that were accepted and have the same solutions.  So the message handed  *)
(* over is the one the parts determine, and the decoder implements the     *)
(* session of FountainSession.  An XOR of index sets is never taken apart  *)
(* into its terms, which would be an induction; instead the invariant says *)
(* of every row which set of parts it comes from.                          *)
(***************************************************************************)
EXTENDS FountainDecoder, FountainStream_proofs

IInv ==
  /\ TypeOK
  /\ ReducedEchelon
  /\ ScanCoversPivots
  /\ CountersExact
  /\ CollectingIsShort
  /\ NeverInternal

-----------------------------------------------------------------------------
(* Insertion of a row *)

\* What back substitution leaves of each row.
LEMMA BackSubstituteRows ==
  ASSUME NEW pivot, pivot \notin DOMAIN rows
  PROVE  LET new == BackSubstitute(pivot)
         IN  /\ DOMAIN new = DOMAIN rows \cup {pivot}
             /\ new[pivot].mask = mask /\ new[pivot].data = data
             /\ \A c \in DOMAIN rows :
                  IF pivot \in rows[c].mask
                  THEN /\ new[c].mask = Xor(rows[c].mask, mask)
                       /\ new[c].data = Xor(rows[c].data, data)
                  ELSE new[c] = rows[c]
BY DEF BackSubstitute, XorRow

\* Storing a reduced row keeps the echelon form.
LEMMA EchelonKept ==
  ASSUME ReducedEchelon, mask \subseteq Nat, DOMAIN rows \subseteq Nat,
         \A c \in DOMAIN rows : rows[c].mask \subseteq Nat,
         mask \cap DOMAIN rows = {},
         NEW pivot \in mask, \A d \in mask : pivot <= d
  PROVE  LET new == BackSubstitute(pivot)
         IN  \A c \in DOMAIN new :
               /\ c \in new[c].mask
               /\ \A d \in new[c].mask : c <= d
               /\ \A d \in DOMAIN new \ {c} : c \notin new[d].mask
<1> DEFINE new == BackSubstitute(pivot)
<1>1. /\ pivot \notin DOMAIN rows
      /\ DOMAIN new = DOMAIN rows \cup {pivot}
      /\ new[pivot].mask = mask
  BY BackSubstituteRows
<1>2. \A c \in DOMAIN rows : \A d :
        d \in new[c].mask <=>
          IF pivot \in rows[c].mask
          THEN (d \in rows[c].mask /\ d \notin mask) \/ (d \in mask /\ d \notin rows[c].mask)
          ELSE d \in rows[c].mask
  BY <1>1, BackSubstituteRows, XorMember
<1> HIDE DEF new
<1>3. ASSUME NEW c \in DOMAIN rows
      PROVE  /\ c \in new[c].mask
             /\ \A d \in new[c].mask : c <= d
             /\ \A d \in DOMAIN new \ {c} : c \notin new[d].mask
  <2>1. c \in rows[c].mask /\ c \notin mask
    BY DEF ReducedEchelon
  <2>2. c \in new[c].mask
    BY <1>2, <2>1
  <2>3. \A d \in new[c].mask : c <= d
    <3>1. ASSUME NEW d \in new[c].mask, d \in rows[c].mask
          PROVE  c <= d
      BY <3>1 DEF ReducedEchelon
    <3>2. ASSUME NEW d \in new[c].mask, d \notin rows[c].mask
          PROVE  c <= d
      <4>1. pivot \in rows[c].mask /\ d \in mask
        BY <1>2, <3>2
      <4>2. c <= pivot /\ pivot <= d
        BY <4>1 DEF ReducedEchelon
      <4>3. QED
        BY <4>1, <4>2
    <3>3. QED
      BY <3>1, <3>2
  <2>4. ASSUME NEW d \in DOMAIN new \ {c}
        PROVE  c \notin new[d].mask
    <3>1. CASE d = pivot
      BY <1>1, <2>1, <3>1
    <3>2. CASE d # pivot
      <4>1. d \in DOMAIN rows /\ c \notin rows[d].mask
        BY <1>1, <3>2 DEF ReducedEchelon
      <4>2. QED
        BY <1>2, <2>1, <4>1
    <3>3. QED
      BY <3>1, <3>2
  <2>5. QED
    BY <2>2, <2>3, <2>4
<1>4. /\ pivot \in new[pivot].mask
      /\ \A d \in new[pivot].mask : pivot <= d
  BY <1>1
<1>5. ASSUME NEW d \in DOMAIN new \ {pivot}
      PROVE  pivot \notin new[d].mask
  BY <1>1, <1>2
<1>6. QED
  BY <1>1, <1>3, <1>4, <1>5 DEF new

\* A row that is a unit holds no other column than its pivot.
LEMMA UnitRow ==
  ASSUME TypeOK, ReducedEchelon, NEW c \in DOMAIN rows
  PROVE  IsUnit(rows[c]) <=> rows[c].mask = {c}
<1>1. c \in rows[c].mask
  BY DEF ReducedEchelon
<1>2. IsFiniteSet(rows[c].mask)
  <2>1. rows[c].mask \in SUBSET Columns(stream) /\ IsFiniteSet(Columns(stream))
    BY ColumnsFacts DEF TypeOK
  <2>2. QED
    BY <2>1, FS_Subset
<1>3. Cardinality(rows[c].mask) = 1 <=> \E x : rows[c].mask = {x}
  BY <1>2, FS_Singleton
<1>4. QED
  BY <1>1, <1>3 DEF IsUnit

\* The running count of unit rows is what a recount after the insertion gives:
\* a row that is a unit is never touched again.
LEMMA RecoveredKept ==
  ASSUME TypeOK, ReducedEchelon, CountersExact,
         NEW pivot, pivot \notin DOMAIN rows
  PROVE  LET new == BackSubstitute(pivot)
         IN  RecoveredAfter(pivot, new)
               = Cardinality({c \in DOMAIN new : IsUnit(new[c])})
<1> DEFINE new == BackSubstitute(pivot)
           touched == {c \in DOMAIN rows : pivot \in rows[c].mask}
           lost == {c \in touched : IsUnit(rows[c]) /\ ~IsUnit(new[c])}
           gained == {c \in touched : ~IsUnit(rows[c]) /\ IsUnit(new[c])}
           units == {c \in DOMAIN rows : IsUnit(rows[c])}
           kept == {c \in DOMAIN rows : IsUnit(new[c])}
           all == {c \in DOMAIN new : IsUnit(new[c])}
<1>1. /\ DOMAIN new = DOMAIN rows \cup {pivot}
      /\ \A c \in DOMAIN rows : pivot \notin rows[c].mask => new[c] = rows[c]
  BY BackSubstituteRows
<1>2. RecoveredAfter(pivot, new)
        = recovered + Cardinality(gained) - Cardinality(lost)
            + (IF IsUnit(new[pivot]) THEN 1 ELSE 0)
  BY DEF RecoveredAfter
<1> HIDE DEF new
<1>3. IsFiniteSet(DOMAIN rows)
  <2>1. DOMAIN rows \in SUBSET Columns(stream) /\ IsFiniteSet(Columns(stream))
    BY ColumnsFacts DEF TypeOK
  <2>2. QED
    BY <2>1, FS_Subset
<1>4. lost = {}
  <2>1. ASSUME NEW c \in touched, IsUnit(rows[c])
        PROVE  FALSE
    <3>1. rows[c].mask = {c} /\ pivot \in rows[c].mask /\ c \in DOMAIN rows
      BY <2>1, UnitRow
    <3>2. QED
      BY <3>1
  <2>2. QED
    BY <2>1
<1>5. kept = units \cup gained /\ units \cap gained = {}
  <2>1. units \subseteq kept
    BY <1>1, <1>4
  <2>2. kept \subseteq units \cup gained
    BY <1>1
  <2>3. QED
    BY <2>1, <2>2
<1>6. /\ IsFiniteSet(units) /\ IsFiniteSet(gained) /\ IsFiniteSet(kept)
      /\ Cardinality(units) \in Nat /\ Cardinality(gained) \in Nat
      /\ Cardinality(kept) \in Nat
  <2>1. units \in SUBSET DOMAIN rows /\ gained \in SUBSET DOMAIN rows
          /\ kept \in SUBSET DOMAIN rows
    OBVIOUS
  <2> HIDE DEF units, gained, kept
  <2>2. IsFiniteSet(units) /\ IsFiniteSet(gained) /\ IsFiniteSet(kept)
    BY <1>3, <2>1, FS_Subset
  <2>3. QED
    BY <2>2, FS_CardinalityType
<1>7. Cardinality(kept) = Cardinality(units) + Cardinality(gained)
  <2> HIDE DEF units, gained, kept
  <2>1. Cardinality(units \cup gained)
          = Cardinality(units) + Cardinality(gained) - Cardinality(units \cap gained)
    BY <1>6, FS_Union
  <2>2. Cardinality(units \cap gained) = 0
    BY <1>5, FS_EmptySet
  <2>3. QED
    BY <1>5, <1>6, <2>1, <2>2
<1>8. Cardinality(all) = Cardinality(kept) + (IF IsUnit(new[pivot]) THEN 1 ELSE 0)
  <2>1. CASE IsUnit(new[pivot])
    <3>1. all = kept \cup {pivot} /\ pivot \notin kept
      BY <1>1, <2>1
    <3> HIDE DEF all, kept
    <3>2. Cardinality(kept \cup {pivot}) = Cardinality(kept) + 1
      BY <1>6, <3>1, FS_AddElement
    <3>3. QED
      BY <2>1, <3>1, <3>2
  <2>2. CASE ~IsUnit(new[pivot])
    <3>1. all = kept
      BY <1>1, <2>2
    <3> HIDE DEF all, kept
    <3>2. QED
      BY <1>6, <2>2, <3>1
  <2>3. QED
    BY <2>1, <2>2
<1>9. Cardinality(lost) = 0
  BY <1>4, FS_EmptySet
<1>10. recovered = Cardinality(units)
  BY DEF CountersExact
<1> HIDE DEF lost, gained, units, kept, all
<1>11. RecoveredAfter(pivot, new) = Cardinality(all)
  BY <1>2, <1>6, <1>7, <1>8, <1>9, <1>10
<1>12. QED
  BY <1>11 DEF all, new

-----------------------------------------------------------------------------
(* The steps *)

\* A new decoder satisfies the invariant.
LEMMA InitIInv == Init => IInv
<1> SUFFICES ASSUME Init PROVE IInv
  OBVIOUS
<1>1. rows = [c \in {} |-> NoPart] /\ DOMAIN rows = {}
  BY DEF Init
<1>2. TypeOK
  BY <1>1, MaxProcessedAssumption DEF Init, TypeOK, NoCall
<1>3. CountersExact
  <2>1. {c \in DOMAIN rows : IsUnit(rows[c])} = {}
    BY <1>1
  <2>2. QED
    BY <1>1, <2>1, FS_EmptySet DEF Init, CountersExact
<1>4. ReducedEchelon /\ ScanCoversPivots
  BY <1>1 DEF Init, NoCall, ReducedEchelon, ScanCoversPivots
<1>5. CollectingIsShort /\ NeverInternal
  BY DEF Init, CollectingIsShort, NeverInternal, NoStream
<1>6. QED
  BY <1>2, <1>3, <1>4, <1>5 DEF IInv

\* The steps that leave the rows, the stream and the call alone.
LEMMA QuietStep ==
  ASSUME IInv,
         UNCHANGED <<stream, rows, rank, recovered, last_indexes, message, accepted,
                     call>>,
         \/ UNCHANGED <<phase, error>>
         \/ phase' = "Failed" /\ pc = "idle" /\ error' # "Internal",
         processed' \in 0 .. MaxProcessed
  PROVE  IInv'
<1>1. TypeOK'
  BY DEF IInv, TypeOK, call, NoCall
<1>2. ReducedEchelon' /\ ScanCoversPivots'
  BY DEF IInv, ReducedEchelon, ScanCoversPivots, call
<1>3. CountersExact'
  BY DEF IInv, CountersExact, IsUnit
<1>4. CollectingIsShort' /\ NeverInternal'
  BY DEF IInv, CollectingIsShort, NeverInternal
<1>5. QED
  BY <1>1, <1>2, <1>3, <1>4 DEF IInv

\* saturating_add stays within the width of the counter.
LEMMA SaturateType ==
  processed \in 0 .. MaxProcessed => Saturate(processed) \in 0 .. MaxProcessed
BY MaxProcessedAssumption DEF Saturate

\* A frame after the end keeps the invariant.
LEMMA ReceiveTerminalStep == IInv /\ ReceiveTerminal => IInv'
BY QuietStep, SaturateType DEF ReceiveTerminal, IInv, TypeOK

\* A rejected part keeps the invariant.
LEMMA RejectInconsistentStep ==
  ASSUME IInv, NEW p \in Parts, RejectInconsistent(p) PROVE IInv'
BY QuietStep DEF RejectInconsistent, IInv, TypeOK, session

\* A part over a cap keeps the invariant.
LEMMA FailLimitStep ==
  ASSUME IInv, NEW p \in Parts, FailLimit(p) PROVE IInv'
<1>1. error' # "Internal"
  BY DEF FailLimit, LimitError
<1>2. QED
  BY <1>1, QuietStep DEF FailLimit, IInv, TypeOK

\* Locking or matching the stream keeps the invariant.
LEMMA AdmitStep ==
  ASSUME IInv, NEW p \in Parts, Admit(p) PROVE IInv'
<1>1. /\ StreamOf(p) \in Streams /\ StreamOf(p) # NoStream
      /\ StreamOf(p).sequence_count \in Nat /\ StreamOf(p).sequence_count > 0
      /\ Indexes(p) \subseteq Columns(StreamOf(p))
      /\ p.data \subseteq 0 .. StreamOf(p).fragment_len - 1
  BY PartFacts, StreamFacts
<1>2. stream = NoStream => DOMAIN rows = {} /\ last_indexes = {}
  <2>1. Columns(NoStream) = {}
    BY DEF Columns, NoStream
  <2>2. QED
    BY <2>1 DEF IInv, TypeOK
<1>3. stream = NoStream \/ stream' = stream
  BY DEF Admit
<1>4. TypeOK'
  <2>1. /\ DOMAIN rows' \subseteq Columns(stream')
        /\ last_indexes' \subseteq Columns(stream')
        /\ \A c \in DOMAIN rows' :
             /\ rows'[c].mask \subseteq Columns(stream')
             /\ rows'[c].data \subseteq 0 .. stream'.fragment_len - 1
    BY <1>2, <1>3 DEF Admit, IInv, TypeOK
  <2>2. QED
    BY <1>1, <2>1 DEF Admit, IInv, TypeOK
<1>5. ReducedEchelon'
  BY DEF Admit, IInv, ReducedEchelon
<1>6. ScanCoversPivots'
  BY DEF Admit, ScanCoversPivots
<1>7. CountersExact'
  BY DEF Admit, IInv, CountersExact, IsUnit
<1>8. CollectingIsShort'
  <2>1. CASE stream = NoStream
    <3>1. rank = 0
      BY <1>2, <2>1, FS_EmptySet DEF IInv, CountersExact
    <3>2. QED
      BY <1>1, <3>1 DEF Admit, CollectingIsShort
  <2>2. CASE stream # NoStream
    <3>1. stream' = stream /\ rank' = rank /\ phase' = "Collecting"
      BY <1>3, <2>2 DEF Admit
    <3>2. phase = "Collecting"
      BY <2>2 DEF Admit, Terminal, IInv, TypeOK
    <3>3. rank < stream.sequence_count
      BY <3>2 DEF IInv, CollectingIsShort
    <3>4. QED
      BY <3>1, <3>3 DEF IInv, CollectingIsShort
  <2>3. QED
    BY <2>1, <2>2
<1>9. NeverInternal'
  BY DEF Admit, IInv, NeverInternal
<1>10. QED
  BY <1>4, <1>5, <1>6, <1>7, <1>8, <1>9 DEF IInv

\* An iteration of forward_eliminate keeps the invariant.
LEMMA EliminateStep ==
  ASSUME IInv, Eliminate PROVE IInv'
<1> DEFINE column == Min(scan)
<1>1. /\ scan \in SUBSET Nat /\ scan # {}
      /\ scan \subseteq Columns(stream) /\ mask \subseteq Columns(stream)
  <2>1. Columns(stream) \subseteq Nat
    BY ColumnsFacts DEF IInv, TypeOK
  <2>2. QED
    BY <2>1 DEF Eliminate, IInv, TypeOK
<1>2. column \in scan
  BY <1>1, MinIsLeast
<1>3. /\ pc = "eliminate" /\ scan' = scan \ {column}
      /\ IF column \in mask /\ column \in DOMAIN rows
         THEN /\ mask' = Xor(mask, rows[column].mask)
              /\ data' = Xor(data, rows[column].data)
         ELSE mask' = mask /\ data' = data
      /\ UNCHANGED <<session, out, pc, part>>
  BY DEF Eliminate
<1> HIDE DEF column
<1>4. TypeOK'
  <2>1. /\ mask' \subseteq Columns(stream)
        /\ data' \subseteq 0 .. stream.fragment_len - 1
    <3>1. CASE column \in mask /\ column \in DOMAIN rows
      <4>1. /\ rows[column].mask \subseteq Columns(stream)
            /\ rows[column].data \subseteq 0 .. stream.fragment_len - 1
            /\ data \subseteq 0 .. stream.fragment_len - 1
        BY <1>3, <3>1 DEF IInv, TypeOK
      <4>2. Xor(mask, rows[column].mask) \subseteq Columns(stream)
        BY <1>1, <4>1, XorWithin, Zenon
      <4>3. Xor(data, rows[column].data) \subseteq 0 .. stream.fragment_len - 1
        BY <4>1, XorWithin, Zenon
      <4>4. QED
        BY <1>3, <3>1, <4>2, <4>3
    <3>2. CASE ~(column \in mask /\ column \in DOMAIN rows)
      BY <1>1, <1>3, <3>2 DEF IInv, TypeOK
    <3>3. QED
      BY <3>1, <3>2
  <2>2. QED
    BY <1>1, <1>3, <2>1 DEF IInv, TypeOK, session
<1>5. ScanCoversPivots'
  <2>1. ASSUME NEW d \in mask' \cap DOMAIN rows
        PROVE  d \in scan \ {column}
    <3>1. CASE column \in mask /\ column \in DOMAIN rows
      <4>1. \/ d \in mask /\ d \notin rows[column].mask
            \/ d \in rows[column].mask /\ d \notin mask
        BY <1>3, <2>1, <3>1, XorMember
      <4>2. d # column => d \notin rows[column].mask
        BY <2>1, <3>1 DEF IInv, ReducedEchelon
      <4>3. column \in rows[column].mask
        BY <3>1 DEF IInv, ReducedEchelon
      <4>4. d \in mask /\ d # column
        BY <3>1, <4>1, <4>2, <4>3
      <4>5. QED
        BY <1>3, <2>1, <4>4 DEF IInv, ScanCoversPivots
    <3>2. CASE ~(column \in mask /\ column \in DOMAIN rows)
      BY <1>3, <2>1, <3>2 DEF IInv, ScanCoversPivots
    <3>3. QED
      BY <3>1, <3>2
  <2>2. QED
    BY <1>3, <2>1 DEF ScanCoversPivots, session
<1>6. ReducedEchelon'
  BY <1>3 DEF IInv, ReducedEchelon, session
<1>7. CountersExact'
  BY <1>3 DEF IInv, CountersExact, IsUnit, session
<1>8. CollectingIsShort' /\ NeverInternal'
  BY <1>3 DEF IInv, CollectingIsShort, NeverInternal, session
<1>9. QED
  BY <1>4, <1>5, <1>6, <1>7, <1>8 DEF IInv

\* A dependent part keeps the invariant.
LEMMA DiscardDependentStep ==
  ASSUME IInv, DiscardDependent PROVE IInv'
<1>1. /\ processed' \in 0 .. MaxProcessed
      /\ Indexes(part) \subseteq Columns(stream)
  BY SaturateType, PartFacts DEF DiscardDependent, IInv, TypeOK
<1>2. TypeOK'
  BY <1>1 DEF DiscardDependent, Return, IInv, TypeOK, NoCall
<1>3. ReducedEchelon' /\ ScanCoversPivots'
  BY DEF DiscardDependent, Return, IInv, ReducedEchelon, ScanCoversPivots
<1>4. CountersExact'
  BY DEF DiscardDependent, IInv, CountersExact, IsUnit
<1>5. CollectingIsShort' /\ NeverInternal'
  BY DEF DiscardDependent, IInv, CollectingIsShort, NeverInternal
<1>6. QED
  BY <1>2, <1>3, <1>4, <1>5 DEF IInv

\* Storing a row, with the join at the K-th one, keeps the invariant.
LEMMA StoreRowStep ==
  ASSUME IInv, StoreRow PROVE IInv'
<1> DEFINE pivot == Min(mask)
           new == BackSubstitute(pivot)
<1>1. /\ TypeOK /\ ReducedEchelon /\ CountersExact /\ CollectingIsShort
      /\ pc = "eliminate" /\ scan = {} /\ mask # {}
      /\ stream \in Streams \cup {NoStream} /\ phase = "Collecting"
      /\ mask \subseteq Columns(stream)
      /\ data \subseteq 0 .. stream.fragment_len - 1
      /\ mask \cap DOMAIN rows = {}
  BY DEF IInv, TypeOK, ScanCoversPivots, StoreRow
<1>2. /\ Columns(stream) \subseteq Nat /\ IsFiniteSet(Columns(stream))
      /\ Cardinality(Columns(stream)) = stream.sequence_count
      /\ stream.sequence_count \in Nat /\ stream.fragment_len \in Nat
  BY <1>1, ColumnsFacts, StreamFacts
<1>3. pivot \in mask /\ \A d \in mask : pivot <= d
  <2>1. mask \in SUBSET Nat
    BY <1>1, <1>2
  <2>2. QED
    BY <1>1, <2>1, MinIsLeast
<1>4. /\ rows' = new
      /\ recovered' = RecoveredAfter(pivot, new)
      /\ rank' = rank + 1
      /\ last_indexes' = Indexes(part)
      /\ processed' = Saturate(processed)
      /\ accepted' = accepted \cup {part}
      /\ UNCHANGED stream
      /\ pc' = "idle" /\ part' = NoPart /\ scan' = {} /\ mask' = {} /\ data' = {}
      /\ \/ /\ rank' # stream.sequence_count
            /\ UNCHANGED <<phase, message, error>>
         \/ /\ rank' = stream.sequence_count
            /\ phase' = "Complete"
            /\ message' = Concat(stream, [c \in DOMAIN new |-> new[c].data])
            /\ UNCHANGED error
         \/ /\ rank' = stream.sequence_count
            /\ phase' = "Failed" /\ error' = JoinError(new)
            /\ UNCHANGED message
  BY DEF StoreRow, Return, Full
<1>5. pivot \notin DOMAIN rows /\ pivot \in Columns(stream)
  BY <1>1, <1>3
<1>6. /\ DOMAIN new = DOMAIN rows \cup {pivot}
      /\ new[pivot].mask = mask /\ new[pivot].data = data
      /\ \A c \in DOMAIN rows :
           IF pivot \in rows[c].mask
           THEN /\ new[c].mask = Xor(rows[c].mask, mask)
                /\ new[c].data = Xor(rows[c].data, data)
           ELSE new[c] = rows[c]
  BY <1>5, BackSubstituteRows
<1>7. /\ recovered' = Cardinality({c \in DOMAIN new : IsUnit(new[c])})
  BY <1>1, <1>4, <1>5, RecoveredKept
<1>8. \A c \in DOMAIN new :
        /\ c \in new[c].mask
        /\ \A d \in new[c].mask : c <= d
        /\ \A d \in DOMAIN new \ {c} : c \notin new[d].mask
  <2>1. /\ mask \subseteq Nat /\ DOMAIN rows \subseteq Nat
        /\ \A c \in DOMAIN rows : rows[c].mask \subseteq Nat
    BY <1>1, <1>2 DEF TypeOK
  <2>2. QED
    BY <1>1, <1>3, <2>1, EchelonKept
<1> HIDE DEF new, pivot
<1>9. /\ DOMAIN new \subseteq Columns(stream)
      /\ \A c \in DOMAIN new :
           /\ new[c].mask \subseteq Columns(stream)
           /\ new[c].data \subseteq 0 .. stream.fragment_len - 1
  <2>1. DOMAIN new \subseteq Columns(stream)
    BY <1>1, <1>5, <1>6 DEF TypeOK
  <2>2. ASSUME NEW c \in DOMAIN rows
        PROVE  /\ new[c].mask \subseteq Columns(stream)
               /\ new[c].data \subseteq 0 .. stream.fragment_len - 1
    <3>1. /\ rows[c].mask \subseteq Columns(stream)
          /\ rows[c].data \subseteq 0 .. stream.fragment_len - 1
          /\ data \subseteq 0 .. stream.fragment_len - 1
      BY <1>1 DEF TypeOK
    <3>2. Xor(rows[c].mask, mask) \subseteq Columns(stream)
      BY <1>1, <3>1, XorWithin, Zenon
    <3>3. Xor(rows[c].data, data) \subseteq 0 .. stream.fragment_len - 1
      BY <3>1, XorWithin, Zenon
    <3>4. QED
      BY <1>6, <3>1, <3>2, <3>3
  <2>3. QED
    BY <1>1, <1>6, <2>1, <2>2
<1>10. IsFiniteSet(DOMAIN rows) /\ IsFiniteSet(DOMAIN new)
  <2>1. DOMAIN rows \subseteq Columns(stream)
    BY <1>1 DEF TypeOK
  <2>2. QED
    BY <1>2, <1>9, <2>1, FS_Subset
<1>11. /\ rank' = Cardinality(DOMAIN new)
       /\ rank' \in Nat
  <2>1. Cardinality(DOMAIN rows \cup {pivot}) = Cardinality(DOMAIN rows) + 1
    BY <1>5, <1>10, FS_AddElement
  <2>2. QED
    BY <1>1, <1>4, <1>6, <1>10, <2>1, FS_CardinalityType DEF CountersExact
<1>12. recovered' \in Nat
  <2> DEFINE units == {c \in DOMAIN new : IsUnit(new[c])}
  <2>1. units \subseteq DOMAIN new
    OBVIOUS
  <2> HIDE DEF units
  <2>2. IsFiniteSet(units)
    BY <1>10, <2>1, FS_Subset
  <2>3. Cardinality(units) \in Nat
    BY <2>2, FS_CardinalityType
  <2>4. QED
    BY <1>7, <2>3 DEF units
\* The K-th row leaves only units.
<1>13. ASSUME rank' = stream.sequence_count
       PROVE  \A c \in Columns(stream) : c \in DOMAIN new /\ IsUnit(new[c])
  <2>1. DOMAIN new = Columns(stream)
    <3>1. Cardinality(DOMAIN new) = Cardinality(Columns(stream))
      BY <1>2, <1>11, <1>13
    <3>2. QED
      BY <1>2, <1>9, <3>1, FS_Subset
  <2>2. ASSUME NEW c \in DOMAIN new
        PROVE  IsUnit(new[c])
    <3>1. new[c].mask = {c}
      <4>1. ASSUME NEW d \in new[c].mask PROVE d = c
        BY <1>8, <1>9, <2>1
      <4>2. QED
        BY <1>8, <4>1
    <3>2. Cardinality({c}) = 1
      BY FS_Singleton
    <3>3. QED
      BY <3>1, <3>2 DEF IsUnit
  <2>3. QED
    BY <2>1, <2>2
<1>14. TypeOK'
  <2>1. processed' \in 0 .. MaxProcessed
    BY <1>1, <1>4, SaturateType DEF TypeOK
  <2>2. /\ Indexes(part) \subseteq Columns(stream)
        /\ part \in Parts /\ accepted' \subseteq Parts
    <3>1. part \in Parts /\ StreamOf(part) = stream
      BY <1>1 DEF TypeOK
    <3>2. QED
      BY <1>1, <1>4, <3>1, PartFacts DEF TypeOK
  <2>3. message' \subseteq Nat
    <3> DEFINE frags == [c \in DOMAIN new |-> new[c].data]
    <3>1. ASSUME rank' = stream.sequence_count
          PROVE  Concat(stream, frags) \subseteq Nat
      <4>1. ASSUME NEW c \in Columns(stream), NEW b \in frags[c]
            PROVE  c * stream.fragment_len + b \in Nat
        <5>1. c \in Nat /\ b \in Nat
          BY <1>2, <1>9, <1>13, <3>1, <4>1
        <5>2. c * stream.fragment_len \in Nat
          BY <1>2, <5>1
        <5>3. QED
          BY <5>1, <5>2
      <4> HIDE DEF frags
      <4>2. QED
        BY <4>1 DEF Concat
    <3>2. QED
      BY <1>1, <1>4, <3>1 DEF TypeOK
  <2>4. phase' \in {"Collecting", "Complete", "Failed"}
    BY <1>1, <1>4
  <2>5. QED
    BY <1>1, <1>4, <1>9, <1>11, <1>12, <2>1, <2>2, <2>3, <2>4 DEF TypeOK, NoCall
<1>15. ReducedEchelon'
  BY <1>4, <1>8 DEF ReducedEchelon
<1>16. ScanCoversPivots'
  BY <1>4 DEF ScanCoversPivots
<1>17. CountersExact'
  BY <1>4, <1>7, <1>11 DEF CountersExact, IsUnit
<1>18. CollectingIsShort'
  <2>1. rank' <= stream.sequence_count
    BY <1>1, <1>2, <1>9, <1>11, FS_Subset
  <2>2. phase' = "Collecting" => rank' # stream.sequence_count
    BY <1>1, <1>4
  <2>3. phase' = "Complete" => recovered' = rank'
    <3>1. ASSUME phase' = "Complete"
          PROVE  {c \in DOMAIN new : IsUnit(new[c])} = DOMAIN new
      BY <1>1, <1>4, <1>9, <1>13, <3>1
    <3>2. QED
      BY <1>7, <1>11, <3>1
  <2>4. phase' = "Complete" => rank' = stream.sequence_count
    BY <1>1, <1>4
  <2>5. QED
    BY <1>2, <1>4, <1>11, <2>1, <2>2, <2>3, <2>4 DEF CollectingIsShort
<1>19. NeverInternal'
  <2>1. ~(stream.sequence_count * stream.fragment_len < stream.message_length)
    <3>1. part \in Parts /\ StreamOf(part) = stream
      BY <1>1 DEF TypeOK
    <3>2. part.sequence_count * part.data_len >= part.message_length
      BY <3>1, PartsAssumption DEF PartNew
    <3>3. /\ part.sequence_count \in Nat /\ part.data_len \in Nat
          /\ part.message_length \in Nat
      BY <3>1, PartsAssumption DEF PartFields
    <3>4. /\ stream.sequence_count = part.sequence_count
          /\ stream.fragment_len = part.data_len
          /\ stream.message_length = part.message_length
      BY <3>1 DEF StreamOf
    <3>5. QED
      BY <3>2, <3>3, <3>4
  <2>2. rank' = stream.sequence_count => JoinError(new) # "Internal"
    BY <1>13, <2>1 DEF JoinError, Verify
  <2>3. QED
    BY <1>4, <2>2 DEF IInv, NeverInternal
<1>20. QED
  BY <1>14, <1>15, <1>16, <1>17, <1>18, <1>19 DEF IInv

\* reset keeps the invariant.
LEMMA ResetStep ==
  ASSUME IInv, Reset PROVE IInv'
<1>1. Init'
  BY DEF Reset, Init, IInv, TypeOK, call, NoCall
<1>2. QED
  BY <1>1, InitIInv, PTL

\* The inductive step, one action of the decoder at a time.
LEMMA NextIInv == IInv /\ [Next]_vars => IInv'
<1> SUFFICES ASSUME IInv, [Next]_vars PROVE IInv'
  OBVIOUS
<1>1. CASE ReceiveTerminal
  BY <1>1, ReceiveTerminalStep
<1>2. ASSUME NEW p \in Parts, RejectInconsistent(p) PROVE IInv'
  BY <1>2, RejectInconsistentStep
<1>3. ASSUME NEW p \in Parts, FailLimit(p) PROVE IInv'
  BY <1>3, FailLimitStep
<1>4. ASSUME NEW p \in Parts, Admit(p) PROVE IInv'
  BY <1>4, AdmitStep
<1>5. CASE Eliminate
  BY <1>5, EliminateStep
<1>6. CASE DiscardDependent
  BY <1>6, DiscardDependentStep
<1>7. CASE StoreRow
  BY <1>7, StoreRowStep
<1>8. CASE Reset
  BY <1>8, ResetStep
<1>9. CASE UNCHANGED vars
  BY <1>9, QuietStep DEF vars, session, IInv, TypeOK
<1>10. QED
  BY <1>1, <1>2, <1>3, <1>4, <1>5, <1>6, <1>7, <1>8, <1>9 DEF Next

-----------------------------------------------------------------------------
(* The theorems *)

\* The inductive invariant holds in every reachable state of the decoder.
THEOREM Invariance == Spec => []IInv
<1>1. QED
  BY InitIInv, NextIInv, PTL DEF Spec

\* Every field of the decoder keeps its type: masks, rows and data stay within
\* the K columns and the fragment length of the locked stream.
THEOREM TypeCorrect == Spec => []TypeOK
<1>1. IInv => TypeOK
  BY DEF IInv
<1>2. QED
  BY <1>1, Invariance, PTL

\* insert_row keeps the rows in reduced row echelon form, whatever parts
\* arrive in whatever order.
THEOREM EchelonForm == Spec => []ReducedEchelon
<1>1. IInv => ReducedEchelon
  BY DEF IInv
<1>2. QED
  BY <1>1, Invariance, PTL

\* forward_eliminate scans the part's own indexes only, and leaves no column
\* that has a row.
THEOREM ScanSuffices == Spec => []ScanCoversPivots
<1>1. IInv => ScanCoversPivots
  BY DEF IInv
<1>2. QED
  BY <1>1, Invariance, PTL

\* The counters of rank and of recovered fragments, kept by increments and
\* transitions, equal a recount of the rows.
THEOREM CountersCorrect == Spec => []CountersExact
<1>1. IInv => CountersExact
  BY DEF IInv
<1>2. QED
  BY <1>1, Invariance, PTL

\* join runs at the very part that makes the rank K: a session that still
\* collects is short of K, and a complete one has recovered every fragment.
THEOREM JoinsInTime == Spec => []CollectingIsShort
<1>1. IInv => CollectingIsShort
  BY DEF IInv
<1>2. QED
  BY <1>1, Invariance, PTL

\* The `Internal` error of join is unreachable.
THEOREM InternalUnreachable == Spec => []NeverInternal
<1>1. IInv => NeverInternal
  BY DEF IInv
<1>2. QED
  BY <1>1, Invariance, PTL

-----------------------------------------------------------------------------
(* What the rows mean *)

RowsHold(f) == \A c \in DOMAIN rows : rows[c].data = Combine(f, rows[c].mask)

PartsHold(f) == \A q \in accepted : q.data = Combine(f, Indexes(q))

\* What the phases and the counters say of the parts accepted.
SessionFacts ==
  /\ IsFiniteSet(accepted) /\ Cardinality(accepted) = rank
  /\ \A q \in accepted : StreamOf(q) = stream
  /\ stream # NoStream =>
       /\ stream.sequence_count <= MaxFragmentCount
       /\ stream.message_length <= MaxMessageLength
       /\ stream.fragment_len <= MaxFragmentLength
  /\ phase \in {"Collecting", "Complete"} => stream # NoStream
  /\ phase = "Collecting" /\ pc = "idle" => rank > 0
  /\ phase = "Complete" =>
       /\ JoinError(rows) = "none"
       /\ message = Concat(stream, [c \in DOMAIN rows |-> rows[c].data])
  /\ phase = "Failed" /\ stream # NoStream =>
       rank = stream.sequence_count /\ error = JoinError(rows)
  /\ stream = NoStream =>
       error \in {"none", "FragmentCount", "MessageLength", "FragmentLength"}
  /\ phase # "Failed" => error = "none"
  /\ phase # "Empty" => Parts # {}

\* The rows have the solutions of the parts accepted, and the row being
\* reduced, given the rows, those of its part.
SameSolutions ==
  \A f \in Fragmentings(stream) :
    /\ PartsHold(f) <=> RowsHold(f)
    /\ pc = "eliminate" /\ RowsHold(f) =>
         (part.data = Combine(f, Indexes(part)) <=> data = Combine(f, mask))

\* Every mask is the XOR of index sets of accepted parts, up to the part in
\* progress; and such an XOR without a pivot column is empty.
SameSpan ==
  /\ \A c \in DOMAIN rows : Spans(accepted, rows[c].mask)
  /\ pc = "eliminate" => Spans(accepted, Xor(mask, Indexes(part)))
  /\ \A m \in SUBSET Columns(stream) :
       Spans(accepted, m) /\ m \cap DOMAIN rows = {} => m = {}

SInv == IInv /\ SessionFacts /\ SameSolutions /\ SameSpan

-----------------------------------------------------------------------------
(* The steps *)

\* A new decoder satisfies the strengthened invariant.
LEMMA InitSInv == Init => SInv
<1> SUFFICES ASSUME Init PROVE SInv
  OBVIOUS
<1>1. DOMAIN rows = {} /\ accepted = {} /\ pc = "idle" /\ stream = NoStream
  BY DEF Init, NoCall
<1>2. SessionFacts
  BY <1>1, FS_EmptySet DEF Init, SessionFacts
<1>3. SameSolutions
  BY <1>1 DEF SameSolutions, PartsHold, RowsHold
<1>4. SameSpan
  <2>1. Columns(NoStream) = {}
    BY DEF Columns, NoStream
  <2>2. QED
    BY <1>1, <2>1 DEF SameSpan
<1>5. QED
  BY <1>2, <1>3, <1>4, InitIInv DEF SInv

\* A step that stores nothing and starts nothing keeps solutions and span.
LEMMA SolutionsKept ==
  ASSUME SameSolutions, SameSpan, UNCHANGED <<stream, rows, accepted>>,
         pc' = "idle" \/ UNCHANGED <<pc, part, mask, data>>
  PROVE  SameSolutions' /\ SameSpan'
<1>1. SameSolutions'
  BY DEF SameSolutions, PartsHold, RowsHold
<1>2. SameSpan'
  BY DEF SameSpan
<1>3. QED
  BY <1>1, <1>2

\* A frame after the end keeps the strengthened invariant.
LEMMA ReceiveTerminalSInv ==
  ASSUME SInv, ReceiveTerminal PROVE SInv'
<1>1. SessionFacts'
  BY DEF SInv, ReceiveTerminal, SessionFacts, JoinError, IsUnit, call
<1>2. SameSolutions' /\ SameSpan'
  BY SolutionsKept DEF SInv, ReceiveTerminal, call
<1>3. QED
  BY <1>1, <1>2, ReceiveTerminalStep DEF SInv

\* A rejected part keeps the strengthened invariant.
LEMMA RejectInconsistentSInv ==
  ASSUME SInv, NEW p \in Parts, RejectInconsistent(p) PROVE SInv'
<1>1. SessionFacts'
  BY DEF SInv, RejectInconsistent, SessionFacts, JoinError, IsUnit, call, session
<1>2. SameSolutions' /\ SameSpan'
  BY SolutionsKept DEF SInv, RejectInconsistent, call, session
<1>3. QED
  BY <1>1, <1>2, RejectInconsistentStep DEF SInv

\* A part over a cap keeps the strengthened invariant.
LEMMA FailLimitSInv ==
  ASSUME SInv, NEW p \in Parts, FailLimit(p) PROVE SInv'
<1>1. error' \in {"FragmentCount", "MessageLength", "FragmentLength"}
  BY DEF FailLimit, LimitError
<1>2. SessionFacts'
  BY <1>1 DEF SInv, FailLimit, SessionFacts, call
<1>3. SameSolutions' /\ SameSpan'
  BY SolutionsKept DEF SInv, FailLimit, call
<1>4. QED
  BY <1>2, <1>3, FailLimitStep DEF SInv

\* Once reduced, a part is found dependent exactly when its index set is an
\* XOR of those accepted, and so never as the first one.
LEMMA DependentIsSpanned ==
  ASSUME SInv, pc = "eliminate", scan = {}
  PROVE  /\ mask = {} <=> Spans(accepted, Indexes(part))
         /\ mask = {} => accepted # {}
<1>1. /\ part \in Parts /\ IsFiniteSet(accepted)
      /\ mask \in SUBSET Columns(stream) /\ mask \cap DOMAIN rows = {}
      /\ Spans(accepted, Xor(mask, Indexes(part)))
  BY DEF SInv, IInv, TypeOK, ScanCoversPivots, SessionFacts, SameSpan
<1>2. ASSUME mask = {}
      PROVE  Spans(accepted, Indexes(part))
  BY <1>1, <1>2, XorGroup
<1>3. ASSUME Spans(accepted, Indexes(part))
      PROVE  mask = {}
  <2>1. Spans(accepted, Xor(Xor(mask, Indexes(part)), Indexes(part)))
    BY <1>1, <1>3, SpanGroup
  <2>2. Spans(accepted, mask)
    BY <2>1, XorGroup
  <2>3. QED
    BY <1>1, <2>2 DEF SInv, SameSpan
<1>4. ASSUME mask = {}
      PROVE  accepted # {}
  <2>1. PICK sub \in SUBSET accepted : XorOfIndexes(sub) = Indexes(part)
    BY <1>2, <1>4 DEF Spans
  <2>2. sub # {}
    BY <1>1, <2>1, IndexesNotEmpty, XorOfIndexesSmall
  <2>3. QED
    BY <2>2
<1>5. QED
  BY <1>2, <1>3, <1>4

\* A dependent part keeps the strengthened invariant.
LEMMA DiscardDependentSInv ==
  ASSUME SInv, DiscardDependent PROVE SInv'
<1>1. SessionFacts'
  <2>1. accepted # {}
    BY DependentIsSpanned DEF DiscardDependent
  <2>2. rank > 0
    BY <2>1, FS_EmptySet, FS_CardinalityType DEF SInv, SessionFacts
  <2>3. QED
    BY <2>2 DEF SInv, IInv, TypeOK, DiscardDependent, Return, SessionFacts
<1>2. SameSolutions' /\ SameSpan'
  BY SolutionsKept DEF SInv, DiscardDependent, Return
<1>3. QED
  BY <1>1, <1>2, DiscardDependentStep DEF SInv

\* Locking or matching the stream keeps the strengthened invariant.
LEMMA AdmitSInv ==
  ASSUME SInv, NEW p \in Parts, Admit(p) PROVE SInv'
<1>1. /\ stream' = StreamOf(p) /\ phase' = "Collecting" /\ pc' = "eliminate"
      /\ part' = p /\ mask' = Indexes(p) /\ data' = p.data
      /\ UNCHANGED <<rows, rank, accepted, error>>
      /\ (stream = NoStream /\ LimitError(p) = "none") \/ stream' = stream
      /\ phase # "Failed"
  BY DEF Admit, Terminal
<1>2. StreamOf(p) # NoStream
  BY PartFacts
<1>3. stream = NoStream => DOMAIN rows = {} /\ accepted = {}
  <2>1. Columns(NoStream) = {}
    BY DEF Columns, NoStream
  <2>2. ASSUME stream = NoStream, NEW q \in accepted
        PROVE  FALSE
    BY <2>2, PartFacts DEF SInv, IInv, TypeOK, SessionFacts
  <2>3. QED
    BY <2>1, <2>2 DEF SInv, IInv, TypeOK
<1>4. SessionFacts'
  <2>1. /\ StreamOf(p).sequence_count <= MaxFragmentCount
        /\ StreamOf(p).message_length <= MaxMessageLength
        /\ StreamOf(p).fragment_len <= MaxFragmentLength
    <3>1. CASE stream = NoStream
      <4>1. LimitError(p) = "none"
        BY <1>1, <1>2, <3>1
      <4>2. /\ p.sequence_count \in Nat /\ p.message_length \in Nat
            /\ p.data_len \in Nat
        BY PartsAssumption DEF PartFields
      <4>3. QED
        BY <4>1, <4>2, LimitsAssumption DEF LimitError, StreamOf
    <3>2. CASE stream # NoStream
      BY <1>1, <3>2 DEF SInv, SessionFacts
    <3>3. QED
      BY <3>1, <3>2
  <2>2. \A q \in accepted : StreamOf(q) = stream'
    BY <1>1, <1>3 DEF SInv, SessionFacts
  <2>3. QED
    BY <1>1, <1>2, <2>1, <2>2 DEF SInv, SessionFacts
<1>5. SameSolutions'
  <2>1. ASSUME NEW f \in Fragmentings(stream')
        PROVE  PartsHold(f) <=> RowsHold(f)
    BY <1>1, <1>3 DEF SInv, SameSolutions, PartsHold, RowsHold
  <2>2. QED
    BY <1>1, <2>1 DEF SameSolutions, PartsHold, RowsHold
<1>6. SameSpan'
  <2>1. Spans(accepted, Xor(Indexes(p), Indexes(p)))
    BY XorGroup, SpanGroup DEF SInv, SessionFacts
  <2>2. ASSUME NEW m \in SUBSET Columns(stream'),
               Spans(accepted, m), m \cap DOMAIN rows = {}
        PROVE  m = {}
    <3>1. CASE stream = NoStream
      <4>1. PICK sub \in SUBSET accepted : XorOfIndexes(sub) = m
        BY <2>2 DEF Spans
      <4>2. sub = {}
        BY <1>3, <3>1
      <4>3. QED
        BY <4>1, <4>2, XorOfIndexesSmall
    <3>2. CASE stream # NoStream
      BY <1>1, <2>2, <3>2 DEF SInv, SameSpan
    <3>3. QED
      BY <3>1, <3>2
  <2>3. \A c \in DOMAIN rows : Spans(accepted, rows[c].mask)
    BY DEF SInv, SameSpan
  <2>4. QED
    BY <1>1, <2>1, <2>2, <2>3 DEF SameSpan
<1>7. QED
  BY <1>4, <1>5, <1>6, AdmitStep DEF SInv

\* An iteration of forward_eliminate keeps the strengthened invariant.
LEMMA EliminateSInv ==
  ASSUME SInv, Eliminate PROVE SInv'
<1> DEFINE column == Min(scan)
<1>1. /\ pc = "eliminate"
      /\ IF column \in mask /\ column \in DOMAIN rows
         THEN /\ mask' = Xor(mask, rows[column].mask)
              /\ data' = Xor(data, rows[column].data)
         ELSE mask' = mask /\ data' = data
      /\ UNCHANGED <<session, out, pc, part>>
  BY DEF Eliminate
<1> HIDE DEF column
<1>2. SessionFacts'
  BY <1>1 DEF SInv, SessionFacts, session, JoinError, IsUnit
<1>3. CASE ~(column \in mask /\ column \in DOMAIN rows)
  BY <1>1, <1>2, <1>3, SolutionsKept, EliminateStep DEF SInv, session
<1>4. CASE column \in mask /\ column \in DOMAIN rows
  <2> DEFINE row == rows[column]
  <2>1. /\ mask' = Xor(mask, row.mask) /\ data' = Xor(data, row.data)
        /\ UNCHANGED <<stream, rows, accepted, pc, part>>
    BY <1>1, <1>4 DEF session
  <2>2. /\ IsFiniteSet(Columns(stream)) /\ mask \in SUBSET Columns(stream)
        /\ row.mask \in SUBSET Columns(stream) /\ part \in Parts
        /\ IsFiniteSet(accepted)
    BY <1>1, <1>4, ColumnsFacts DEF SInv, IInv, TypeOK, SessionFacts
  <2>3. IsFiniteSet(mask) /\ IsFiniteSet(row.mask)
    BY <2>2, FS_Subset
  <2>4. SameSolutions'
    <3>1. ASSUME NEW f \in Fragmentings(stream), RowsHold(f)
          PROVE  part.data = Combine(f, Indexes(part))
                   <=> Xor(data, row.data) = Combine(f, Xor(mask, row.mask))
      <4>1. row.data = Combine(f, row.mask)
        BY <1>4, <3>1 DEF RowsHold
      <4>2. Combine(f, Xor(mask, row.mask)) = Xor(Combine(f, mask), row.data)
        BY <2>3, <4>1, CombineXor
      <4>3. part.data = Combine(f, Indexes(part)) <=> data = Combine(f, mask)
        BY <1>1, <3>1 DEF SInv, SameSolutions
      <4>4. QED
        BY <4>2, <4>3, XorGroup
    <3>2. ASSUME NEW f \in Fragmentings(stream)
          PROVE  PartsHold(f) <=> RowsHold(f)
      BY DEF SInv, SameSolutions
    <3> HIDE DEF row
    <3>3. QED
      BY <2>1, <3>1, <3>2 DEF SameSolutions, PartsHold, RowsHold
  <2>5. SameSpan'
    <3>1. Spans(accepted, row.mask)
      BY <1>4 DEF SInv, SameSpan
    <3>2. Spans(accepted, Xor(Xor(mask, Indexes(part)), row.mask))
      BY <1>1, <2>2, <3>1, SpanGroup DEF SInv, SameSpan
    <3>3. Xor(Xor(mask, Indexes(part)), row.mask) = Xor(Xor(mask, row.mask), Indexes(part))
      <4>1. Xor(Xor(mask, Indexes(part)), row.mask) = Xor(mask, Xor(Indexes(part), row.mask))
        BY XorGroup
      <4>2. Xor(Xor(mask, row.mask), Indexes(part)) = Xor(mask, Xor(row.mask, Indexes(part)))
        BY XorGroup
      <4>3. Xor(Indexes(part), row.mask) = Xor(row.mask, Indexes(part))
        BY XorGroup
      <4>4. QED
        BY <4>1, <4>2, <4>3
    <3>4. Spans(accepted, Xor(mask', Indexes(part)))
      BY <2>1, <3>2, <3>3
    <3>5. QED
      BY <2>1, <3>4 DEF SInv, SameSpan
  <2>6. QED
    BY <1>2, <2>4, <2>5, EliminateStep DEF SInv
<1>5. QED
  BY <1>3, <1>4

\* What StoreRow does to the state when it stores the row at the pivot.
StoresAt(pivot) ==
  LET new == BackSubstitute(pivot)
  IN  /\ pc = "eliminate" /\ scan = {} /\ phase = "Collecting"
      /\ part \in Parts /\ StreamOf(part) = stream /\ stream # NoStream
      /\ mask \in SUBSET Columns(stream) /\ mask \cap DOMAIN rows = {}
      /\ IsFiniteSet(Columns(stream)) /\ IsFiniteSet(accepted)
      /\ rows' = new /\ DOMAIN new = DOMAIN rows \cup {pivot}
      /\ new[pivot].mask = mask /\ new[pivot].data = data
      /\ \A c \in DOMAIN rows :
           IF pivot \in rows[c].mask
           THEN /\ new[c].mask = Xor(rows[c].mask, mask)
                /\ new[c].data = Xor(rows[c].data, data)
           ELSE new[c] = rows[c]
      /\ accepted' = accepted \cup {part} /\ rank' = rank + 1
      /\ stream' = stream /\ pc' = "idle"
      /\ last_indexes' = Indexes(part) /\ processed' = Saturate(processed)
      /\ \/ /\ rank' # stream.sequence_count
            /\ out' = "Accepted" /\ UNCHANGED <<phase, message, error>>
         \/ /\ rank' = stream.sequence_count /\ phase' = "Complete"
            /\ JoinError(new) = "none" /\ UNCHANGED error
            /\ message' = Concat(stream, [c \in DOMAIN new |-> new[c].data])
            /\ out' = "Accepted"
         \/ /\ rank' = stream.sequence_count /\ phase' = "Failed"
            /\ JoinError(new) # "none" /\ error' = JoinError(new)
            /\ out' = JoinError(new) /\ UNCHANGED message

\* StoreRow stores the reduced row at one of its columns.
LEMMA StoreRowFacts ==
  ASSUME SInv, StoreRow
  PROVE  \E pivot \in mask : StoresAt(pivot)
<1> DEFINE pivot == Min(mask)
           new == BackSubstitute(pivot)
<1>1. /\ mask \in SUBSET Columns(stream) /\ mask # {}
      /\ Columns(stream) \subseteq Nat /\ IsFiniteSet(Columns(stream))
      /\ mask \cap DOMAIN rows = {}
      /\ part \in Parts /\ StreamOf(part) = stream /\ phase = "Collecting"
      /\ pc = "eliminate" /\ scan = {}
  BY ColumnsFacts DEF SInv, IInv, TypeOK, ScanCoversPivots, StoreRow
<1>2. stream # NoStream
  BY <1>1, PartFacts
<1>3. pivot \in mask
  BY <1>1, MinIsLeast
<1>4. pivot \notin DOMAIN rows
  BY <1>1, <1>3
<1>5. /\ DOMAIN new = DOMAIN rows \cup {pivot}
      /\ new[pivot].mask = mask /\ new[pivot].data = data
      /\ \A c \in DOMAIN rows :
           IF pivot \in rows[c].mask
           THEN /\ new[c].mask = Xor(rows[c].mask, mask)
                /\ new[c].data = Xor(rows[c].data, data)
           ELSE new[c] = rows[c]
  BY <1>4, BackSubstituteRows
<1>6. /\ rows' = new
      /\ accepted' = accepted \cup {part} /\ rank' = rank + 1
      /\ stream' = stream /\ pc' = "idle"
      /\ last_indexes' = Indexes(part) /\ processed' = Saturate(processed)
      /\ \/ /\ rank' # stream.sequence_count
            /\ out' = "Accepted" /\ UNCHANGED <<phase, message, error>>
         \/ /\ rank' = stream.sequence_count /\ phase' = "Complete"
            /\ JoinError(new) = "none" /\ UNCHANGED error
            /\ message' = Concat(stream, [c \in DOMAIN new |-> new[c].data])
            /\ out' = "Accepted"
         \/ /\ rank' = stream.sequence_count /\ phase' = "Failed"
            /\ JoinError(new) # "none" /\ error' = JoinError(new)
            /\ out' = JoinError(new) /\ UNCHANGED message
  BY DEF StoreRow, Full, Return
<1>7. IsFiniteSet(accepted)
  BY DEF SInv, SessionFacts
<1> HIDE DEF pivot
<1>8. StoresAt(pivot)
  BY <1>1, <1>2, <1>5, <1>6, <1>7 DEF StoresAt
<1>9. QED
  BY <1>3, <1>8

\* Storing a row, with the join at the K-th one, keeps the strengthened
\* invariant.
LEMMA StoreRowSInv ==
  ASSUME SInv, StoreRow PROVE SInv'
<1>1. PICK pivot \in mask : StoresAt(pivot)
  BY StoreRowFacts
<1> DEFINE new == BackSubstitute(pivot)
<1>2. /\ pc = "eliminate" /\ scan = {} /\ phase = "Collecting"
      /\ part \in Parts /\ StreamOf(part) = stream /\ stream # NoStream
      /\ mask \in SUBSET Columns(stream) /\ mask \cap DOMAIN rows = {}
      /\ IsFiniteSet(Columns(stream)) /\ IsFiniteSet(accepted)
      /\ rows' = new /\ DOMAIN new = DOMAIN rows \cup {pivot}
      /\ new[pivot].mask = mask /\ new[pivot].data = data
      /\ \A c \in DOMAIN rows :
           IF pivot \in rows[c].mask
           THEN /\ new[c].mask = Xor(rows[c].mask, mask)
                /\ new[c].data = Xor(rows[c].data, data)
           ELSE new[c] = rows[c]
      /\ accepted' = accepted \cup {part} /\ rank' = rank + 1
      /\ stream' = stream /\ pc' = "idle"
      /\ last_indexes' = Indexes(part) /\ processed' = Saturate(processed)
      /\ \/ /\ rank' # stream.sequence_count
            /\ out' = "Accepted" /\ UNCHANGED <<phase, message, error>>
         \/ /\ rank' = stream.sequence_count /\ phase' = "Complete"
            /\ JoinError(new) = "none" /\ UNCHANGED error
            /\ message' = Concat(stream, [c \in DOMAIN new |-> new[c].data])
            /\ out' = "Accepted"
         \/ /\ rank' = stream.sequence_count /\ phase' = "Failed"
            /\ JoinError(new) # "none" /\ error' = JoinError(new)
            /\ out' = JoinError(new) /\ UNCHANGED message
  BY <1>1 DEF StoresAt
<1> HIDE DEF new
<1>3. ~Spans(accepted, Indexes(part)) /\ part \notin accepted
  <2>1. mask # {}
    OBVIOUS
  <2>2. ~Spans(accepted, Indexes(part))
    BY <1>2, <2>1, DependentIsSpanned
  <2>3. QED
    BY <1>2, <2>2, SpanGroup
<1>4. SessionFacts'
  <2>1. /\ IsFiniteSet(accepted') /\ Cardinality(accepted') = rank'
        /\ rank' \in Nat /\ rank' > 0
    <3>1. Cardinality(accepted \cup {part}) = Cardinality(accepted) + 1
      BY <1>2, <1>3, FS_AddElement
    <3>2. IsFiniteSet(accepted \cup {part})
      BY <1>2, FS_AddElement
    <3>3. rank \in Nat /\ Cardinality(accepted) = rank
      BY DEF SInv, IInv, TypeOK, SessionFacts
    <3>4. QED
      BY <1>2, <3>1, <3>2, <3>3
  <2>2. \A q \in accepted' : StreamOf(q) = stream'
    BY <1>2 DEF SInv, SessionFacts
  <2>3. JoinError(rows)' = JoinError(new)
    BY <1>2 DEF JoinError, IsUnit
  <2>4. phase' = "Complete" =>
          /\ JoinError(rows)' = "none"
          /\ message' = Concat(stream, [c \in DOMAIN rows' |-> rows'[c].data])
    BY <1>2, <2>3
  <2>5. phase' = "Failed" => rank' = stream.sequence_count /\ error' = JoinError(rows)'
    BY <1>2, <2>3
  <2>6. phase' # "Failed" => error' = "none"
    BY <1>2 DEF SInv, SessionFacts
  <2>7. /\ stream.sequence_count <= MaxFragmentCount
        /\ stream.message_length <= MaxMessageLength
        /\ stream.fragment_len <= MaxFragmentLength
    BY <1>2 DEF SInv, SessionFacts
  <2>8. QED
    BY <1>2, <2>1, <2>2, <2>4, <2>5, <2>6, <2>7 DEF SessionFacts
<1>5. ASSUME NEW c \in DOMAIN rows
      PROVE  rows[c].mask \in SUBSET Columns(stream) /\ IsFiniteSet(rows[c].mask)
  <2>1. rows[c].mask \in SUBSET Columns(stream)
    BY DEF SInv, IInv, TypeOK
  <2>2. QED
    BY <1>2, <2>1, FS_Subset
<1>6. IsFiniteSet(mask)
  BY <1>2, FS_Subset
<1>7. SameSolutions'
  <2>1. ASSUME NEW f \in Fragmentings(stream)
        PROVE  RowsHold(f)' <=> RowsHold(f) /\ data = Combine(f, mask)
    <3>1. RowsHold(f)' <=> \A c \in DOMAIN new : new[c].data = Combine(f, new[c].mask)
      BY <1>2 DEF RowsHold
    <3>2. ASSUME data = Combine(f, mask), NEW c \in DOMAIN rows
          PROVE  new[c].data = Combine(f, new[c].mask)
                   <=> rows[c].data = Combine(f, rows[c].mask)
      <4>1. CASE pivot \in rows[c].mask
        <5>1. Combine(f, new[c].mask) = Xor(Combine(f, rows[c].mask), data)
          BY <1>2, <1>5, <1>6, <3>2, <4>1, CombineXor
        <5>2. new[c].data = Xor(rows[c].data, data)
          BY <1>2, <4>1
        <5>3. QED
          BY <5>1, <5>2, XorGroup
      <4>2. CASE pivot \notin rows[c].mask
        BY <1>2, <4>2
      <4>3. QED
        BY <4>1, <4>2
    <3>3. QED
      BY <1>2, <3>1, <3>2 DEF RowsHold
  <2>2. ASSUME NEW f \in Fragmentings(stream)
        PROVE  PartsHold(f)' <=> RowsHold(f)'
    <3>1. PartsHold(f)' <=> PartsHold(f) /\ part.data = Combine(f, Indexes(part))
      BY <1>2 DEF PartsHold
    <3>2. PartsHold(f) <=> RowsHold(f)
      BY DEF SInv, SameSolutions
    <3>3. RowsHold(f) =>
            (part.data = Combine(f, Indexes(part)) <=> data = Combine(f, mask))
      BY <1>2 DEF SInv, SameSolutions
    <3>4. QED
      BY <2>1, <3>1, <3>2, <3>3
  <2>3. QED
    BY <1>2, <2>2 DEF SameSolutions, PartsHold, RowsHold
<1>8. SameSpan'
  <2> DEFINE index == Indexes(part)
  <2>1. Spans(accepted, Xor(mask, index))
    BY <1>2 DEF SInv, SameSpan
  <2>2. IsFiniteSet(accepted') /\ accepted' = accepted \cup {part}
    BY <1>2, FS_AddElement
  <2>3. Spans(accepted', mask)
    BY <1>2, <2>1, <2>2, SpanAdd
  <2>4. ASSUME NEW c \in DOMAIN new
        PROVE  Spans(accepted', new[c].mask)
    <3>1. CASE c = pivot
      BY <1>2, <2>3, <3>1
    <3>2. CASE c # pivot
      <4>1. Spans(accepted, rows[c].mask) /\ c \in DOMAIN rows
        BY <1>2, <3>2 DEF SInv, SameSpan
      <4>2. Spans(accepted', rows[c].mask)
        <5>1. IsFiniteSet(accepted) /\ accepted' = accepted \cup {part}
          BY <1>2
        <5>2. Spans(accepted \cup {part}, rows[c].mask)
          BY <4>1, <5>1, SpanAdd
        <5>3. QED
          BY <5>1, <5>2
      <4>3. Spans(accepted', Xor(rows[c].mask, mask))
        BY <2>2, <2>3, <4>2, SpanGroup
      <4>4. QED
        BY <1>2, <4>1, <4>2, <4>3
    <3>3. QED
      BY <3>1, <3>2
  <2>5. ASSUME NEW m \in SUBSET Columns(stream), Spans(accepted', m),
               m \cap DOMAIN new = {}
        PROVE  m = {}
    <3>1. m \cap DOMAIN rows = {} /\ pivot \notin m
      BY <1>2, <2>5
    <3>2. Spans(accepted, m) \/ Spans(accepted, Xor(m, index))
      BY <1>2, <2>2, <2>5, SpanAdd
    <3>3. CASE Spans(accepted, m)
      BY <3>1, <3>3 DEF SInv, SameSpan
    <3>4. CASE Spans(accepted, Xor(m, index))
      <4>1. Spans(accepted, Xor(Xor(m, index), Xor(mask, index)))
        BY <1>2, <2>1, <3>4, SpanGroup
      <4>2. Xor(Xor(m, index), Xor(mask, index)) = Xor(m, mask)
        BY DEF Xor, SymDiff
      <4>3. Xor(m, mask) \in SUBSET Columns(stream)
        BY <1>2, XorWithin
      <4>4. Xor(m, mask) \cap DOMAIN rows = {}
        BY <1>2, <3>1, XorMember
      <4>5. Xor(m, mask) = {}
        BY <4>1, <4>2, <4>3, <4>4 DEF SInv, SameSpan
      <4>6. m = mask
        BY <4>5, XorGroup
      <4>7. QED
        BY <3>1, <4>6
    <3>5. QED
      BY <3>2, <3>3, <3>4
  <2>6. QED
    BY <1>2, <2>4, <2>5 DEF SameSpan
<1>9. QED
  BY <1>4, <1>7, <1>8, StoreRowStep DEF SInv

\* reset keeps the strengthened invariant.
LEMMA ResetSInv ==
  ASSUME SInv, Reset PROVE SInv'
<1>1. Init'
  BY DEF Reset, Init, SInv, IInv, TypeOK, call, NoCall
<1>2. QED
  BY <1>1, InitSInv, PTL

\* The inductive step, one action of the decoder at a time.
LEMMA NextSInv == SInv /\ [Next]_vars => SInv'
<1> SUFFICES ASSUME SInv, [Next]_vars PROVE SInv'
  OBVIOUS
<1>1. CASE ReceiveTerminal
  BY <1>1, ReceiveTerminalSInv
<1>2. ASSUME NEW p \in Parts, RejectInconsistent(p) PROVE SInv'
  BY <1>2, RejectInconsistentSInv
<1>3. ASSUME NEW p \in Parts, FailLimit(p) PROVE SInv'
  BY <1>3, FailLimitSInv
<1>4. ASSUME NEW p \in Parts, Admit(p) PROVE SInv'
  BY <1>4, AdmitSInv
<1>5. CASE Eliminate
  BY <1>5, EliminateSInv
<1>6. CASE DiscardDependent
  BY <1>6, DiscardDependentSInv
<1>7. CASE StoreRow
  BY <1>7, StoreRowSInv
<1>8. CASE Reset
  BY <1>8, ResetSInv
<1>9. CASE UNCHANGED vars
  <2>1. SessionFacts'
    BY <1>9 DEF vars, session, call, SInv, SessionFacts, JoinError, IsUnit
  <2>2. SameSolutions' /\ SameSpan'
    BY <1>9, SolutionsKept DEF vars, session, call, SInv
  <2>3. QED
    BY <1>9, <2>1, <2>2, NextIInv DEF SInv
<1>10. QED
  BY <1>1, <1>2, <1>3, <1>4, <1>5, <1>6, <1>7, <1>8, <1>9 DEF Next

\* The strengthened invariant holds in every reachable state of the decoder.
THEOREM SolutionInvariance == Spec => []SInv
<1>1. QED
  BY InitSInv, NextSInv, PTL DEF Spec

-----------------------------------------------------------------------------
(* The message *)

\* With K rows every column has one, and it is that column alone.
LEMMA FullRows ==
  ASSUME IInv, rank = stream.sequence_count
  PROVE  /\ DOMAIN rows = Columns(stream)
         /\ \A c \in Columns(stream) : rows[c].mask = {c}
<1>1. /\ DOMAIN rows \in SUBSET Columns(stream) /\ IsFiniteSet(Columns(stream))
      /\ Cardinality(Columns(stream)) = stream.sequence_count
      /\ Cardinality(DOMAIN rows) = rank
  BY ColumnsFacts DEF IInv, TypeOK, CountersExact
<1>2. DOMAIN rows = Columns(stream)
  BY <1>1, FS_Subset
<1>3. ASSUME NEW c \in Columns(stream)
      PROVE  rows[c].mask = {c}
  <2>1. c \in rows[c].mask
    BY <1>2 DEF IInv, ReducedEchelon
  <2>2. ASSUME NEW d \in rows[c].mask
        PROVE  d = c
    BY <1>2, <2>2 DEF IInv, TypeOK, ReducedEchelon
  <2>3. QED
    BY <2>1, <2>2
<1>4. QED
  BY <1>2, <1>3

\* The fragments of its source solve the rows of an honest session.
LEMMA FragmentsSolve ==
  ASSUME SInv, NEW src \in Sources, HonestSession(src)
  PROVE  RowsHold(Fragments(src, stream))
<1>1. Fragments(src, stream) \in Fragmentings(stream)
  BY DEF Fragments, Fragmentings
<1>2. PartsHold(Fragments(src, stream))
  BY DEF SInv, SessionFacts, HonestSession, Honest, PartsHold
<1>3. QED
  BY <1>1, <1>2 DEF SInv, SameSolutions

\* The rows of a full honest session join to the source.
LEMMA JoinsToSource ==
  ASSUME SInv, NEW src \in Sources, HonestSession(src), stream # NoStream,
         rank = stream.sequence_count
  PROVE  /\ Concat(stream, [c \in DOMAIN rows |-> rows[c].data]) = src.bytes
         /\ JoinError(rows) = "none"
<1>1. /\ DOMAIN rows = Columns(stream)
      /\ \A c \in Columns(stream) : rows[c].mask = {c}
  BY FullRows DEF SInv
<1>2. stream \in Streams
  BY DEF SInv, IInv, TypeOK
<1>3. PICK q \in accepted : TRUE
  BY <1>2, StreamCovers, FS_EmptySet DEF SInv, SessionFacts
<1>4. q \in Parts /\ StreamOf(q) = stream /\ Honest(q, src)
  BY DEF SInv, IInv, TypeOK, SessionFacts, HonestSession
<1>5. /\ stream.message_length = src.length
      /\ stream.checksum = Crc32(src.length, src.bytes)
  BY <1>4 DEF Honest, StreamOf
<1>6. RowsHold(Fragments(src, stream))
  BY FragmentsSolve
<1>7. [c \in DOMAIN rows |-> rows[c].data] = Fragments(src, stream)
  <2>1. ASSUME NEW c \in Columns(stream)
        PROVE  rows[c].data = Fragments(src, stream)[c]
    BY <1>1, <1>6, CombineOne DEF RowsHold
  <2>2. Fragments(src, stream) = [c \in Columns(stream) |-> Fragments(src, stream)[c]]
    BY DEF Fragments
  <2>3. QED
    BY <1>1, <2>1, <2>2
<1>8. Concat(stream, [c \in DOMAIN rows |-> rows[c].data]) = src.bytes
  BY <1>2, <1>5, <1>7, FragmentsJoin, StreamCovers, SourcesAssumption
<1>9. Verify(stream, src.bytes) = "none"
  <2>1. ~ \E b \in src.bytes : b >= stream.message_length
    BY <1>5, SourcesAssumption
  <2>2. QED
    BY <1>5, <2>1 DEF Verify
<1>10. \A c \in Columns(stream) : c \in DOMAIN rows /\ IsUnit(rows[c])
  BY <1>1, FS_Singleton DEF IsUnit
<1>11. ~(stream.sequence_count * stream.fragment_len < stream.message_length)
  BY <1>2, StreamCovers
<1>12. JoinError(rows) = "none"
  BY <1>8, <1>9, <1>10, <1>11 DEF JoinError
<1>13. QED
  BY <1>8, <1>12

-----------------------------------------------------------------------------
(* The solutions of the parts accepted *)

\* The messages that fit the accepted parts are the solutions of the rows.
LEMMA SolutionsAreRows ==
  ASSUME SInv
  PROVE  Solutions(stream, accepted) = {f \in Fragmentings(stream) : RowsHold(f)}
<1>1. Solutions(stream, accepted) = {f \in Fragmentings(stream) : PartsHold(f)}
  BY DEF Solutions, Fragmentings, PartsHold
<1>2. \A f \in Fragmentings(stream) : PartsHold(f) <=> RowsHold(f)
  BY DEF SInv, SameSolutions
<1>3. QED
  BY <1>1, <1>2

RowData == [c \in DOMAIN rows |-> rows[c].data]

FullSession == SInv /\ stream # NoStream /\ rank = stream.sequence_count

\* The system has one solution, and join gives what its padding and checksum say.
FullSolved ==
  /\ Solutions(stream, accepted) = {RowData}
  /\ JoinError(rows) = Verify(stream, Concat(stream, RowData))

\* With K rows one message fits, that of the rows, and join checks nothing
\* but its padding and checksum.
LEMMA FullIsSolved == FullSession => FullSolved
<1> SUFFICES ASSUME FullSession PROVE FullSolved
  OBVIOUS
<1>1. /\ DOMAIN rows = Columns(stream)
      /\ \A c \in Columns(stream) : rows[c].mask = {c}
  BY FullRows DEF FullSession, SInv
<1>2. RowData \in Fragmentings(stream)
  <2>1. \A c \in Columns(stream) : rows[c].data \in SUBSET (0 .. stream.fragment_len - 1)
    BY <1>1 DEF FullSession, SInv, IInv, TypeOK
  <2>2. QED
    BY <1>1, <2>1 DEF RowData, Fragmentings
<1>3. ASSUME NEW f \in Fragmentings(stream)
      PROVE  RowsHold(f) <=> f = RowData
  <2>1. RowsHold(f) <=> \A c \in Columns(stream) : rows[c].data = f[c]
    <3>1. ASSUME NEW c \in Columns(stream)
          PROVE  Combine(f, rows[c].mask) = f[c]
      <4>1. rows[c].mask = {c}
        BY <1>1
      <4>2. QED
        BY <4>1, CombineOne
    <3>2. QED
      BY <1>1, <3>1 DEF RowsHold
  <2>2. f = [c \in Columns(stream) |-> f[c]]
    BY DEF Fragmentings
  <2>3. QED
    BY <1>1, <2>1, <2>2 DEF RowData
<1>4. Solutions(stream, accepted) = {RowData}
  BY <1>2, <1>3, SolutionsAreRows DEF FullSession
<1>5. \A c \in Columns(stream) : c \in DOMAIN rows /\ IsUnit(rows[c])
  BY <1>1, FS_Singleton DEF IsUnit
<1>6. ~(stream.sequence_count * stream.fragment_len < stream.message_length)
  BY StreamCovers DEF FullSession, SInv, IInv, TypeOK
<1>7. JoinError(rows) = Verify(stream, Concat(stream, RowData))
  BY <1>5, <1>6 DEF JoinError, RowData
<1>8. QED
  BY <1>4, <1>7 DEF FullSolved

-----------------------------------------------------------------------------
(* The refinement mapping *)

\* The session and the decoder read the wire data alike.
LEMMA SameData ==
  /\ Promise!NoStream = NoStream
  /\ \A S : Promise!Cardinality(S) = Cardinality(S)
  /\ \A S : Promise!Odd(S) <=> Odd(S)
  /\ \A f, S : Promise!Combine(f, S) = Combine(f, S)
  /\ \A s : Promise!Columns(s) = Columns(s)
  /\ \A s, f : Promise!Concat(s, f) = Concat(s, f)
  /\ \A s, b : Promise!Verify(s, b) = Verify(s, b)
  /\ \A p : /\ Promise!Indexes(p) = Indexes(p)
            /\ Promise!StreamOf(p) = StreamOf(p)
            /\ Promise!LimitError(p) = LimitError(p)
  /\ \A e, m : Promise!Spans(e, m) <=> Spans(e, m)
  /\ \A s, e : /\ Promise!Solutions(s, e) = Solutions(s, e)
               /\ Promise!Solve(s, e) = Solve(s, e)
<1>1. \A S : Promise!Cardinality(S) = Cardinality(S)
  BY DEF Promise!Cardinality, Cardinality
<1>2. \A S : Promise!Odd(S) <=> Odd(S)
  BY <1>1 DEF Promise!Odd, Odd
<1>3. Promise!NoStream = NoStream
  BY DEF Promise!NoStream, NoStream
<1>4. \A f, S : Promise!Combine(f, S) = Combine(f, S)
  BY <1>2 DEF Promise!Combine, Combine
<1>5. \A s : Promise!Columns(s) = Columns(s)
  BY DEF Promise!Columns, Columns
<1>6. \A s, f : Promise!Concat(s, f) = Concat(s, f)
  BY <1>5 DEF Promise!Concat, Concat
<1>7. \A s, b : Promise!Verify(s, b) = Verify(s, b)
  BY DEF Promise!Verify, Verify
<1>8. \A p : Promise!Indexes(p) = Indexes(p)
  BY DEF Promise!Indexes, Indexes, Promise!Choose, Choose
<1>9. \A p : Promise!StreamOf(p) = StreamOf(p)
  BY DEF Promise!StreamOf, StreamOf
<1>10. \A p : Promise!LimitError(p) = LimitError(p)
  BY DEF Promise!LimitError, LimitError
<1>11. \A e : Promise!XorOfIndexes(e) = XorOfIndexes(e)
  BY <1>2, <1>8 DEF Promise!XorOfIndexes, XorOfIndexes
<1>12. \A e, m : Promise!Spans(e, m) <=> Spans(e, m)
  BY <1>11 DEF Promise!Spans, Spans
<1>13. \A s, e : Promise!Solutions(s, e) = Solutions(s, e)
  BY <1>4, <1>5, <1>8 DEF Promise!Solutions, Solutions
<1>14. \A s, e : Promise!Solve(s, e) = Solve(s, e)
  BY <1>6, <1>13 DEF Promise!Solve, Solve
<1>15. QED
  BY <1>1, <1>2, <1>3, <1>4, <1>5, <1>6, <1>7, <1>8, <1>9, <1>10, <1>12, <1>13,
     <1>14

\* What the session shows of the phase and of the stream: nothing of the call
\* that brings the first part until it returns.
ShownPhase == IF pc = "eliminate" /\ accepted = {} THEN "Empty" ELSE phase
ShownStream == IF pc = "eliminate" /\ accepted = {} THEN NoStream ELSE stream

\* The initial state shows the initial state.
LEMMA InitRefined == Init => Promise!Init
BY SameData DEF Init, NoCall, Promise!Init

\* A call that is not in progress shows the decoder as it is.
LEMMA ShownIdle ==
  pc # "eliminate" \/ accepted # {} => ShownPhase = phase /\ ShownStream = stream
BY DEF ShownPhase, ShownStream

\* A frame after the end is one for the session.
LEMMA ReceiveTerminalRefined ==
  ASSUME SInv, ReceiveTerminal PROVE Promise!Next
<1>1. PICK p \in Parts : TRUE
  BY DEF SInv, SessionFacts, ReceiveTerminal, Terminal
<1>2. Promise!ReceiveTerminal
  BY DEF ReceiveTerminal, Terminal, call, Saturate, Promise!ReceiveTerminal,
         Promise!Terminal, Promise!Saturate
<1>3. QED
  BY <1>1, <1>2 DEF Promise!Next, Promise!Receive

\* A rejected part is one for the session.
LEMMA RejectInconsistentRefined ==
  ASSUME SInv, NEW p \in Parts, RejectInconsistent(p) PROVE Promise!Next
<1>1. Promise!RejectInconsistent(p)
  BY SameData DEF RejectInconsistent, Terminal, session, call,
         Promise!RejectInconsistent, Promise!Terminal, Promise!session
<1>2. QED
  BY <1>1 DEF Promise!Next, Promise!Receive

\* A part over a cap is one for the session.
LEMMA FailLimitRefined ==
  ASSUME SInv, NEW p \in Parts, FailLimit(p) PROVE Promise!Next
<1>1. Promise!FailLimit(p)
  BY SameData DEF FailLimit, Terminal, call, Promise!FailLimit, Promise!Terminal
<1>2. QED
  BY <1>1 DEF Promise!Next, Promise!Receive

\* Admitting a part shows nothing yet.
LEMMA AdmitRefined ==
  ASSUME SInv, NEW p \in Parts, Admit(p) PROVE UNCHANGED Promise!vars
<1>1. /\ pc = "idle" /\ phase \in {"Empty", "Collecting"} /\ pc' = "eliminate"
      /\ stream = NoStream \/ stream' = stream
      /\ phase' = "Collecting"
      /\ UNCHANGED <<processed, last_indexes, message, error, accepted, out>>
  BY DEF Admit, Terminal, SInv, IInv, TypeOK
<1>2. accepted = {} => rank = 0
  BY FS_EmptySet DEF SInv, SessionFacts
<1>3. accepted = {} => phase = "Empty" /\ stream = NoStream
  BY <1>1, <1>2 DEF SInv, IInv, TypeOK, SessionFacts
<1>4. accepted # {} => phase = "Collecting" /\ stream # NoStream
  BY <1>1, PartFacts DEF SInv, IInv, TypeOK, SessionFacts
<1>5. ShownPhase' = ShownPhase /\ ShownStream' = ShownStream
  BY <1>1, <1>3, <1>4 DEF ShownPhase, ShownStream
<1>6. QED
  BY <1>1, <1>5, SameData DEF ShownPhase, ShownStream, Promise!vars, Promise!session

\* An iteration of the elimination shows nothing.
LEMMA EliminateRefined ==
  ASSUME Eliminate PROVE UNCHANGED Promise!vars
BY DEF Eliminate, session, Promise!vars, Promise!session

\* The part in progress is one the session admits.
LEMMA PartAdmitted ==
  ASSUME SInv, pc = "eliminate" PROVE Promise!Admitted(part)
<1>1. /\ part \in Parts /\ StreamOf(part) = stream /\ phase = "Collecting"
      /\ stream # NoStream
  BY PartFacts DEF SInv, IInv, TypeOK
<1>2. LimitError(part) = "none"
  <2>1. /\ part.sequence_count \in Nat /\ part.message_length \in Nat
        /\ part.data_len \in Nat
    BY <1>1, PartsAssumption DEF PartFields
  <2>2. /\ part.sequence_count <= MaxFragmentCount
        /\ part.message_length <= MaxMessageLength
        /\ part.data_len <= MaxFragmentLength
    BY <1>1 DEF SInv, SessionFacts, StreamOf
  <2>3. QED
    BY <2>1, <2>2, LimitsAssumption DEF LimitError
<1>3. QED
  BY <1>1, <1>2, SameData DEF Promise!Admitted, Promise!Terminal

\* A dependent part is one the session knows.
LEMMA DiscardDependentRefined ==
  ASSUME SInv, DiscardDependent PROVE Promise!Next
<1>1. /\ pc = "eliminate" /\ scan = {} /\ mask = {} /\ part \in Parts
  BY DEF DiscardDependent, SInv, IInv, TypeOK
<1>2. Promise!Spans(accepted, Indexes(part)) /\ accepted # {}
  BY <1>1, DependentIsSpanned, SameData
<1>3. Promise!ReceiveKnown(part)
  BY <1>1, <1>2, PartAdmitted, SameData
     DEF DiscardDependent, Return, Saturate, Promise!ReceiveKnown, Promise!Saturate
<1>4. QED
  BY <1>1, <1>3 DEF Promise!Next, Promise!Receive

\* reset is that of the session.
LEMMA ResetRefined ==
  ASSUME SInv, Reset PROVE Promise!Next
BY SameData DEF Reset, call, Promise!Reset, Promise!Next

\* The part whose row is stored is new to the session, which completes or
\* fails with the solution at the same part as join does.
LEMMA StoreRowRefined ==
  ASSUME SInv, SInv', FullSession' => FullSolved', StoreRow PROVE Promise!Next
<1>1. PICK pivot \in mask : StoresAt(pivot)
  BY StoreRowFacts
<1> DEFINE new == BackSubstitute(pivot)
           whole == Concat(stream, [c \in DOMAIN new |-> new[c].data])
           full == Cardinality(accepted') = part.sequence_count
           solved == Solve(stream, accepted')
<1>2. /\ pc = "eliminate" /\ scan = {} /\ mask # {} /\ pc' = "idle"
      /\ part \in Parts /\ StreamOf(part) = stream /\ stream # NoStream
      /\ phase = "Collecting" /\ rows' = new /\ stream' = stream
      /\ accepted' = accepted \cup {part}
      /\ last_indexes' = Indexes(part) /\ processed' = Saturate(processed)
      /\ \/ /\ rank' # stream.sequence_count
            /\ out' = "Accepted" /\ UNCHANGED <<phase, message, error>>
         \/ /\ rank' = stream.sequence_count /\ phase' = "Complete"
            /\ JoinError(new) = "none" /\ UNCHANGED error
            /\ message' = whole /\ out' = "Accepted"
         \/ /\ rank' = stream.sequence_count /\ phase' = "Failed"
            /\ JoinError(new) # "none" /\ error' = JoinError(new)
            /\ out' = JoinError(new) /\ UNCHANGED message
  BY <1>1 DEF StoresAt
<1> HIDE DEF new
<1>3. ~Promise!Spans(accepted, Indexes(part)) /\ Promise!Admitted(part)
  BY <1>2, DependentIsSpanned, PartAdmitted, SameData
<1>4. full <=> rank' = stream.sequence_count
  BY <1>2 DEF SInv, SessionFacts, StreamOf
<1>5. ASSUME rank' = stream.sequence_count
      PROVE  solved = whole /\ JoinError(new) = Verify(stream, whole)
  <2>1. FullSession'
    BY <1>2, <1>5 DEF FullSession
  <2>2. /\ Solutions(stream, accepted') = {[c \in DOMAIN new |-> new[c].data]}
        /\ JoinError(rows)' = Verify(stream, whole)
    BY <1>2, <2>1 DEF FullSolved, RowData
  <2>3. JoinError(rows)' = JoinError(new)
    BY <1>2 DEF JoinError, IsUnit
  <2>4. solved = whole
    BY <2>2 DEF Solve
  <2>5. QED
    BY <2>2, <2>3, <2>4
<1>6. /\ Promise!StreamOf(part) = stream /\ Promise!Indexes(part) = Indexes(part)
      /\ Promise!Solve(stream, accepted') = solved
      /\ Promise!Verify(stream, solved) = Verify(stream, solved)
      /\ Promise!Cardinality(accepted') = Cardinality(accepted')
  BY <1>2, SameData
<1> HIDE DEF whole, solved, full
<1>7. /\ (IF pc = "eliminate" /\ accepted = {} THEN "Empty" ELSE phase)'
           = phase'
      /\ (IF pc = "eliminate" /\ accepted = {} THEN NoStream ELSE stream)'
           = stream
      /\ accepted' # {}
  BY <1>2
<1>8. Promise!ReceiveNew(part)
  <2>1. CASE rank' # stream.sequence_count
    <3>1. ~full /\ phase' = "Collecting"
      BY <1>2, <1>4, <2>1
    <3>2. QED
      BY <1>2, <1>3, <1>6, <1>7, <2>1, <3>1
         DEF Promise!ReceiveNew, Saturate, Promise!Saturate, full
  <2>2. CASE rank' = stream.sequence_count
    BY <1>2, <1>3, <1>4, <1>5, <1>6, <1>7, <2>2
       DEF Promise!ReceiveNew, Saturate, Promise!Saturate, full, solved
  <2>3. QED
    BY <2>1, <2>2
<1>9. QED
  BY <1>2, <1>8 DEF Promise!Next, Promise!Receive

\* Each step of the decoder is one of the session or shows nothing.
LEMMA NextRefined ==
  SInv /\ SInv' /\ (FullSession' => FullSolved') /\ [Next]_vars => [Promise!Next]_(Promise!vars)
<1> SUFFICES ASSUME SInv, SInv', FullSession' => FullSolved', [Next]_vars
             PROVE  [Promise!Next]_(Promise!vars)
  OBVIOUS
<1>1. CASE ReceiveTerminal
  BY <1>1, ReceiveTerminalRefined
<1>2. ASSUME NEW p \in Parts, RejectInconsistent(p)
      PROVE  [Promise!Next]_(Promise!vars)
  BY <1>2, RejectInconsistentRefined
<1>3. ASSUME NEW p \in Parts, FailLimit(p)
      PROVE  [Promise!Next]_(Promise!vars)
  BY <1>3, FailLimitRefined
<1>4. ASSUME NEW p \in Parts, Admit(p)
      PROVE  [Promise!Next]_(Promise!vars)
  BY <1>4, AdmitRefined
<1>5. CASE Eliminate
  BY <1>5, EliminateRefined
<1>6. CASE DiscardDependent
  BY <1>6, DiscardDependentRefined
<1>7. CASE StoreRow
  BY <1>7, StoreRowRefined
<1>8. CASE Reset
  BY <1>8, ResetRefined
<1>9. CASE UNCHANGED vars
  BY <1>9 DEF vars, session, call, Promise!vars, Promise!session
<1>10. QED
  BY <1>1, <1>2, <1>3, <1>4, <1>5, <1>6, <1>7, <1>8, <1>9 DEF Next

-----------------------------------------------------------------------------
(* How many messages fit *)

\* A session short of K rows leaves a free column, whose fragment may be zero or not.
LEMMA FreeColumn ==
  ASSUME SInv, stream # NoStream, rank < stream.sequence_count
  PROVE  \E f, h \in {f \in Fragmentings(stream) : RowsHold(f)} : f # h
<1> DEFINE bytes == 0 .. stream.fragment_len - 1
<1>1. /\ DOMAIN rows \subseteq Columns(stream) /\ IsFiniteSet(Columns(stream))
      /\ Cardinality(Columns(stream)) = stream.sequence_count
      /\ Cardinality(DOMAIN rows) = rank /\ stream \in Streams
      /\ rank \in Nat /\ stream.sequence_count \in Nat
  BY ColumnsFacts, StreamFacts DEF SInv, IInv, TypeOK, CountersExact
<1>2. PICK e \in Columns(stream) : e \notin DOMAIN rows
  BY <1>1
<1>3. 0 \in bytes
  BY <1>1, StreamCovers
<1>4. ASSUME NEW c \in DOMAIN rows
      PROVE  /\ c \in rows[c].mask /\ rows[c].mask \cap DOMAIN rows = {c}
             /\ rows[c].data \subseteq bytes
  BY DEF SInv, IInv, TypeOK, ReducedEchelon
<1> HIDE DEF bytes
<1> DEFINE f == [c \in Columns(stream) |-> IF c \in DOMAIN rows THEN rows[c].data ELSE {}]
           h == [c \in Columns(stream) |->
                   IF c = e THEN {0}
                   ELSE IF c \notin DOMAIN rows THEN {}
                   ELSE IF e \in rows[c].mask THEN Xor(rows[c].data, {0})
                   ELSE rows[c].data]
<1>5. f \in Fragmentings(stream)
  BY <1>4 DEF Fragmentings, bytes
<1>6. h \in Fragmentings(stream)
  <2>1. ASSUME NEW c \in DOMAIN rows
        PROVE  Xor(rows[c].data, {0}) \subseteq bytes
    BY <1>3, <1>4, XorWithin
  <2>2. ASSUME NEW c \in Columns(stream)
        PROVE  h[c] \in SUBSET bytes
    BY <1>3, <1>4, <2>1
  <2>3. QED
    BY <2>2 DEF Fragmentings, bytes
<1>7. f # h
  <2>1. f[e] = {} /\ h[e] = {0}
    BY <1>2
  <2>2. QED
    BY <2>1
<1>8. RowsHold(f)
  <2> SUFFICES ASSUME NEW c \in DOMAIN rows, NEW b
               PROVE  b \in Combine(f, rows[c].mask) <=> b \in rows[c].data
    BY DEF RowsHold
  <2>1. \A d \in rows[c].mask : b \in f[d] <=> d = c /\ b \in rows[c].data
    BY <1>1, <1>4 DEF SInv, IInv, TypeOK
  <2> DEFINE In == {d \in rows[c].mask : b \in f[d]}
  <2>2. In = IF b \in rows[c].data THEN {c} ELSE {}
    BY <1>4, <2>1
  <2>3. b \in Combine(f, rows[c].mask) <=> Odd(In)
    BY CombineMember
  <2> HIDE DEF In
  <2>4. QED
    BY <2>2, <2>3, OddSmall
<1>9. RowsHold(h)
  <2> SUFFICES ASSUME NEW c \in DOMAIN rows, NEW b
               PROVE  b \in Combine(h, rows[c].mask) <=> b \in rows[c].data
    BY DEF RowsHold
  <2> DEFINE In == {d \in rows[c].mask : b \in h[d]}
  <2>1. rows[c].mask \subseteq Columns(stream)
    BY DEF SInv, IInv, TypeOK
  <2>2. \A d \in rows[c].mask \ {c, e} : b \notin h[d]
    BY <1>4, <2>1
  <2>3. b \in Combine(h, rows[c].mask) <=> Odd(In)
    BY CombineMember
  <2>4. CASE b # 0 \/ e \notin rows[c].mask
    <3>1. b \in h[c] <=> b \in rows[c].data
      BY <1>1, <1>2, <2>4, XorMember
    <3>2. e \in rows[c].mask => b \notin h[e]
      BY <1>2, <2>4
    <3>3. In = IF b \in rows[c].data THEN {c} ELSE {}
      BY <1>4, <2>2, <3>1, <3>2
    <3> HIDE DEF In
    <3>4. QED
      BY <2>3, <3>3, OddSmall
  <2>5. CASE b = 0 /\ e \in rows[c].mask
    <3>1. b \in h[c] <=> b \notin rows[c].data
      BY <1>1, <1>2, <2>5, XorMember
    <3>2. b \in h[e] /\ c # e
      BY <1>2, <2>5
    <3>3. In = IF b \in rows[c].data THEN {e} ELSE Xor({c}, {e})
      BY <1>4, <2>2, <2>5, <3>1, <3>2 DEF Xor, SymDiff
    <3>4. ~Odd(Xor({c}, {e}))
      BY OddXor, OddSmall, FS_Singleton
    <3> HIDE DEF In
    <3>5. QED
      BY <2>3, <3>3, <3>4, OddSmall
  <2>6. QED
    BY <2>4, <2>5
<1> HIDE DEF f, h
<1>10. QED
  BY <1>5, <1>6, <1>7, <1>8, <1>9

-----------------------------------------------------------------------------
(* The theorems *)

\* A decoder whose accepted parts all come from one source holds XORs of that
\* source's fragments, completes with the source and no other message, and
\* never fails its padding or checksum check.
THEOREM DeliversTheSource == Spec => []DeliversSource
<1>1. SInv => DeliversSource
  <2> SUFFICES ASSUME SInv, NEW src \in Sources, HonestSession(src)
               PROVE  /\ \A c \in DOMAIN rows :
                           rows[c].data = Combine(Fragments(src, stream), rows[c].mask)
                      /\ phase = "Complete" => message = src.bytes
                      /\ error \notin {"InvalidPadding", "InvalidMessageChecksum"}
    BY DEF DeliversSource
  <2>1. \A c \in DOMAIN rows :
          rows[c].data = Combine(Fragments(src, stream), rows[c].mask)
    BY FragmentsSolve DEF RowsHold
  <2>2. ASSUME phase = "Complete"
        PROVE  message = src.bytes
    <3>1. rank = stream.sequence_count /\ rank = Cardinality(accepted)
      BY <2>2 DEF SInv, IInv, CollectingIsShort, SessionFacts
    <3>2. stream # NoStream
      BY <2>2 DEF SInv, IInv, TypeOK, SessionFacts
    <3>3. QED
      BY <2>2, <3>1, <3>2, JoinsToSource DEF SInv, SessionFacts
  <2>3. error \notin {"InvalidPadding", "InvalidMessageChecksum"}
    <3>1. CASE stream = NoStream \/ phase # "Failed"
      BY <3>1 DEF SInv, SessionFacts
    <3>2. CASE stream # NoStream /\ phase = "Failed"
      BY <3>2, JoinsToSource DEF SInv, SessionFacts
    <3>3. QED
      BY <3>1, <3>2
  <2>4. QED
    BY <2>1, <2>2, <2>3
<1>2. QED
  BY <1>1, SolutionInvariance, PTL

\* The rows a session holds take less than one fragment over the largest
\* message the limits allow, whatever metadata the parts state.
THEOREM MemoryBounded == Spec => []RowMemoryBounded
<1>1. SInv => RowMemoryBounded
  <2> SUFFICES ASSUME SInv
               PROVE  rank * stream.fragment_len <= MaxMessageLength + MaxFragmentLength
    BY DEF SInv, IInv, CountersExact, RowMemoryBounded
  <2> DEFINE k == stream.sequence_count
             n == stream.fragment_len
  <2>1. rank \in Nat /\ rank <= k /\ stream \in Streams \cup {NoStream}
    BY DEF SInv, IInv, TypeOK, CollectingIsShort
  <2>2. CASE stream = NoStream
    <3>1. n = 0
      BY <2>2 DEF NoStream
    <3>2. rank * n = 0
      BY <2>1, <3>1
    <3>3. QED
      BY <3>2, LimitsAssumption
  <2>3. CASE stream # NoStream
    <3>1. /\ k \in Nat /\ n \in Nat /\ stream.message_length \in Nat
          /\ k * n < stream.message_length + n
      BY <2>1, <2>3, StreamCovers
    <3>2. stream.message_length <= MaxMessageLength /\ n <= MaxFragmentLength
      BY <2>3 DEF SInv, SessionFacts
    <3> HIDE DEF k, n
    <3>3. rank * n <= k * n /\ rank * n \in Nat /\ k * n \in Nat
      BY <2>1, <3>1, ProductGrows
    <3>4. rank * n <= MaxMessageLength + MaxFragmentLength
      BY <3>1, <3>2, <3>3, LimitsAssumption
    <3>5. QED
      BY <3>4 DEF n
  <2>4. QED
    BY <2>2, <2>3
<1>2. QED
  BY <1>1, SolutionInvariance, PTL

\* The incremental elimination is the session of FountainSession: a part is
\* accepted exactly when its index set is no XOR of those accepted before, the
\* session ends at the K-th one, and what it hands over is the solution.
THEOREM Refinement == Spec => KeepsPromise
<1>1. SInv /\ SInv' /\ (FullSession => FullSolved)' /\ [Next]_vars
        => [Promise!Next]_(Promise!vars)
  BY NextRefined
<1>2. QED
  BY <1>1, InitRefined, FullIsSolved, SolutionInvariance, PTL
     DEF Spec, KeepsPromise, Promise!Spec

\* While a session collects at least two messages fit the parts accepted; once
\* it has completed, or failed its last checks, exactly one does.
THEOREM CompletesInTime == Spec => []CompletesWhenDetermined
<1>1. SInv /\ (FullSession => FullSolved) => CompletesWhenDetermined
  <2> SUFFICES ASSUME SInv, FullSession => FullSolved, ShownStream # NoStream
               PROVE  LET candidates == Cardinality(Solutions(stream, accepted))
                      IN  IF phase = "Collecting" THEN candidates > 1 ELSE candidates = 1
    <3>1. ShownStream # NoStream => ShownStream = stream /\ ShownPhase = phase
      BY DEF ShownStream, ShownPhase
    <3>2. QED
      BY <3>1, SameData DEF CompletesWhenDetermined, Promise!CompletesWhenDetermined,
         ShownStream, ShownPhase
  <2> DEFINE fits == Solutions(stream, accepted)
  <2>1. stream \in Streams /\ stream # NoStream
    BY DEF ShownStream, SInv, IInv, TypeOK
  <2>2. CASE phase = "Collecting"
    <3>1. fits = {f \in Fragmentings(stream) : RowsHold(f)}
      BY SolutionsAreRows
    <3>2. PICK f \in fits : \E h \in fits : f # h
      BY <2>1, <2>2, <3>1, FreeColumn DEF SInv, IInv, CollectingIsShort
    <3>3. IsFiniteSet(fits)
      BY <2>1, <3>1, FragmentingsFinite, FS_Subset
    <3> HIDE DEF fits
    <3>4. Cardinality(fits) # 0 /\ Cardinality(fits) # 1
      BY <3>2, <3>3, FS_EmptySet, FS_Singleton
    <3>5. Cardinality(fits) \in Nat
      BY <3>3, FS_CardinalityType
    <3>6. Cardinality(fits) > 1
      BY <3>4, <3>5
    <3>7. QED
      BY <2>2, <3>6 DEF fits
  <2>3. CASE phase # "Collecting"
    <3>1. phase \in {"Complete", "Failed"}
      BY <2>1, <2>3 DEF SInv, IInv, TypeOK
    <3>2. FullSession
      BY <2>1, <3>1 DEF FullSession, SInv, IInv, CollectingIsShort, SessionFacts
    <3>3. fits = {RowData}
      BY <3>2 DEF FullSolved
    <3>4. QED
      BY <2>3, <3>3, FS_Singleton
  <2>4. QED
    BY <2>2, <2>3
<1>2. QED
  BY <1>1, FullIsSolved, SolutionInvariance, PTL
=============================================================================
