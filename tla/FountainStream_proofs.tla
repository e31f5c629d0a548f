------------------------ MODULE FountainStream_proofs -----------------------
(***************************************************************************)
(* What the operators on streams, parts and fragments, and those that cut  *)
(* a message, are good for, whoever uses them.                             *)
(*                                                                         *)
(* The arithmetic is that of quotients rounded up, by which a message is   *)
(* cut.  The linear algebra is that of parity: XOR of sets adds the        *)
(* parities of their cardinalities.                                        *)
(***************************************************************************)
EXTENDS FountainStream, Partition, NaturalsInduction, WellFoundedInduction,
        FiniteSetTheorems, TLAPS

-----------------------------------------------------------------------------
(* Numbers *)

\* A set of numbers has a least member.
LEMMA LeastExists ==
  ASSUME NEW S \in SUBSET Nat, S # {}
  PROVE  \E x \in S : \A y \in S : x <= y
<1> DEFINE Less == OpToRel(<, Nat)
<1>1. \A x, y \in Nat : x < y => <<x, y>> \in Less
  BY Zenon DEF OpToRel
<1>2. PICK n \in S : \A y \in S : ~(<<y, n>> \in Less)
  BY NatLessThanWellFounded, WFMin
<1> HIDE DEF Less
<1>3. \A y \in S : ~(y < n)
  BY <1>1, <1>2
<1>4. QED
  BY <1>3

\* A product grows with its first factor.
LEMMA ProductGrows ==
  ASSUME NEW a \in Nat, NEW b \in Nat, NEW n \in Nat, a <= b
  PROVE  a * n <= b * n /\ a * n \in Nat /\ b * n \in Nat
<1>1. (b - a) * n \in Nat /\ a * n \in Nat
  OBVIOUS
<1>2. b * n = a * n + (b - a) * n
  OBVIOUS
<1>3. QED
  BY <1>1, <1>2

\* Division with remainder.
LEMMA DivisionSplits ==
  ASSUME NEW a \in Nat, NEW n \in Nat \ {0}
  PROVE  \E q \in Nat : \E r \in 0 .. n - 1 :
           a = q * n + r /\ a \div n = q /\ a % n = r
<1> DEFINE q == a \div n
           r == a % n
<1>1. r \in 0 .. n - 1 /\ q \in Nat
  OBVIOUS
<1>2. r = a - n * q
  OBVIOUS
<1>3. a \div n = q /\ a % n = r
  OBVIOUS
<1> HIDE DEF q, r
<1>4. a = q * n + r
  BY <1>1, <1>2
<1>5. QED
  BY <1>1, <1>3, <1>4

\* Rounded up, a quotient is the least number whose product reaches.
LEMMA CeilReaches ==
  ASSUME NEW a \in Nat \ {0}, NEW n \in Nat \ {0}
  PROVE  /\ DivCeil(a, n) \in Nat \ {0}
         /\ DivCeil(a, n) * n \in Nat /\ DivCeil(a, n) * n >= a
         /\ (DivCeil(a, n) - 1) * n \in Nat /\ (DivCeil(a, n) - 1) * n < a
         /\ DivCeil(a, n) * n = (DivCeil(a, n) - 1) * n + n
<1>1. PICK q \in Nat : \E s \in 0 .. n - 1 :
        a = q * n + s /\ a \div n = q /\ a % n = s
  BY DivisionSplits
<1> DEFINE r == a % n
<1>2. r \in 0 .. n - 1 /\ a = q * n + r /\ DivCeil(a, n) = IF r > 0 THEN q + 1 ELSE q
  BY <1>1 DEF DivCeil
<1> HIDE DEF r
<1>3. q * n \in Nat /\ (q + 1) * n = q * n + n
  BY <1>1
<1>4. CASE r > 0
  <2>1. DivCeil(a, n) = q + 1 /\ DivCeil(a, n) - 1 = q
    BY <1>2, <1>4
  <2>2. q + 1 \in Nat \ {0} /\ q * n + n >= a /\ q * n < a /\ q * n + n \in Nat
    BY <1>1, <1>2, <1>3, <1>4
  <2>3. QED
    BY <1>3, <2>1, <2>2
<1>5. CASE ~(r > 0)
  <2>1. DivCeil(a, n) = q /\ q * n = a
    BY <1>1, <1>2, <1>3, <1>5
  <2>2. q # 0
    <3>1. 0 * n = 0
      OBVIOUS
    <3>2. QED
      BY <2>1, <3>1
  <2>3. (q - 1) * n = q * n - n /\ (q - 1) * n \in Nat
    BY <1>1, <2>2
  <2>4. QED
    BY <1>1, <1>2, <2>1, <2>2, <2>3
<1>6. QED
  BY <1>4, <1>5

\* It is no more than any number whose product reaches.
LEMMA CeilLeast ==
  ASSUME NEW a \in Nat \ {0}, NEW n \in Nat \ {0}, NEW m \in Nat \ {0}
  PROVE  DivCeil(a, n) <= m <=> m * n >= a
<1> DEFINE c == DivCeil(a, n)
<1>1. /\ c \in Nat \ {0} /\ c * n \in Nat /\ c * n >= a
      /\ (c - 1) * n \in Nat /\ (c - 1) * n < a
  BY CeilReaches
<1> HIDE DEF c
<1>2. ASSUME c <= m PROVE m * n >= a
  <2>1. c * n <= m * n /\ m * n \in Nat
    BY <1>1, <1>2, ProductGrows
  <2>2. QED
    BY <1>1, <2>1
<1>3. ASSUME m * n >= a, m < c PROVE FALSE
  <2>1. m \in Nat /\ c - 1 \in Nat /\ m <= c - 1
    BY <1>1, <1>3
  <2>2. m * n <= (c - 1) * n /\ m * n \in Nat
    BY <2>1, ProductGrows
  <2>3. QED
    BY <1>1, <1>3, <2>2
<1>4. c <= m \/ m < c
  BY <1>1
<1>5. QED
  BY <1>2, <1>3, <1>4 DEF c

\* A larger divisor gives no larger quotient.
LEMMA CeilShrinks ==
  ASSUME NEW a \in Nat \ {0}, NEW m \in Nat \ {0}, NEW n \in Nat \ {0}, m <= n
  PROVE  DivCeil(a, n) <= DivCeil(a, m)
<1> DEFINE c == DivCeil(a, m)
<1>1. c \in Nat \ {0} /\ c * m \in Nat /\ c * m >= a
  BY CeilReaches
<1> HIDE DEF c
<1>2. m * c <= n * c /\ n * c \in Nat
  BY <1>1, ProductGrows
<1>3. m * c = c * m /\ n * c = c * n
  BY <1>1
<1>4. c * n >= a
  BY <1>1, <1>2, <1>3
<1>5. DivCeil(a, n) <= c
  BY <1>1, <1>4, CeilLeast
<1>6. QED
  BY <1>5 DEF c

\* Padded, a message is a whole number of fragments: the quotient rounded up.
LEMMA PaddedCount ==
  ASSUME NEW length \in Nat \ {0}, NEW len \in Nat \ {0}
  PROVE  (length + Pad(length, len)) \div len = DivCeil(length, len)
<1>1. PICK q \in Nat : \E s \in 0 .. len - 1 :
        length = q * len + s /\ length \div len = q /\ length % len = s
  BY DivisionSplits
<1> DEFINE r == length % len
<1>2. ASSUME NEW m \in Nat PROVE (m * len) \div len = m
  OBVIOUS
<1>3. Pad(length, len) = (len - r) % len
  BY DEF Pad
<1>4. /\ r \in 0 .. len - 1 /\ length = q * len + r
      /\ DivCeil(length, len) = IF r > 0 THEN q + 1 ELSE q
  BY <1>1 DEF DivCeil
<1> HIDE DEF r
<1>5. CASE r = 0
  <2>1. Pad(length, len) = 0
    BY <1>3, <1>5
  <2>2. length + Pad(length, len) = q * len
    BY <1>1, <1>4, <1>5, <2>1
  <2>3. QED
    BY <1>1, <1>2, <1>4, <1>5, <2>2
<1>6. CASE r > 0
  <2>1. Pad(length, len) = len - r
    <3>1. len - r \in 0 .. len - 1
      BY <1>4, <1>6
    <3>2. (len - r) % len = len - r
      BY <3>1
    <3>3. QED
      BY <1>3, <3>2
  <2>2. length + Pad(length, len) = (q + 1) * len
    BY <1>1, <1>4, <2>1
  <2>3. QED
    BY <1>1, <1>2, <1>4, <1>6, <2>2
<1>7. QED
  BY <1>4, <1>5, <1>6

-----------------------------------------------------------------------------
(* Parity and XOR *)

\* XOR of two masks holds the columns that are in exactly one of them.
LEMMA XorMember ==
  ASSUME NEW A, NEW B, NEW x
  PROVE  x \in Xor(A, B) <=> ((x \in A /\ x \notin B) \/ (x \in B /\ x \notin A))
BY DEF Xor, SymDiff

\* XOR stays within any set that holds both arguments.
LEMMA XorWithin ==
  ASSUME NEW S, NEW A, NEW B, A \subseteq S, B \subseteq S
  PROVE  Xor(A, B) \subseteq S
BY DEF Xor, SymDiff

\* XOR is its own inverse and has the empty set for zero.
LEMMA XorGroup ==
  ASSUME NEW A, NEW B, NEW C
  PROVE  /\ Xor(A, A) = {}
         /\ Xor(A, {}) = A
         /\ Xor(A, B) = Xor(B, A)
         /\ Xor(Xor(A, B), B) = A
         /\ Xor(Xor(A, B), C) = Xor(A, Xor(B, C))
         /\ Xor(A, C) = Xor(B, C) => A = B
         /\ Xor(A, B) = {} => A = B
<1>1. \A x : /\ x \in Xor(Xor(A, B), C) <=> x \in Xor(A, Xor(B, C))
  BY DEF Xor, SymDiff
<1>2. Xor(A, C) = Xor(B, C) => A = B
  BY DEF Xor, SymDiff
<1>3. QED
  BY <1>1, <1>2 DEF Xor, SymDiff

\* The parity of an XOR is the sum of the parities.
LEMMA OddXor ==
  ASSUME NEW S, NEW T, IsFiniteSet(S), IsFiniteSet(T)
  PROVE  /\ IsFiniteSet(Xor(S, T))
         /\ Odd(Xor(S, T)) <=> ~(Odd(S) <=> Odd(T))
<1> DEFINE s == Cardinality(S)
           t == Cardinality(T)
           i == Cardinality(S \cap T)
           j == Cardinality(T \cap S)
<1>1. /\ IsFiniteSet(S \ T) /\ IsFiniteSet(T \ S) /\ IsFiniteSet(S \cap T)
      /\ Cardinality(S \ T) = s - i
      /\ Cardinality(T \ S) = t - j
  BY FS_Difference, FS_Intersection
<1>2. i = j
  <2>1. S \cap T = T \cap S
    OBVIOUS
  <2>2. QED
    BY <2>1
<1>3. s \in Nat /\ t \in Nat /\ i \in Nat
  BY <1>1, FS_CardinalityType
<1>4. Cardinality((S \ T) \cap (T \ S)) = 0
  <2>1. (S \ T) \cap (T \ S) = {}
    OBVIOUS
  <2>2. QED
    BY <2>1, FS_EmptySet
<1>5. /\ IsFiniteSet((T \ S) \cup (S \ T))
      /\ Cardinality((T \ S) \cup (S \ T)) = s + t - 2 * i
  <2>1. Cardinality((S \ T) \cup (T \ S)) = (s - i) + (t - j) - 0
    BY <1>1, <1>4, FS_Union
  <2>2. (S \ T) \cup (T \ S) = (T \ S) \cup (S \ T)
    OBVIOUS
  <2>3. IsFiniteSet((S \ T) \cup (T \ S))
    BY <1>1, FS_Union
  <2>4. (s - i) + (t - j) - 0 = s + t - 2 * i
    <3> HIDE DEF s, t, i, j
    <3>1. QED
      BY <1>2, <1>3
  <2>5. Cardinality((T \ S) \cup (S \ T)) = (s - i) + (t - j) - 0
    BY <2>1, <2>2, Zenon
  <2>6. IsFiniteSet((T \ S) \cup (S \ T))
    BY <2>2, <2>3, Zenon
  <2>7. QED
    BY <2>4, <2>5, <2>6, Zenon
<1>6. Xor(S, T) = (T \ S) \cup (S \ T)
  BY DEF Xor, SymDiff
<1>7. (s + t - 2 * i) % 2 = 1 <=> ~(s % 2 = 1 <=> t % 2 = 1)
  <2> HIDE DEF s, t, i, j
  <2>1. QED
    BY <1>3
<1>8. QED
  BY <1>5, <1>6, <1>7 DEF Odd

\* The parity of an empty set and of a single element.
LEMMA OddSmall ==
  /\ ~Odd({})
  /\ \A x : Odd({x})
<1>1. Cardinality({}) = 0 /\ \A x : Cardinality({x}) = 1
  BY FS_EmptySet, FS_Singleton, Zenon
<1>2. ~(0 % 2 = 1) /\ 1 % 2 = 1
  OBVIOUS
<1>3. ASSUME NEW x PROVE Odd({x})
  BY <1>1, <1>2, Zenon DEF Odd
<1>4. QED
  BY <1>1, <1>2, <1>3 DEF Odd

-----------------------------------------------------------------------------
(* Streams, parts and fragments *)

\* The lowest set bit of a nonempty mask exists and is the least of its columns.
LEMMA MinIsLeast ==
  ASSUME NEW S \in SUBSET Nat, S # {}
  PROVE  /\ Min(S) \in S
         /\ \A x \in S : Min(S) <= x
<1>1. \E x \in S : \A y \in S : x <= y
  BY LeastExists
<1>2. QED
  BY <1>1 DEF Min

\* The metadata a stream can have.
LEMMA StreamFacts ==
  ASSUME NEW s \in Streams \cup {NoStream}
  PROVE  /\ s.sequence_count \in Nat
         /\ s.fragment_len \in Nat
         /\ s # NoStream => s.sequence_count > 0
BY PartsAssumption DEF Streams, StreamOf, NoStream, PartFields, PartNew

\* What a valid part states about itself.
LEMMA PartFacts ==
  ASSUME NEW p \in Parts
  PROVE  /\ StreamOf(p) \in Streams
         /\ StreamOf(p) # NoStream
         /\ Indexes(p) \subseteq Columns(StreamOf(p))
         /\ p.data \subseteq 0 .. StreamOf(p).fragment_len - 1
<1>1. /\ p.sequence \in Nat \ {0} /\ p.sequence_count \in Nat \ {0}
      /\ p.data \subseteq 0 .. p.data_len - 1
  BY PartsAssumption DEF PartFields, PartNew
<1>2. Indexes(p) \subseteq 0 .. p.sequence_count - 1
  BY <1>1, MixedAssumption DEF Indexes, Choose
<1>3. QED
  BY <1>1, <1>2 DEF StreamOf, Streams, NoStream, Columns

\* A part names at least one fragment.
LEMMA IndexesNotEmpty ==
  ASSUME NEW p \in Parts
  PROVE  Indexes(p) # {}
BY PartsAssumption, MixedAssumption DEF Indexes, Choose, PartFields

\* The columns of a stream are K natural numbers.
LEMMA ColumnsFacts ==
  ASSUME NEW s \in Streams \cup {NoStream}
  PROVE  /\ Columns(s) \subseteq Nat
         /\ IsFiniteSet(Columns(s))
         /\ Cardinality(Columns(s)) = s.sequence_count
<1> DEFINE k == s.sequence_count
<1>1. k \in Nat
  BY StreamFacts
<1> HIDE DEF k
<1>2. k - 1 \in Int /\ 0 \in Int
  BY <1>1
<1>3. /\ IsFiniteSet(0 .. k - 1)
      /\ Cardinality(0 .. k - 1) = IF 0 > k - 1 THEN 0 ELSE k - 1 - 0 + 1
  BY <1>2, FS_Interval
<1>4. Cardinality(0 .. k - 1) = k
  BY <1>1, <1>3
<1>5. Columns(s) = 0 .. k - 1
  BY DEF Columns, k
<1>6. QED
  BY <1>1, <1>3, <1>4, <1>5 DEF k

\* What Part::new says of the metadata of a stream.
LEMMA StreamCovers ==
  ASSUME NEW s \in Streams
  PROVE  /\ s.sequence_count \in Nat \ {0} /\ s.message_length \in Nat \ {0}
         /\ s.fragment_len \in Nat \ {0}
         /\ s.sequence_count * s.fragment_len >= s.message_length
         /\ s.sequence_count * s.fragment_len < s.message_length + s.fragment_len
<1>1. PICK p \in Parts : s = StreamOf(p)
  BY DEF Streams
<1>2. /\ p.sequence_count \in Nat /\ p.message_length \in Nat /\ p.data_len \in Nat
      /\ PartNew(p)
  BY PartsAssumption DEF PartFields
<1>3. /\ p.sequence_count * p.data_len \in Nat
      /\ p.sequence_count * p.data_len >= p.message_length
      /\ p.sequence_count * p.data_len - p.message_length < p.data_len
  BY <1>2 DEF PartNew
<1>4. QED
  BY <1>1, <1>2, <1>3 DEF StreamOf, PartNew

\* A byte is nonzero in an XOR of fragments when it is so in an odd number.
LEMMA CombineMember ==
  ASSUME NEW frags, NEW cols, NEW b
  PROVE  b \in Combine(frags, cols) <=> Odd({c \in cols : b \in frags[c]})
<1>1. ASSUME Odd({c \in cols : b \in frags[c]})
      PROVE  b \in UNION {frags[c] : c \in cols}
  <2>1. {c \in cols : b \in frags[c]} # {}
    BY <1>1, OddSmall
  <2>2. QED
    BY <2>1
<1>2. QED
  BY <1>1 DEF Combine

\* The fragments of an XOR of masks combine to the XOR of what each combines.
LEMMA CombineXor ==
  ASSUME NEW frags, NEW A, NEW B, IsFiniteSet(A), IsFiniteSet(B)
  PROVE  Combine(frags, Xor(A, B)) = Xor(Combine(frags, A), Combine(frags, B))
<1> SUFFICES ASSUME NEW b
             PROVE  b \in Combine(frags, Xor(A, B))
                      <=> b \in Xor(Combine(frags, A), Combine(frags, B))
  OBVIOUS
<1> DEFINE In(S) == {c \in S : b \in frags[c]}
<1>1. IsFiniteSet(In(A)) /\ IsFiniteSet(In(B))
  <2>1. In(A) \in SUBSET A /\ In(B) \in SUBSET B
    OBVIOUS
  <2>2. QED
    BY <2>1, FS_Subset
<1>2. In(Xor(A, B)) = Xor(In(A), In(B))
  BY DEF Xor, SymDiff
<1>3. Odd(In(Xor(A, B))) <=> ~(Odd(In(A)) <=> Odd(In(B)))
  <2> HIDE DEF In
  <2>1. Odd(Xor(In(A), In(B))) <=> ~(Odd(In(A)) <=> Odd(In(B)))
    BY <1>1, OddXor
  <2>2. QED
    BY <1>2, <2>1
<1>4. /\ b \in Combine(frags, Xor(A, B)) <=> Odd(In(Xor(A, B)))
      /\ b \in Combine(frags, A) <=> Odd(In(A))
      /\ b \in Combine(frags, B) <=> Odd(In(B))
  BY CombineMember
<1>5. QED
  BY <1>3, <1>4, XorMember

\* One fragment alone.
LEMMA CombineOne ==
  ASSUME NEW frags, NEW c
  PROVE  Combine(frags, {c}) = frags[c]
<1> SUFFICES ASSUME NEW b
             PROVE  b \in Combine(frags, {c}) <=> b \in frags[c]
  OBVIOUS
<1>1. CASE b \in frags[c]
  <2>1. {d \in {c} : b \in frags[d]} = {c}
    BY <1>1
  <2>2. QED
    BY <1>1, <2>1, OddSmall, CombineMember
<1>2. CASE b \notin frags[c]
  <2>1. {d \in {c} : b \in frags[d]} = {}
    BY <1>2
  <2>2. QED
    BY <1>2, <2>1, OddSmall, CombineMember
<1>3. QED
  BY <1>1, <1>2

\* The fragments of a message laid end to end are the message.
LEMMA FragmentsJoin ==
  ASSUME NEW src, src.length \in Nat, src.bytes \subseteq 0 .. src.length - 1,
         NEW s, s.fragment_len \in Nat \ {0}, s.sequence_count \in Nat \ {0},
         s.sequence_count * s.fragment_len >= src.length
  PROVE  Concat(s, Fragments(src, s)) = src.bytes
<1> DEFINE n == s.fragment_len
           k == s.sequence_count
<1>1. /\ n \in Nat \ {0} /\ k \in Nat \ {0} /\ k * n >= src.length
      /\ src.length \in Nat /\ src.bytes \subseteq 0 .. src.length - 1
  OBVIOUS
<1>2. Columns(s) = 0 .. k - 1
  BY DEF Columns
<1>3. ASSUME NEW c \in Columns(s)
      PROVE  Fragments(src, s)[c] = {b \in 0 .. n - 1 : c * n + b \in src.bytes}
  BY DEF Fragments
<1> HIDE DEF n, k
<1>4. ASSUME NEW b \in src.bytes
      PROVE  \E c \in Columns(s) : \E r \in Fragments(src, s)[c] : b = c * n + r
  <2>1. b \in Nat /\ b < k * n
    BY <1>1
  <2>2. PICK c \in Nat : \E r \in 0 .. n - 1 : b = c * n + r
    BY <1>1, <2>1, DivisionSplits
  <2>3. c < k
    <3>1. SUFFICES ASSUME k <= c PROVE FALSE
      BY <1>1, <2>2
    <3>2. k * n <= c * n /\ k * n \in Nat /\ c * n \in Nat
      BY <1>1, <2>2, <3>1, ProductGrows
    <3>3. QED
      BY <1>1, <2>1, <2>2, <3>2
  <2>4. c \in Columns(s)
    BY <1>1, <1>2, <2>2, <2>3
  <2>5. \E r \in Fragments(src, s)[c] : b = c * n + r
    BY <1>3, <2>2, <2>4
  <2>6. QED
    BY <2>4, <2>5
<1>5. ASSUME NEW c \in Columns(s), NEW r \in Fragments(src, s)[c]
      PROVE  c * n + r \in src.bytes
  BY <1>3
<1>6. Concat(s, Fragments(src, s))
        = UNION {{c * n + b : b \in Fragments(src, s)[c]} : c \in Columns(s)}
  BY DEF Concat, n
<1>7. QED
  BY <1>4, <1>5, <1>6

\* Fragments that could be those of a stream.
Fragmentings(s) == [Columns(s) -> SUBSET (0 .. s.fragment_len - 1)]

\* The messages of a stream are finitely many.
LEMMA FragmentingsFinite ==
  ASSUME NEW s \in Streams
  PROVE  IsFiniteSet(Fragmentings(s))
<1> DEFINE bytes == 0 .. s.fragment_len - 1
           cells == Columns(s) \X bytes
           g == [f \in Fragmentings(s) |->
                   {cell \in cells : cell[2] \in f[cell[1]]}]
<1>1. IsFiniteSet(bytes)
  <2>1. 0 \in Int /\ s.fragment_len - 1 \in Int
    BY StreamCovers
  <2>2. QED
    BY <2>1, FS_Interval
<1>2. IsFiniteSet(Columns(s))
  BY ColumnsFacts
<1>3. IsFiniteSet(SUBSET cells)
  BY <1>1, <1>2, FS_Product, FS_SUBSET
<1>4. g \in [Fragmentings(s) -> SUBSET cells]
  OBVIOUS
<1>5. ASSUME NEW f \in Fragmentings(s), NEW h \in Fragmentings(s), g[f] = g[h]
      PROVE  f = h
  <2>1. \A c \in Columns(s) : f[c] \subseteq bytes /\ h[c] \subseteq bytes
    BY DEF Fragmentings
  <2>2. ASSUME NEW c \in Columns(s), NEW b \in bytes
        PROVE  b \in f[c] <=> b \in h[c]
    <3>1. <<c, b>> \in cells
      OBVIOUS
    <3>2. <<c, b>> \in g[f] <=> b \in f[c]
      BY <3>1
    <3>3. <<c, b>> \in g[h] <=> b \in h[c]
      BY <3>1
    <3>4. QED
      BY <1>5, <3>2, <3>3
  <2> HIDE DEF g, cells, bytes
  <2>3. \A c \in Columns(s) : f[c] = h[c]
    BY <2>1, <2>2
  <2>4. QED
    BY <2>3 DEF Fragmentings
<1> HIDE DEF g, cells
<1>6. g \in Injection(Fragmentings(s), SUBSET cells)
  BY <1>4, <1>5 DEF Injection, IsInjective
<1>7. QED
  BY <1>3, <1>6, FS_Injection

-----------------------------------------------------------------------------
(* What a set of index sets spans *)

\* A column is in the XOR of index sets when an odd number of them hold it.
LEMMA XorOfIndexesMember ==
  ASSUME NEW eqs, NEW c
  PROVE  c \in XorOfIndexes(eqs) <=> Odd({q \in eqs : c \in Indexes(q)})
<1>1. ASSUME Odd({q \in eqs : c \in Indexes(q)})
      PROVE  c \in UNION {Indexes(q) : q \in eqs}
  <2>1. {q \in eqs : c \in Indexes(q)} # {}
    BY <1>1, OddSmall
  <2>2. QED
    BY <2>1
<1>2. QED
  BY <1>1 DEF XorOfIndexes

\* The XOR over an XOR of sets is the XOR of the two.
LEMMA XorOfIndexesXor ==
  ASSUME NEW A, NEW B, IsFiniteSet(A), IsFiniteSet(B)
  PROVE  XorOfIndexes(Xor(A, B))
           = Xor(XorOfIndexes(A), XorOfIndexes(B))
<1> SUFFICES ASSUME NEW c
             PROVE  c \in XorOfIndexes(Xor(A, B))
                      <=> c \in Xor(XorOfIndexes(A), XorOfIndexes(B))
  OBVIOUS
<1> DEFINE In(S) == {q \in S : c \in Indexes(q)}
<1>1. IsFiniteSet(In(A)) /\ IsFiniteSet(In(B))
  <2>1. In(A) \in SUBSET A /\ In(B) \in SUBSET B
    OBVIOUS
  <2>2. QED
    BY <2>1, FS_Subset
<1>2. In(Xor(A, B)) = Xor(In(A), In(B))
  BY DEF Xor, SymDiff
<1>3. Odd(In(Xor(A, B))) <=> ~(Odd(In(A)) <=> Odd(In(B)))
  <2> HIDE DEF In
  <2>1. Odd(Xor(In(A), In(B))) <=> ~(Odd(In(A)) <=> Odd(In(B)))
    BY <1>1, OddXor
  <2>2. QED
    BY <1>2, <2>1
<1>4. /\ c \in XorOfIndexes(Xor(A, B)) <=> Odd(In(Xor(A, B)))
      /\ c \in XorOfIndexes(A) <=> Odd(In(A))
      /\ c \in XorOfIndexes(B) <=> Odd(In(B))
  BY XorOfIndexesMember
<1>5. QED
  BY <1>3, <1>4, XorMember

\* The index sets of no part, and of one.
LEMMA XorOfIndexesSmall ==
  /\ XorOfIndexes({}) = {}
  /\ \A p : XorOfIndexes({p}) = Indexes(p)
<1>1. XorOfIndexes({}) = {}
  BY DEF XorOfIndexes
<1>2. ASSUME NEW p, NEW c
      PROVE  c \in XorOfIndexes({p}) <=> c \in Indexes(p)
  <2>1. CASE c \in Indexes(p)
    <3>1. {q \in {p} : c \in Indexes(q)} = {p}
      BY <2>1
    <3>2. QED
      BY <2>1, <3>1, OddSmall, XorOfIndexesMember
  <2>2. CASE c \notin Indexes(p)
    <3>1. {q \in {p} : c \in Indexes(q)} = {}
      BY <2>2
    <3>2. QED
      BY <2>2, <3>1, OddSmall, XorOfIndexesMember
  <2>3. QED
    BY <2>1, <2>2
<1>3. QED
  BY <1>1, <1>2

\* A span is closed under XOR and holds the index sets it is made of.
LEMMA SpanGroup ==
  ASSUME NEW eqs, IsFiniteSet(eqs)
  PROVE  /\ Spans(eqs, {})
         /\ \A p \in eqs : Spans(eqs, Indexes(p))
         /\ \A a, b : Spans(eqs, a) /\ Spans(eqs, b)
                      => Spans(eqs, Xor(a, b))
<1>1. Spans(eqs, {})
  BY XorOfIndexesSmall DEF Spans
<1>2. ASSUME NEW p \in eqs
      PROVE  Spans(eqs, Indexes(p))
  <2>1. {p} \in SUBSET eqs /\ XorOfIndexes({p}) = Indexes(p)
    BY XorOfIndexesSmall
  <2>2. QED
    BY <2>1 DEF Spans
<1>3. ASSUME NEW a, NEW b, Spans(eqs, a), Spans(eqs, b)
      PROVE  Spans(eqs, Xor(a, b))
  <2>1. PICK A \in SUBSET eqs : XorOfIndexes(A) = a
    BY <1>3 DEF Spans
  <2>2. PICK B \in SUBSET eqs : XorOfIndexes(B) = b
    BY <1>3 DEF Spans
  <2>3. IsFiniteSet(A) /\ IsFiniteSet(B)
    BY FS_Subset
  <2>4. XorOfIndexes(Xor(A, B)) = Xor(a, b)
    BY <2>1, <2>2, <2>3, XorOfIndexesXor
  <2>5. Xor(A, B) \in SUBSET eqs
    BY XorWithin
  <2>6. QED
    BY <2>4, <2>5 DEF Spans
<1>4. QED
  BY <1>1, <1>2, <1>3

\* One more part adds to a span the XORs with its index set, and no others.
LEMMA SpanAdd ==
  ASSUME NEW eqs, IsFiniteSet(eqs), NEW p, NEW m
  PROVE  Spans(eqs \cup {p}, m)
           <=> Spans(eqs, m) \/ Spans(eqs, Xor(m, Indexes(p)))
<1>1. IsFiniteSet(eqs \cup {p})
  BY FS_AddElement
<1>2. ASSUME NEW n, Spans(eqs, n)
      PROVE  Spans(eqs \cup {p}, n)
  BY <1>2 DEF Spans
<1>3. ASSUME Spans(eqs, Xor(m, Indexes(p)))
      PROVE  Spans(eqs \cup {p}, m)
  <2>1. Spans(eqs \cup {p}, Xor(m, Indexes(p)))
    BY <1>2, <1>3
  <2>2. Spans(eqs \cup {p}, Indexes(p))
    BY <1>1, SpanGroup
  <2>3. Spans(eqs \cup {p}, Xor(Xor(m, Indexes(p)), Indexes(p)))
    BY <1>1, <2>1, <2>2, SpanGroup
  <2>4. QED
    BY <2>3, XorGroup
<1>4. ASSUME Spans(eqs \cup {p}, m)
      PROVE  Spans(eqs, m) \/ Spans(eqs, Xor(m, Indexes(p)))
  <2>1. PICK sub \in SUBSET (eqs \cup {p}) : XorOfIndexes(sub) = m
    BY <1>4 DEF Spans
  <2>2. CASE p \notin sub
    BY <2>1, <2>2 DEF Spans
  <2>3. CASE p \in sub
    <3> DEFINE rest == sub \ {p}
    <3>1. rest \in SUBSET eqs /\ IsFiniteSet(rest) /\ IsFiniteSet({p})
      <4>1. rest \in SUBSET eqs /\ IsFiniteSet({p})
        BY FS_Singleton
      <4>2. QED
        BY <4>1, FS_Subset
    <3>2. sub = Xor(rest, {p})
      BY <2>3 DEF Xor, SymDiff
    <3>3. m = Xor(XorOfIndexes(rest), Indexes(p))
      BY <2>1, <3>1, <3>2, XorOfIndexesXor, XorOfIndexesSmall
    <3>4. XorOfIndexes(rest) = Xor(m, Indexes(p))
      BY <3>3, XorGroup
    <3>5. QED
      BY <3>1, <3>4 DEF Spans
  <2>4. QED
    BY <2>2, <2>3
<1>5. QED
  BY <1>2, <1>3, <1>4

\* What spanned index sets span is spanned.
LEMMA SpanOfSpanned ==
  ASSUME NEW eqs, IsFiniteSet(eqs), NEW more, IsFiniteSet(more),
         \A q \in more : Spans(eqs, Indexes(q)),
         NEW m, Spans(more, m)
  PROVE  Spans(eqs, m)
<1> DEFINE bad == {sub \in SUBSET more : ~Spans(eqs, XorOfIndexes(sub))}
           sizes == {Cardinality(sub) : sub \in bad}
<1>1. ASSUME NEW sub \in SUBSET more
      PROVE  IsFiniteSet(sub) /\ Cardinality(sub) \in Nat
  BY FS_Subset, FS_CardinalityType
<1>2. ASSUME bad # {} PROVE FALSE
  <2>1. sizes \in SUBSET Nat /\ sizes # {}
    BY <1>1, <1>2
  <2>2. PICK sub \in bad : \A t \in bad : Cardinality(sub) <= Cardinality(t)
    <3>1. Min(sizes) \in sizes /\ \A x \in sizes : Min(sizes) <= x
      BY <2>1, MinIsLeast
    <3>2. QED
      BY <3>1
  <2>3. sub # {}
    BY XorOfIndexesSmall, SpanGroup
  <2>4. PICK q \in sub : TRUE
    BY <2>3
  <2> DEFINE rest == sub \ {q}
  <2>5. rest \in SUBSET more /\ Cardinality(rest) < Cardinality(sub)
    <3>1. Cardinality(rest) = Cardinality(sub) - 1
      BY <1>1, FS_RemoveElement
    <3>2. QED
      BY <1>1, <3>1
  <2>6. Spans(eqs, XorOfIndexes(rest))
    BY <1>1, <2>2, <2>5
  <2>7. sub = Xor(rest, {q})
    BY DEF Xor, SymDiff
  <2>8. XorOfIndexes(sub) = Xor(XorOfIndexes(rest), Indexes(q))
    BY <1>1, <2>5, <2>7, XorOfIndexesXor, XorOfIndexesSmall, FS_Singleton
  <2>9. Spans(eqs, XorOfIndexes(sub))
    BY <2>6, <2>8, SpanGroup
  <2>10. QED
    BY <2>9
<1>3. QED
  BY <1>2 DEF Spans

-----------------------------------------------------------------------------
(* Independent equations *)

\* Columns that number the equations: what they span is told apart by them,
\* and contains each of them alone.
Basis(s, eqs, D) ==
  /\ D \subseteq Columns(s) /\ Cardinality(D) = Cardinality(eqs)
  /\ \A m : Spans(eqs, m) /\ m \cap D = {} => m = {}
  /\ \A c \in D :
       \E r \in SUBSET Columns(s) : Spans(eqs, r) /\ r \cap D = {c}

\* No equation is the XOR of others.
Independent(s, eqs) == \E D : Basis(s, eqs, D)

\* No equations are independent.
LEMMA NoneIndependent ==
  ASSUME NEW s PROVE Independent(s, {})
<1>1. ASSUME NEW m, Spans({}, m) PROVE m = {}
  BY <1>1, XorOfIndexesSmall DEF Spans
<1>2. Basis(s, {}, {})
  BY <1>1 DEF Basis
<1>3. QED
  BY <1>2 DEF Independent

\* A part can be reduced, by what is spanned, to a mask without the basis.
LEMMA PartReduces ==
  ASSUME NEW s \in Streams, NEW eqs, IsFiniteSet(eqs), NEW D, Basis(s, eqs, D),
         NEW p \in Parts, StreamOf(p) = s
  PROVE  \E r \in SUBSET Columns(s) :
           Spans(eqs, r) /\ Xor(Indexes(p), r) \cap D = {}
<1> DEFINE n == Indexes(p)
           spanned == {r \in SUBSET Columns(s) : Spans(eqs, r)}
           left(r) == Xor(n, r) \cap D
           sizes == {Cardinality(left(r)) : r \in spanned}
<1>1. n \subseteq Columns(s) /\ IsFiniteSet(Columns(s)) /\ D \subseteq Columns(s)
  BY PartFacts, ColumnsFacts DEF Basis
<1>2. ASSUME NEW r \in spanned
      PROVE  IsFiniteSet(left(r)) /\ Cardinality(left(r)) \in Nat
  BY <1>1, FS_Subset, FS_CardinalityType
<1>3. {} \in spanned
  BY SpanGroup
<1>4. sizes \in SUBSET Nat /\ sizes # {}
  BY <1>2, <1>3
<1>5. PICK r \in spanned : \A t \in spanned : Cardinality(left(r)) <= Cardinality(left(t))
  <2>1. Min(sizes) \in sizes /\ \A x \in sizes : Min(sizes) <= x
    BY <1>4, MinIsLeast
  <2>2. QED
    BY <2>1
<1>6. ASSUME NEW c \in left(r) PROVE FALSE
  <2>1. PICK x \in SUBSET Columns(s) : Spans(eqs, x) /\ x \cap D = {c}
    BY DEF Basis
  <2>2. Xor(r, x) \in spanned
    BY <2>1, SpanGroup, XorWithin
  <2>3. left(Xor(r, x)) = left(r) \ {c}
    BY <2>1 DEF Xor, SymDiff
  <2>4. Cardinality(left(r) \ {c}) = Cardinality(left(r)) - 1
    BY <1>2, FS_RemoveElement
  <2>5. Cardinality(left(r)) <= Cardinality(left(r)) - 1
    BY <1>5, <2>2, <2>3, <2>4
  <2>6. QED
    BY <1>2, <2>5
<1>7. QED
  BY <1>6

\* A part that is not spanned makes the equations one more.
LEMMA IndependentGrows ==
  ASSUME NEW s \in Streams, NEW eqs, IsFiniteSet(eqs), Independent(s, eqs),
         NEW p \in Parts, StreamOf(p) = s, ~Spans(eqs, Indexes(p))
  PROVE  Independent(s, eqs \cup {p})
<1> DEFINE n == Indexes(p)
           all == eqs \cup {p}
<1>1. PICK D : Basis(s, eqs, D)
  BY DEF Independent
<1>2. PICK r \in SUBSET Columns(s) : Spans(eqs, r) /\ Xor(n, r) \cap D = {}
  BY <1>1, PartReduces
<1> DEFINE m == Xor(n, r)
<1>3. m # {}
  BY <1>2, XorGroup
<1>4. m \subseteq Columns(s)
  BY PartFacts, XorWithin
<1>5. Spans(all, m) /\ \A x : Spans(eqs, x) => Spans(all, x)
  <2>1. \A x : Spans(eqs, x) => Spans(all, x)
    BY DEF Spans
  <2>2. Spans(all, n) /\ Spans(all, r)
    BY <1>2, <2>1, SpanGroup, FS_AddElement
  <2>3. QED
    BY <2>1, <2>2, SpanGroup, FS_AddElement
<1>6. PICK e \in m : TRUE
  BY <1>3
<1>7. e \notin D
  BY <1>2, <1>6
<1>8. Cardinality(D \cup {e}) = Cardinality(all)
  <2>1. p \notin eqs
    BY SpanGroup
  <2>2. IsFiniteSet(D)
    BY <1>1, ColumnsFacts, FS_Subset DEF Basis
  <2>3. Cardinality(D \cup {e}) = Cardinality(D) + 1
    BY <1>7, <2>2, FS_AddElement
  <2>4. Cardinality(all) = Cardinality(eqs) + 1
    BY <2>1, FS_AddElement
  <2>5. QED
    BY <1>1, <2>3, <2>4 DEF Basis
<1>9. ASSUME NEW x, Spans(all, x), x \cap (D \cup {e}) = {}
      PROVE  x = {}
  <2>1. CASE Spans(eqs, x)
    BY <1>1, <1>9, <2>1 DEF Basis
  <2>2. CASE Spans(eqs, Xor(x, n))
    <3>1. Spans(eqs, Xor(Xor(x, n), r))
      BY <1>2, <2>2, SpanGroup
    <3>2. Xor(Xor(x, n), r) = Xor(x, m)
      BY XorGroup
    <3>3. Xor(x, m) \cap D = {}
      BY <1>2, <1>9, XorMember
    <3>4. Xor(x, m) = {}
      BY <1>1, <3>1, <3>2, <3>3 DEF Basis
    <3>5. x = m
      BY <3>4, XorGroup
    <3>6. QED
      BY <1>6, <1>9, <3>5
  <2>3. QED
    BY <1>9, <2>1, <2>2, SpanAdd
<1>10. ASSUME NEW c \in D \cup {e}
       PROVE  \E x \in SUBSET Columns(s) :
                Spans(all, x) /\ x \cap (D \cup {e}) = {c}
  <2> HIDE DEF m, all
  <2>1. CASE c = e
    <3>1. m \cap (D \cup {e}) = {c}
      BY <1>2, <1>6, <2>1 DEF m
    <3>2. QED
      BY <1>4, <1>5, <3>1
  <2>2. CASE c \in D
    <3>1. PICK x \in SUBSET Columns(s) : Spans(eqs, x) /\ x \cap D = {c}
      BY <1>1, <2>2 DEF Basis
    <3>2. CASE e \notin x
      <4>1. x \cap (D \cup {e}) = {c}
        BY <3>1, <3>2
      <4>2. QED
        BY <1>5, <3>1, <4>1
    <3>3. CASE e \in x
      <4>1. Xor(x, m) \cap (D \cup {e}) = {c}
        BY <1>2, <1>6, <1>7, <3>1, <3>3 DEF Xor, SymDiff, m
      <4>2. Xor(x, m) \subseteq Columns(s)
        BY <1>4, XorWithin
      <4>3. Spans(all, Xor(x, m))
        BY <1>5, <3>1, SpanGroup, FS_AddElement DEF all
      <4>4. QED
        BY <4>1, <4>2, <4>3
    <3>4. QED
      BY <3>2, <3>3
  <2>3. QED
    BY <2>1, <2>2
<1>11. D \cup {e} \subseteq Columns(s)
  BY <1>1, <1>4 DEF Basis
<1>12. Basis(s, all, D \cup {e})
  <2> HIDE DEF all, m
  <2>1. QED
    BY <1>8, <1>9, <1>10, <1>11 DEF Basis
<1>13. QED
  BY <1>12 DEF Independent

\* Independent equations are no more than the fragments, determine no more
\* fragments than they are, and all of them once they are as many.
LEMMA IndependentCounts ==
  ASSUME NEW s \in Streams \cup {NoStream}, NEW eqs, IsFiniteSet(eqs),
         Independent(s, eqs)
  PROVE  LET known == {c \in Columns(s) : Spans(eqs, {c})}
         IN  /\ Cardinality(known) <= Cardinality(eqs)
             /\ Cardinality(known) \in Nat
             /\ Cardinality(eqs) <= s.sequence_count
             /\ Cardinality(eqs) = s.sequence_count <=> known = Columns(s)
<1> DEFINE known == {c \in Columns(s) : Spans(eqs, {c})}
           k == s.sequence_count
<1>1. PICK D : Basis(s, eqs, D)
  BY DEF Independent
<1>2. /\ IsFiniteSet(Columns(s)) /\ Cardinality(Columns(s)) = k /\ k \in Nat
      /\ D \subseteq Columns(s) /\ Cardinality(D) = Cardinality(eqs)
  BY <1>1, ColumnsFacts, StreamFacts DEF Basis
<1>3. IsFiniteSet(D) /\ Cardinality(D) \in Nat
  BY <1>2, FS_Subset, FS_CardinalityType
<1>4. known \subseteq D
  <2>1. ASSUME NEW c \in known PROVE {c} \cap D # {}
    BY <1>1 DEF Basis
  <2>2. QED
    BY <2>1
<1>5. IsFiniteSet(known) /\ Cardinality(known) <= Cardinality(D)
  BY <1>3, <1>4, FS_Subset
<1>6. Cardinality(known) \in Nat
  BY <1>5, FS_CardinalityType
<1>7. Cardinality(D) <= k
  BY <1>2, FS_Subset
<1>8. ASSUME Cardinality(D) = k PROVE known = Columns(s)
  <2>1. D = Columns(s)
    BY <1>2, <1>8, FS_Subset
  <2>2. ASSUME NEW c \in Columns(s) PROVE Spans(eqs, {c})
    <3>1. PICK r \in SUBSET Columns(s) : Spans(eqs, r) /\ r \cap D = {c}
      BY <1>1, <2>1 DEF Basis
    <3>2. r = {c}
      BY <2>1, <3>1
    <3>3. QED
      BY <3>1, <3>2
  <2>3. QED
    BY <2>2
<1>9. ASSUME known = Columns(s) PROVE Cardinality(D) = k
  BY <1>2, <1>4, <1>9
<1>10. QED
  BY <1>2, <1>5, <1>6, <1>7, <1>8, <1>9

-----------------------------------------------------------------------------
(* Solutions of the equations *)

\* Two solutions combine alike over everything that is spanned.
LEMMA SolutionsAgree ==
  ASSUME NEW s \in Streams, NEW eqs \in SUBSET Parts, IsFiniteSet(eqs),
         \A q \in eqs : StreamOf(q) = s,
         NEW f \in Solutions(s, eqs), NEW h \in Solutions(s, eqs),
         NEW m, Spans(eqs, m)
  PROVE  Combine(f, m) = Combine(h, m)
<1> DEFINE bad == {sub \in SUBSET eqs :
                     Combine(f, XorOfIndexes(sub)) # Combine(h, XorOfIndexes(sub))}
           sizes == {Cardinality(sub) : sub \in bad}
<1>1. ASSUME NEW sub \in SUBSET eqs
      PROVE  IsFiniteSet(sub) /\ Cardinality(sub) \in Nat
  BY FS_Subset, FS_CardinalityType
<1>2. ASSUME NEW sub \in SUBSET eqs
      PROVE  IsFiniteSet(XorOfIndexes(sub))
  <2>1. XorOfIndexes(sub) \subseteq Columns(s)
    BY PartFacts DEF XorOfIndexes
  <2>2. QED
    BY <2>1, ColumnsFacts, FS_Subset
<1>3. ASSUME NEW q \in eqs
      PROVE  /\ IsFiniteSet(Indexes(q))
             /\ Combine(f, Indexes(q)) = Combine(h, Indexes(q))
  <2>1. Indexes(q) \subseteq Columns(s)
    BY PartFacts
  <2>2. Combine(f, Indexes(q)) = q.data /\ Combine(h, Indexes(q)) = q.data
    BY DEF Solutions
  <2>3. QED
    BY <2>1, <2>2, ColumnsFacts, FS_Subset
<1>4. ASSUME bad # {} PROVE FALSE
  <2>1. sizes \in SUBSET Nat /\ sizes # {}
    BY <1>1, <1>4
  <2>2. PICK sub \in bad : \A t \in bad : Cardinality(sub) <= Cardinality(t)
    <3>1. Min(sizes) \in sizes /\ \A x \in sizes : Min(sizes) <= x
      BY <2>1, MinIsLeast
    <3>2. QED
      BY <3>1
  <2>3. sub # {}
    BY XorOfIndexesSmall DEF Combine
  <2>4. PICK q \in sub : TRUE
    BY <2>3
  <2> DEFINE rest == sub \ {q}
  <2>5. rest \in SUBSET eqs /\ Cardinality(rest) < Cardinality(sub)
    <3>1. Cardinality(rest) = Cardinality(sub) - 1
      BY <1>1, FS_RemoveElement
    <3>2. QED
      BY <1>1, <3>1
  <2>6. Combine(f, XorOfIndexes(rest)) = Combine(h, XorOfIndexes(rest))
    BY <1>1, <2>2, <2>5
  <2>7. sub = Xor(rest, {q})
    BY DEF Xor, SymDiff
  <2>8. XorOfIndexes(sub) = Xor(XorOfIndexes(rest), Indexes(q))
    BY <1>1, <2>5, <2>7, XorOfIndexesXor, XorOfIndexesSmall, FS_Singleton
  <2>9. /\ Combine(f, XorOfIndexes(sub))
             = Xor(Combine(f, XorOfIndexes(rest)), Combine(f, Indexes(q)))
        /\ Combine(h, XorOfIndexes(sub))
             = Xor(Combine(h, XorOfIndexes(rest)), Combine(h, Indexes(q)))
    BY <1>2, <1>3, <2>5, <2>8, CombineXor
  <2>10. Combine(f, XorOfIndexes(sub)) = Combine(h, XorOfIndexes(sub))
    BY <1>3, <2>6, <2>9
  <2>11. QED
    BY <2>10
<1>5. QED
  BY <1>4 DEF Spans

\* K independent equations over the parts of one source have that source for
\* their only solution, and it passes the checks.
LEMMA SolvesToSource ==
  ASSUME NEW s \in Streams, NEW eqs \in SUBSET Parts, IsFiniteSet(eqs),
         \A q \in eqs : StreamOf(q) = s,
         Independent(s, eqs), Cardinality(eqs) = s.sequence_count,
         NEW src \in Sources, \A q \in eqs : Honest(q, src)
  PROVE  /\ s.message_length = src.length
         /\ Solve(s, eqs) = src.bytes
         /\ Verify(s, Solve(s, eqs)) = "none"
<1> DEFINE sent == Fragments(src, s)
<1>1. PICK q \in eqs : TRUE
  BY StreamCovers, FS_EmptySet
<1>2. /\ s.message_length = src.length
      /\ s.checksum = Crc32(src.length, src.bytes)
  BY <1>1 DEF Honest, StreamOf
<1>3. sent \in Solutions(s, eqs)
  <2>1. \A p \in eqs : p.data = Combine(sent, Indexes(p))
    BY DEF Honest
  <2>2. sent \in [Columns(s) -> SUBSET (0 .. s.fragment_len - 1)]
    BY DEF Fragments
  <2> HIDE DEF sent
  <2>3. QED
    BY <2>1, <2>2 DEF Solutions
<1>4. ASSUME NEW f \in Solutions(s, eqs) PROVE f = sent
  <2>1. ASSUME NEW c \in Columns(s) PROVE f[c] = sent[c]
    <3>1. Spans(eqs, {c})
      BY IndependentCounts
    <3>2. Combine(f, {c}) = Combine(sent, {c})
      BY <1>3, <3>1, SolutionsAgree
    <3>3. QED
      BY <3>2, CombineOne
  <2>2. /\ f = [c \in Columns(s) |-> f[c]]
        /\ sent = [c \in Columns(s) |-> sent[c]]
    BY <1>3 DEF Solutions
  <2>3. QED
    BY <2>1, <2>2
<1>5. Solve(s, eqs) = src.bytes
  <2>1. (CHOOSE f \in Solutions(s, eqs) : TRUE) = sent
    BY <1>3, <1>4
  <2>2. QED
    BY <1>2, <2>1, FragmentsJoin, StreamCovers, SourcesAssumption DEF Solve
<1>6. Verify(s, src.bytes) = "none"
  <2>1. ~ \E b \in src.bytes : b >= s.message_length
    BY <1>2, SourcesAssumption
  <2>2. QED
    BY <1>2, <2>1 DEF Verify
<1>7. QED
  BY <1>2, <1>5, <1>6
=============================================================================
