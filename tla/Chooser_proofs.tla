--------------------------- MODULE Chooser_proofs ---------------------------
(***************************************************************************)
(* The theorems of Chooser: for every K, every unit of the weights and     *)
(* every rounding.                                                         *)
(*                                                                         *)
(* While the table is built, what the weights on the lists have over the   *)
(* mean adds up to the errors made so far, and what an index holds and was *)
(* given is its weight but for those errors.  When one list is empty, all  *)
(* of the other lies on one side of the mean, so each index of it is near. *)
(* In the shuffle, pool and picked fragments are the K, each once.         *)
(***************************************************************************)
EXTENDS Chooser, NaturalsInduction, WellFoundedInduction, FiniteSetTheorems,
        SequenceTheorems, TLAPS

-----------------------------------------------------------------------------
(* Numbers *)

\* A non-empty set of naturals has a least element.
LEMMA LeastExists ==
  ASSUME NEW S \in SUBSET Nat, S # {}
  PROVE  \E x \in S : \A y \in S : x <= y
<1> DEFINE Less == OpToRel(<, Nat)
<1>1. \A x, y \in Nat : x < y => <<x, y>> \in Less
  BY Zenon DEF OpToRel
<1>2. IsWellFoundedOn(Less, Nat)
  BY NatLessThanWellFounded
<1> HIDE DEF Less
<1>3. PICK n \in S : \A y \in S : ~(<<y, n>> \in Less)
  BY <1>2, WFMin
<1>4. \A y \in S : ~(y < n)
  BY <1>1, <1>3
<1>5. QED
  BY <1>4

\* A set that holds 0, and with a number below k the next one, holds 0 .. k.
LEMMA Upto ==
  ASSUME NEW k \in Nat, NEW S, 0 \in S, \A n \in 0 .. k - 1 : n \in S => n + 1 \in S
  PROVE  \A n \in 0 .. k : n \in S
<1> DEFINE out == {n \in 0 .. k : n \notin S}
<1>1. SUFFICES ASSUME out # {} PROVE FALSE
  OBVIOUS
<1>2. PICK m \in out : \A y \in out : m <= y
  <2>1. out \in SUBSET Nat
    OBVIOUS
  <2>2. QED
    BY <1>1, <2>1, LeastExists
<1>3. m \in 1 .. k
  BY <1>2
<1>4. m - 1 \notin out /\ m - 1 \in 0 .. k - 1
  BY <1>2, <1>3
<1>5. m - 1 \in S
  BY <1>4
<1>6. (m - 1) + 1 \in S
  BY <1>4, <1>5
<1>7. (m - 1) + 1 = m
  BY <1>3
<1>8. QED
  BY <1>2, <1>6, <1>7

-----------------------------------------------------------------------------
(* Sums *)

\* s holds the sums of the first values of f.
Running(k, f, s) ==
  /\ s \in [0 .. k -> Int]
  /\ s[0] = 0
  /\ \A j \in 0 .. k - 1 : s[j + 1] = s[j] + f[j]

\* The functions that give each of the first k indexes an integer.
Columns(k) == [0 .. k - 1 -> Int]

\* A column holds integers, and a function that does is a column.
LEMMA ColumnValues ==
  ASSUME NEW k, NEW f \in Columns(k)
  PROVE  \A j \in 0 .. k - 1 : f[j] \in Int
BY DEF Columns

\* The prefix sums exist, and Sum is the last one.
LEMMA SumRuns ==
  ASSUME NEW k \in Nat, NEW f \in Columns(k)
  PROVE  \E s : Running(k, f, s) /\ Sum(k, f) = s[k]
<1> USE DEF Columns
<1> DEFINE Rec(s) == [n \in 0 .. k |-> IF n = 0 THEN 0 ELSE s[n - 1] + f[n - 1]]
           reach == {m \in 0 .. k : \E s \in [0 .. m -> Int] :
                       s[0] = 0 /\ \A j \in 0 .. m - 1 : s[j + 1] = s[j] + f[j]}
<1>1. 0 \in reach
  <2>1. [n \in 0 .. 0 |-> 0] \in [0 .. 0 -> Int]
    OBVIOUS
  <2>2. [n \in 0 .. 0 |-> 0][0] = 0
    OBVIOUS
  <2>3. 0 \in 0 .. k /\ \A j \in 0 .. 0 - 1 : FALSE
    OBVIOUS
  <2> DEFINE z == [n \in 0 .. 0 |-> 0]
  <2>4. z[0] = 0 /\ \A j \in 0 .. 0 - 1 : z[j + 1] = z[j] + f[j]
    BY <2>2, <2>3
  <2> HIDE DEF z
  <2>5. \E s \in [0 .. 0 -> Int] : s[0] = 0 /\ \A j \in 0 .. 0 - 1 : s[j + 1] = s[j] + f[j]
    BY <2>1, <2>4 DEF z
  <2>6. QED
    BY <2>3, <2>5
<1>2. ASSUME NEW m \in 0 .. k - 1, m \in reach PROVE m + 1 \in reach
  <2>1. PICK s \in [0 .. m -> Int] :
          s[0] = 0 /\ \A j \in 0 .. m - 1 : s[j + 1] = s[j] + f[j]
    BY <1>2
  <2> DEFINE t == [n \in 0 .. m + 1 |-> IF n = m + 1 THEN s[m] + f[m] ELSE s[n]]
  <2>2. t \in [0 .. m + 1 -> Int]
    <3>1. s[m] \in Int /\ f[m] \in Int
      OBVIOUS
    <3>2. \A n \in 0 .. m + 1 : n # m + 1 => s[n] \in Int
      OBVIOUS
    <3>3. QED
      BY <3>1, <3>2
  <2>3. t[0] = 0
    BY <2>1
  <2>4. \A j \in 0 .. m : t[j + 1] = t[j] + f[j]
    <3>1. ASSUME NEW j \in 0 .. m, j # m PROVE t[j + 1] = t[j] + f[j]
      <4>1. j \in 0 .. m - 1
        BY <3>1
      <4>2. t[j + 1] = s[j + 1] /\ t[j] = s[j]
        BY <4>1
      <4>3. QED
        BY <2>1, <4>1, <4>2
    <3>2. t[m + 1] = t[m] + f[m]
      OBVIOUS
    <3>3. QED
      BY <3>1, <3>2
  <2>5. (m + 1) - 1 = m /\ m + 1 \in 0 .. k
    OBVIOUS
  <2> HIDE DEF t
  <2>6. QED
    BY <2>2, <2>3, <2>4, <2>5
<1>3. k \in reach
  <2> HIDE DEF reach
  <2>1. \A n \in 0 .. k : n \in reach
    BY <1>1, <1>2, Upto
  <2>2. QED
    BY <2>1
<1>4. PICK s \in [0 .. k -> Int] : s[0] = 0 /\ \A j \in 0 .. k - 1 : s[j + 1] = s[j] + f[j]
  BY <1>3
<1>5. s = Rec(s)
  <2>1. \A n \in 0 .. k : s[n] = Rec(s)[n]
    <3>1. ASSUME NEW n \in 0 .. k, n # 0 PROVE s[n] = s[n - 1] + f[n - 1]
      <4>1. n - 1 \in 0 .. k - 1 /\ (n - 1) + 1 = n
        BY <3>1
      <4>2. QED
        BY <1>4, <4>1
    <3>2. QED
      BY <1>4, <3>1
  <2>2. QED
    BY <2>1
<1> DEFINE u == CHOOSE u : u = Rec(u)
<1>6. u = Rec(u)
  BY <1>5
<1>7. Sum(k, f) = u[k]
  BY DEF Sum
<1> HIDE DEF u
<1>8. u[0] = 0
  BY <1>6
<1>9. \A j \in 0 .. k - 1 : u[j + 1] = u[j] + f[j]
  <2>1. ASSUME NEW j \in 0 .. k - 1 PROVE u[j + 1] = u[j] + f[j]
    <3>1. j + 1 \in 0 .. k /\ j + 1 # 0 /\ (j + 1) - 1 = j
      OBVIOUS
    <3>2. Rec(u)[j + 1] = u[(j + 1) - 1] + f[(j + 1) - 1]
      BY <3>1
    <3>3. QED
      BY <1>6, <3>1, <3>2
  <2>2. QED
    BY <2>1
<1>10. u \in [0 .. k -> Int]
  <2> DEFINE ok == {n \in 0 .. k : u[n] \in Int}
  <2>1. 0 \in ok
    BY <1>8
  <2>2. ASSUME NEW n \in 0 .. k - 1, n \in ok PROVE n + 1 \in ok
    <3>1. u[n + 1] = u[n] + f[n] /\ u[n] \in Int /\ n + 1 \in 0 .. k
      BY <1>9, <2>2
    <3>2. f[n] \in Int
      OBVIOUS
    <3>3. QED
      BY <3>1, <3>2
  <2>3. \A n \in 0 .. k : n \in ok
    <3> HIDE DEF ok
    <3>1. QED
      BY <2>1, <2>2, Upto
  <2>4. DOMAIN u = 0 .. k /\ u = [n \in DOMAIN u |-> u[n]]
    BY <1>6
  <2>5. QED
    BY <2>3, <2>4
<1>11. QED
  BY <1>7, <1>8, <1>9, <1>10 DEF Running

\* A sum of integers is an integer.
LEMMA SumIsInt ==
  ASSUME NEW k \in Nat, NEW f \in Columns(k)
  PROVE  Sum(k, f) \in Int
BY SumRuns DEF Running, Columns

\* h is f and g added up, index by index.
Added(k, f, g, h) == \A j \in 0 .. k - 1 : h[j] = f[j] + g[j]

\* The sum of the sums.
LEMMA SumAdds ==
  ASSUME NEW k \in Nat, NEW f \in Columns(k), NEW g \in Columns(k),
         NEW h \in Columns(k), Added(k, f, g, h)
  PROVE  Sum(k, h) = Sum(k, f) + Sum(k, g)
<1> USE DEF Columns
<1>1. PICK sf : Running(k, f, sf) /\ Sum(k, f) = sf[k]
  BY SumRuns
<1>2. PICK sg : Running(k, g, sg) /\ Sum(k, g) = sg[k]
  BY SumRuns
<1>3. PICK sh : Running(k, h, sh) /\ Sum(k, h) = sh[k]
  BY SumRuns
<1> DEFINE ok == {n \in 0 .. k : sh[n] = sf[n] + sg[n]}
<1>4. 0 \in ok
  BY <1>1, <1>2, <1>3 DEF Running
<1>5. ASSUME NEW n \in 0 .. k - 1, n \in ok PROVE n + 1 \in ok
  <2>1. /\ sf[n + 1] = sf[n] + f[n] /\ sg[n + 1] = sg[n] + g[n]
        /\ sh[n + 1] = sh[n] + h[n] /\ h[n] = f[n] + g[n]
    BY <1>1, <1>2, <1>3 DEF Running, Added
  <2>2. sf[n] \in Int /\ sg[n] \in Int /\ f[n] \in Int /\ g[n] \in Int
    BY <1>1, <1>2 DEF Running
  <2>3. n + 1 \in 0 .. k
    OBVIOUS
  <2>4. sh[n] = sf[n] + sg[n]
    BY <1>5
  <2>5. sh[n + 1] = sf[n + 1] + sg[n + 1]
    <3> HIDE DEF Columns, ok
    <3>1. QED
      BY <2>1, <2>2, <2>4
  <2>6. QED
    <3> HIDE DEF Columns
    <3>1. QED
      BY <2>3, <2>5
<1>6. \A n \in 0 .. k : n \in ok
  <2> HIDE DEF ok
  <2>1. QED
    BY <1>4, <1>5, Upto
<1>7. QED
  BY <1>1, <1>2, <1>3, <1>6

\* A factor comes out of a sum.
LEMMA SumScales ==
  ASSUME NEW k \in Nat, NEW f \in Columns(k), NEW c \in Int,
         NEW h \in Columns(k), \A j \in 0 .. k - 1 : h[j] = f[j] * c
  PROVE  Sum(k, h) = Sum(k, f) * c
<1> USE DEF Columns
<1>1. PICK sf : Running(k, f, sf) /\ Sum(k, f) = sf[k]
  BY SumRuns
<1>3. PICK sh : Running(k, h, sh) /\ Sum(k, h) = sh[k]
  BY SumRuns
<1> DEFINE ok == {n \in 0 .. k : sh[n] = sf[n] * c}
<1>4. 0 \in ok
  BY <1>1, <1>3 DEF Running
<1>5. ASSUME NEW n \in 0 .. k - 1, n \in ok PROVE n + 1 \in ok
  <2>1. sf[n + 1] = sf[n] + f[n] /\ sh[n + 1] = sh[n] + h[n] /\ h[n] = f[n] * c
    BY <1>1, <1>3 DEF Running
  <2>2. sf[n] \in Int /\ f[n] \in Int
    BY <1>1 DEF Running
  <2>3. n + 1 \in 0 .. k
    OBVIOUS
  <2>4. \A x, y \in Int : x * c + y * c = (x + y) * c
    OBVIOUS
  <2>5. sf[n] * c + f[n] * c = (sf[n] + f[n]) * c
    BY <2>2, <2>4
  <2>6. QED
    BY <1>5, <2>1, <2>3, <2>5
<1>6. \A n \in 0 .. k : n \in ok
  <2> HIDE DEF ok
  <2>1. QED
    BY <1>4, <1>5, Upto
<1>7. QED
  BY <1>1, <1>3, <1>6

\* The sum of k equal values.
LEMMA SumOfEqual ==
  ASSUME NEW k \in Nat, NEW c \in Int, NEW f \in Columns(k),
         \A j \in 0 .. k - 1 : f[j] = c
  PROVE  Sum(k, f) = k * c
<1> USE DEF Columns
<1>1. PICK sf : Running(k, f, sf) /\ Sum(k, f) = sf[k]
  BY SumRuns
<1> DEFINE ok == {n \in 0 .. k : sf[n] = n * c}
<1>2. 0 \in ok
  BY <1>1 DEF Running
<1>3. ASSUME NEW n \in 0 .. k - 1, n \in ok PROVE n + 1 \in ok
  <2>1. sf[n + 1] = sf[n] + c
    BY <1>1 DEF Running
  <2>2. n * c + c = (n + 1) * c
    OBVIOUS
  <2>3. QED
    BY <1>3, <2>1, <2>2
<1>4. \A n \in 0 .. k : n \in ok
  <2> HIDE DEF ok
  <2>1. QED
    BY <1>2, <1>3, Upto
<1>5. QED
  BY <1>1, <1>4

\* A smaller value, a smaller sum.
LEMMA SumGrows ==
  ASSUME NEW k \in Nat, NEW f \in Columns(k), NEW g \in Columns(k),
         \A j \in 0 .. k - 1 : f[j] <= g[j]
  PROVE  Sum(k, f) <= Sum(k, g)
<1> USE DEF Columns
<1>1. PICK sf : Running(k, f, sf) /\ Sum(k, f) = sf[k]
  BY SumRuns
<1>2. PICK sg : Running(k, g, sg) /\ Sum(k, g) = sg[k]
  BY SumRuns
<1> DEFINE ok == {n \in 0 .. k : sf[n] <= sg[n]}
<1>3. 0 \in ok
  BY <1>1, <1>2 DEF Running
<1>4. ASSUME NEW n \in 0 .. k - 1, n \in ok PROVE n + 1 \in ok
  <2>1. sf[n + 1] = sf[n] + f[n] /\ sg[n + 1] = sg[n] + g[n] /\ f[n] <= g[n]
    BY <1>1, <1>2 DEF Running
  <2>2. sf[n] \in Int /\ sg[n] \in Int /\ f[n] \in Int /\ g[n] \in Int
    BY <1>1, <1>2 DEF Running
  <2>3. n + 1 \in 0 .. k
    OBVIOUS
  <2>4. QED
    BY <1>4, <2>1, <2>2, <2>3
<1>5. \A n \in 0 .. k : n \in ok
  <2> HIDE DEF ok
  <2>1. QED
    BY <1>3, <1>4, Upto
<1>6. QED
  BY <1>1, <1>2, <1>5

\* The sum of one value among zeros.
LEMMA SumOfOne ==
  ASSUME NEW k \in Nat, NEW f \in Columns(k), NEW i \in 0 .. k - 1,
         \A j \in 0 .. k - 1 : j # i => f[j] = 0
  PROVE  Sum(k, f) = f[i]
<1> USE DEF Columns
<1>1. PICK sf : Running(k, f, sf) /\ Sum(k, f) = sf[k]
  BY SumRuns
<1> DEFINE ok == {n \in 0 .. k : sf[n] = IF n <= i THEN 0 ELSE f[i]}
<1>2. 0 \in ok
  BY <1>1 DEF Running
<1>3. ASSUME NEW n \in 0 .. k - 1, n \in ok PROVE n + 1 \in ok
  <2>1. sf[n + 1] = sf[n] + f[n] /\ f[i] \in Int
    BY <1>1 DEF Running
  <2>2. n + 1 \in 0 .. k
    OBVIOUS
  <2>3. CASE n < i
    BY <1>3, <2>1, <2>2, <2>3
  <2>4. CASE n = i
    BY <1>3, <2>1, <2>2, <2>4
  <2>5. CASE n > i
    BY <1>3, <2>1, <2>2, <2>5
  <2>6. QED
    BY <2>3, <2>4, <2>5
<1>4. \A n \in 0 .. k : n \in ok
  <2> HIDE DEF ok
  <2>1. QED
    BY <1>2, <1>3, Upto
<1>5. QED
  BY <1>1, <1>4

\* Where no value is negative, none is over the sum.
LEMMA SumCovers ==
  ASSUME NEW k \in Nat, NEW f \in Columns(k), NEW i \in 0 .. k - 1,
         \A j \in 0 .. k - 1 : f[j] >= 0
  PROVE  f[i] <= Sum(k, f)
<1> USE DEF Columns
<1> DEFINE g == [j \in 0 .. k - 1 |-> IF j = i THEN f[i] ELSE 0]
<1>1. g \in Columns(k) /\ g[i] = f[i] /\ \A j \in 0 .. k - 1 : j # i => g[j] = 0
  OBVIOUS
<1>2. \A j \in 0 .. k - 1 : g[j] <= f[j]
  OBVIOUS
<1> HIDE DEF g
<1>3. Sum(k, g) = g[i]
  BY <1>1, SumOfOne
<1>4. Sum(k, g) <= Sum(k, f)
  BY <1>1, <1>2, SumGrows
<1>5. QED
  BY <1>1, <1>3, <1>4

\* Where no value is positive, none is under the sum.
LEMMA SumIsUnder ==
  ASSUME NEW k \in Nat, NEW f \in Columns(k), NEW i \in 0 .. k - 1,
         \A j \in 0 .. k - 1 : f[j] <= 0
  PROVE  Sum(k, f) <= f[i]
<1> USE DEF Columns
<1> DEFINE g == [j \in 0 .. k - 1 |-> IF j = i THEN f[i] ELSE 0]
<1>1. g \in Columns(k) /\ g[i] = f[i] /\ \A j \in 0 .. k - 1 : j # i => g[j] = 0
  OBVIOUS
<1>2. \A j \in 0 .. k - 1 : f[j] <= g[j]
  OBVIOUS
<1> HIDE DEF g
<1>3. Sum(k, g) = g[i]
  BY <1>1, SumOfOne
<1>4. Sum(k, f) <= Sum(k, g)
  BY <1>1, <1>2, SumGrows
<1>5. QED
  BY <1>1, <1>3, <1>4

\* One value changes, and the sum changes by as much.
LEMMA SumChanges ==
  ASSUME NEW k \in Nat, NEW f \in Columns(k), NEW g \in Columns(k),
         NEW i \in 0 .. k - 1, \A j \in 0 .. k - 1 : j # i => g[j] = f[j]
  PROVE  Sum(k, g) = Sum(k, f) + (g[i] - f[i])
<1> USE DEF Columns
<1> DEFINE d == [j \in 0 .. k - 1 |-> IF j = i THEN g[i] - f[i] ELSE 0]
<1>1. d \in Columns(k) /\ d[i] = g[i] - f[i] /\ \A j \in 0 .. k - 1 : j # i => d[j] = 0
  OBVIOUS
<1>2. Added(k, f, d, g)
  BY DEF Added
<1> HIDE DEF d
<1>3. Sum(k, d) = d[i]
  BY <1>1, SumOfOne
<1>4. Sum(k, g) = Sum(k, f) + Sum(k, d)
  BY <1>1, <1>2, SumAdds
<1>5. QED
  BY <1>1, <1>3, <1>4

\* The errors made upward and downward: together they are the sum of the sizes,
\* their difference is the sum, and no error is over its side.
LEMMA SignedSums ==
  ASSUME NEW k \in Nat, NEW e \in Columns(k)
  PROVE  \E up, down \in Nat :
           /\ up + down = Sum(k, [j \in 0 .. k - 1 |-> Abs(e[j])])
           /\ Sum(k, e) = up - down
           /\ \A j \in 0 .. k - 1 : -down <= e[j] /\ e[j] <= up
<1> USE DEF Columns
<1> DEFINE pos == [j \in 0 .. k - 1 |-> IF e[j] < 0 THEN 0 ELSE e[j]]
           neg == [j \in 0 .. k - 1 |-> IF e[j] < 0 THEN -e[j] ELSE 0]
           size == [j \in 0 .. k - 1 |-> Abs(e[j])]
           zero == [j \in 0 .. k - 1 |-> 0]
<1>1. /\ pos \in Columns(k) /\ neg \in Columns(k)
      /\ size \in Columns(k) /\ zero \in Columns(k)
  BY DEF Abs
<1>2. ASSUME NEW j \in 0 .. k - 1
      PROVE  /\ e[j] \in Int /\ pos[j] \in Int /\ neg[j] \in Int
             /\ e[j] + neg[j] = pos[j] /\ size[j] = pos[j] + neg[j]
             /\ 0 <= pos[j] /\ 0 <= neg[j] /\ zero[j] = 0
  BY DEF Abs
<1> HIDE DEF pos, neg, size, zero
<1>3. Added(k, pos, neg, size) /\ Added(k, e, neg, pos)
  BY <1>2 DEF Added
<1>4. Sum(k, size) = Sum(k, pos) + Sum(k, neg) /\ Sum(k, pos) = Sum(k, e) + Sum(k, neg)
  BY <1>1, <1>3, SumAdds
<1>5. Sum(k, pos) \in Int /\ Sum(k, neg) \in Int /\ Sum(k, e) \in Int
  BY <1>1, SumIsInt
<1>6. \A j \in 0 .. k - 1 : zero[j] <= pos[j] /\ zero[j] <= neg[j]
  BY <1>2
<1>7. Sum(k, zero) <= Sum(k, pos) /\ Sum(k, zero) <= Sum(k, neg)
  BY <1>1, <1>6, SumGrows
<1>8. Sum(k, zero) = k * 0
  BY <1>1, <1>2, SumOfEqual
<1>9. Sum(k, pos) \in Nat /\ Sum(k, neg) \in Nat
  BY <1>5, <1>7, <1>8
<1>10. \A j \in 0 .. k - 1 : pos[j] >= 0 /\ neg[j] >= 0
  BY <1>2
<1>11. \A j \in 0 .. k - 1 : pos[j] <= Sum(k, pos) /\ neg[j] <= Sum(k, neg)
  BY <1>1, <1>10, SumCovers
<1>12. ASSUME NEW j \in 0 .. k - 1 PROVE -Sum(k, neg) <= e[j] /\ e[j] <= Sum(k, pos)
  <2>1. -neg[j] <= e[j] /\ e[j] <= pos[j] /\ e[j] \in Int /\ pos[j] \in Int /\ neg[j] \in Int
    BY <1>2
  <2>2. pos[j] <= Sum(k, pos) /\ neg[j] <= Sum(k, neg)
    BY <1>11
  <2> HIDE DEF pos, neg, Columns
  <2>3. QED
    BY <1>5, <2>1, <2>2
<1>13. Sum(k, e) = Sum(k, pos) - Sum(k, neg)
  BY <1>4, <1>5
<1>14. QED
  BY <1>4, <1>9, <1>12, <1>13 DEF size

-----------------------------------------------------------------------------
(* Worklists and pools *)

\* The values of a sequence, by position.
LEMMA RangeByPlace ==
  ASSUME NEW S, NEW s \in Seq(S)
  PROVE  /\ Range(s) = {s[i] : i \in 1 .. Len(s)}
         /\ Range(s) \subseteq S
         /\ IsInjective(s) <=> \A i, j \in 1 .. Len(s) : s[i] = s[j] => i = j
<1>1. DOMAIN s = 1 .. Len(s) /\ s \in [1 .. Len(s) -> S]
  BY LenProperties
<1>2. QED
  BY <1>1 DEF Range, IsInjective

\* Without its last element.
LEMMA LastTaken ==
  ASSUME NEW S, NEW s \in Seq(S), s # <<>>, IsInjective(s)
  PROVE  /\ Front(s) \in Seq(S) /\ IsInjective(Front(s))
         /\ Last(s) \in Range(s) /\ Last(s) \in S
         /\ Range(Front(s)) = Range(s) \ {Last(s)}
<1> DEFINE n == Len(s)
<1>1. n \in Nat \ {0}
  BY EmptySeq
<1>2. \A i \in 1 .. n - 1 : s[i] \in S
  BY <1>1, ElementOfSeq
<1>3. /\ SubSeq(s, 1, n - 1) \in Seq(S)
      /\ Len(SubSeq(s, 1, n - 1)) = IF 1 <= n - 1 THEN (n - 1) - 1 + 1 ELSE 0
      /\ \A i \in 1 .. (n - 1) - 1 + 1 : SubSeq(s, 1, n - 1)[i] = s[1 + i - 1]
  BY <1>1, <1>2, SubSeqProperties
<1>4. /\ Front(s) \in Seq(S) /\ Len(Front(s)) = n - 1
      /\ \A i \in 1 .. n - 1 : Front(s)[i] = s[i]
  <2>1. (n - 1) - 1 + 1 = n - 1 /\ \A i \in 1 .. n - 1 : 1 + i - 1 = i
    BY <1>1
  <2>2. QED
    BY <1>1, <1>3, <2>1 DEF Front
<1>5. Range(Front(s)) = {Front(s)[i] : i \in 1 .. n - 1}
  BY <1>4, RangeByPlace
<1>6. Range(s) = {s[i] : i \in 1 .. n} /\ Range(s) \subseteq S
  BY RangeByPlace
<1>7. \A i, j \in 1 .. n : s[i] = s[j] => i = j
  BY RangeByPlace
<1>8. Last(s) = s[n] /\ n \in 1 .. n
  BY <1>1 DEF Last
<1>9. IsInjective(Front(s))
  <2>1. \A i, j \in 1 .. Len(Front(s)) : Front(s)[i] = Front(s)[j] => i = j
    BY <1>1, <1>4, <1>7
  <2>2. QED
    BY <1>4, <2>1, RangeByPlace
<1>10. Range(Front(s)) = Range(s) \ {Last(s)}
  <2>1. ASSUME NEW i \in 1 .. n - 1
        PROVE  Front(s)[i] \in Range(s) /\ Front(s)[i] # Last(s)
    BY <1>1, <1>4, <1>6, <1>7, <1>8
  <2>2. ASSUME NEW i \in 1 .. n, s[i] # Last(s)
        PROVE  s[i] \in {Front(s)[j] : j \in 1 .. n - 1}
    <3>1. i \in 1 .. n - 1
      BY <1>1, <1>8, <2>2
    <3>2. QED
      BY <1>4, <3>1
  <2>3. QED
    BY <1>5, <1>6, <2>1, <2>2
<1>11. QED
  BY <1>4, <1>6, <1>8, <1>9, <1>10

\* With another element.
LEMMA Appended ==
  ASSUME NEW S, NEW s \in Seq(S), IsInjective(s), NEW x \in S, x \notin Range(s)
  PROVE  /\ Append(s, x) \in Seq(S) /\ IsInjective(Append(s, x))
         /\ Range(Append(s, x)) = Range(s) \cup {x}
         /\ Len(Append(s, x)) = Len(s) + 1
<1> DEFINE n == Len(s)
           t == Append(s, x)
<1>1. n \in Nat
  BY LenProperties
<1>2. /\ t \in Seq(S) /\ Len(t) = n + 1 /\ t[n + 1] = x
      /\ \A i \in 1 .. n : t[i] = s[i]
  BY AppendProperties
<1> HIDE DEF t
<1>3. Range(t) = {t[i] : i \in 1 .. n + 1}
  BY <1>2, RangeByPlace
<1>4. Range(s) = {s[i] : i \in 1 .. n} /\ \A i, j \in 1 .. n : s[i] = s[j] => i = j
  BY RangeByPlace
<1>5. Range(t) = Range(s) \cup {x}
  BY <1>1, <1>2, <1>3, <1>4
<1>6. \A i, j \in 1 .. n + 1 : t[i] = t[j] => i = j
  <2>1. \A i \in 1 .. n + 1 : i \in 1 .. n \/ i = n + 1
    BY <1>1
  <2>2. \A i \in 1 .. n : t[i] = s[i] /\ t[i] \in Range(s)
    BY <1>2, <1>4
  <2>3. QED
    BY <1>2, <1>4, <2>1, <2>2
<1>7. IsInjective(t)
  BY <1>2, <1>6, RangeByPlace
<1>8. QED
  BY <1>2, <1>5, <1>7 DEF t

\* Without its i-th element.
LEMMA Removed ==
  ASSUME NEW S, NEW s \in Seq(S), IsInjective(s), NEW i \in 1 .. Len(s)
  PROVE  /\ RemoveAt(s, i) \in Seq(S) /\ IsInjective(RemoveAt(s, i))
         /\ Range(RemoveAt(s, i)) = Range(s) \ {s[i]}
         /\ Len(RemoveAt(s, i)) = Len(s) - 1
<1> DEFINE n == Len(s)
           a == SubSeq(s, 1, i - 1)
           b == SubSeq(s, i + 1, n)
           t == RemoveAt(s, i)
<1>1. n \in Nat /\ i \in Int /\ \A j \in 1 .. n : s[j] \in S
  BY LenProperties, ElementOfSeq
<1>2. a \in Seq(S) /\ Len(a) = i - 1 /\ \A j \in 1 .. i - 1 : a[j] = s[j]
  <2>1. \A j \in 1 .. i - 1 : s[j] \in S
    BY <1>1
  <2>2. /\ a \in Seq(S) /\ Len(a) = IF 1 <= i - 1 THEN (i - 1) - 1 + 1 ELSE 0
        /\ \A j \in 1 .. (i - 1) - 1 + 1 : a[j] = s[1 + j - 1]
    BY <1>1, <2>1, SubSeqProperties
  <2>3. (i - 1) - 1 + 1 = i - 1 /\ \A j \in 1 .. i - 1 : 1 + j - 1 = j
    BY <1>1
  <2> HIDE DEF a
  <2>4. QED
    BY <1>1, <2>2, <2>3
<1>3. b \in Seq(S) /\ Len(b) = n - i /\ \A j \in 1 .. n - i : b[j] = s[i + j]
  <2>1. \A j \in i + 1 .. n : s[j] \in S
    BY <1>1
  <2>2. /\ b \in Seq(S) /\ Len(b) = IF i + 1 <= n THEN n - (i + 1) + 1 ELSE 0
        /\ \A j \in 1 .. n - (i + 1) + 1 : b[j] = s[(i + 1) + j - 1]
    BY <1>1, <2>1, SubSeqProperties
  <2>3. n - (i + 1) + 1 = n - i /\ \A j \in 1 .. n - i : (i + 1) + j - 1 = i + j
    BY <1>1
  <2> HIDE DEF b
  <2>4. Len(b) = n - i
    <3>1. i <= n
      BY <1>1
    <3>2. QED
      BY <1>1, <2>2, <3>1
  <2>5. ASSUME NEW j \in 1 .. n - i PROVE b[j] = s[i + j]
    <3>1. j \in 1 .. n - (i + 1) + 1 /\ (i + 1) + j - 1 = i + j
      BY <2>3
    <3>2. b[j] = s[(i + 1) + j - 1]
      BY <2>2, <3>1
    <3>3. QED
      BY <3>1, <3>2
  <2>6. QED
    BY <2>2, <2>4, <2>5
<1>4. t = a \o b
  BY DEF RemoveAt
<1> HIDE DEF a, b, t
<1>5. /\ t \in Seq(S) /\ Len(t) = n - 1
      /\ \A j \in 1 .. n - 1 : t[j] = IF j <= i - 1 THEN a[j] ELSE b[j - (i - 1)]
  <2>1. /\ a \o b \in Seq(S) /\ Len(a \o b) = Len(a) + Len(b)
        /\ \A j \in 1 .. Len(a) + Len(b) : (a \o b)[j] =
              IF j <= Len(a) THEN a[j] ELSE b[j - Len(a)]
    BY <1>2, <1>3, ConcatProperties
  <2>2. (i - 1) + (n - i) = n - 1
    BY <1>1
  <2>3. QED
    BY <1>2, <1>3, <1>4, <2>1, <2>2
<1>6. \A j \in 1 .. n - 1 : t[j] = IF j < i THEN s[j] ELSE s[j + 1]
  <2>1. ASSUME NEW j \in 1 .. n - 1, j < i PROVE t[j] = s[j]
    BY <1>1, <1>2, <1>5, <2>1
  <2>2. ASSUME NEW j \in 1 .. n - 1, ~(j < i) PROVE t[j] = s[j + 1]
    <3>1. j - (i - 1) \in 1 .. n - i /\ i + (j - (i - 1)) = j + 1 /\ ~(j <= i - 1)
      BY <1>1, <2>2
    <3>2. t[j] = b[j - (i - 1)]
      BY <1>5, <3>1
    <3>3. b[j - (i - 1)] = s[i + (j - (i - 1))]
      BY <1>3, <3>1
    <3>4. QED
      BY <3>1, <3>2, <3>3
  <2>3. QED
    BY <2>1, <2>2
<1>7. Range(s) = {s[j] : j \in 1 .. n} /\ \A j, k \in 1 .. n : s[j] = s[k] => j = k
  BY RangeByPlace
<1>8. Range(t) = {t[j] : j \in 1 .. n - 1}
  BY <1>5, RangeByPlace
<1>9. Range(t) = Range(s) \ {s[i]}
  <2>1. ASSUME NEW j \in 1 .. n - 1 PROVE t[j] \in Range(s) /\ t[j] # s[i]
    <3>1. CASE j < i
      <4>1. j \in 1 .. n /\ j # i /\ t[j] = s[j]
        BY <1>1, <1>6, <3>1
      <4>2. QED
        BY <1>7, <4>1
    <3>2. CASE ~(j < i)
      <4>1. j + 1 \in 1 .. n /\ j + 1 # i /\ t[j] = s[j + 1]
        BY <1>1, <1>6, <3>2
      <4>2. QED
        BY <1>7, <4>1
    <3>3. QED
      BY <3>1, <3>2
  <2>2. ASSUME NEW k \in 1 .. n, s[k] # s[i] PROVE \E j \in 1 .. n - 1 : t[j] = s[k]
    <3>1. CASE k < i
      <4>1. k \in 1 .. n - 1 /\ t[k] = s[k]
        BY <1>1, <1>6, <3>1
      <4>2. QED
        BY <4>1
    <3>2. CASE k > i
      <4>1. k - 1 \in 1 .. n - 1 /\ ~(k - 1 < i) /\ (k - 1) + 1 = k
        BY <1>1, <3>2
      <4>2. t[k - 1] = s[k]
        BY <1>6, <4>1
      <4>3. QED
        BY <4>1, <4>2
    <3>3. k # i
      BY <2>2
    <3>4. QED
      BY <1>1, <3>1, <3>2, <3>3
  <2>3. ASSUME NEW x \in Range(t) PROVE x \in Range(s) \ {s[i]}
    <3>1. PICK j \in 1 .. n - 1 : x = t[j]
      BY <1>8, <2>3
    <3>2. QED
      BY <2>1, <3>1
  <2>4. ASSUME NEW x \in Range(s) \ {s[i]} PROVE x \in Range(t)
    <3>1. PICK k \in 1 .. n : x = s[k]
      BY <1>7, <2>4
    <3>2. PICK j \in 1 .. n - 1 : t[j] = s[k]
      BY <2>2, <2>4, <3>1
    <3>3. QED
      BY <1>8, <3>1, <3>2
  <2>5. QED
    BY <2>3, <2>4
<1>10. IsInjective(t)
  <2>1. ASSUME NEW j \in 1 .. n - 1, NEW k \in 1 .. n - 1, j < k PROVE t[j] # t[k]
    <3> DEFINE p(m) == IF m < i THEN m ELSE m + 1
    <3>1. \A m \in 1 .. n - 1 : p(m) \in 1 .. n /\ t[m] = s[p(m)]
      BY <1>1, <1>6
    <3>2. p(j) # p(k)
      BY <1>1, <2>1
    <3> HIDE DEF p
    <3>3. QED
      BY <1>7, <3>1, <3>2
  <2>2. \A j, k \in 1 .. n - 1 : t[j] = t[k] => j = k
    BY <1>1, <2>1
  <2>3. QED
    BY <1>5, <2>2, RangeByPlace
<1>11. QED
  BY <1>5, <1>9, <1>10 DEF t

\* A sequence without repetition has as many values as places.
LEMMA InjectiveCounts ==
  ASSUME NEW S, NEW s \in Seq(S), IsInjective(s)
  PROVE  IsFiniteSet(Range(s)) /\ Cardinality(Range(s)) = Len(s)
<1> DEFINE n == Len(s)
<1>1. n \in Nat /\ s \in [1 .. n -> S]
  BY LenProperties
<1>2. IsFiniteSet(1 .. n) /\ Cardinality(1 .. n) = n
  <2> HIDE DEF n
  <2>1. 1 \in Int /\ n \in Int
    BY <1>1
  <2>2. IsFiniteSet(1 .. n) /\ Cardinality(1 .. n) = IF 1 > n THEN 0 ELSE n - 1 + 1
    BY <2>1, FS_Interval
  <2>3. QED
    BY <1>1, <2>2
<1>3. Range(s) = {s[i] : i \in 1 .. n}
  BY RangeByPlace
<1>4. s \in [1 .. n -> Range(s)]
  BY <1>1, <1>3
<1>5. s \in Surjection(1 .. n, Range(s)) /\ s \in Injection(1 .. n, Range(s))
  BY <1>3, <1>4 DEF Surjection, Injection
<1>6. QED
  BY <1>2, <1>5, FS_Surjection

\* A set of indexes has a descending order, which holds each of them once.
LEMMA DescendingLists ==
  ASSUME NEW k \in Nat, NEW S \in SUBSET (0 .. k - 1)
  PROVE  /\ Descending(S) \in Seq(0 .. k - 1) /\ IsInjective(Descending(S))
         /\ Range(Descending(S)) = S
<1> DEFINE Falls(T, s) == \A i, j \in 1 .. Cardinality(T) : i < j => s[i] > s[j]
           ok == {n \in 0 .. k : \A T \in SUBSET (0 .. k - 1) :
                    Cardinality(T) = n => \E s \in [1 .. n -> T] : Falls(T, s)}
<1>1. IsFiniteSet(0 .. k - 1) /\ Cardinality(0 .. k - 1) = k
  <2>1. /\ IsFiniteSet(0 .. k - 1)
        /\ Cardinality(0 .. k - 1) = IF 0 > k - 1 THEN 0 ELSE (k - 1) - 0 + 1
    BY FS_Interval
  <2>2. QED
    BY <2>1
<1>2. \A T \in SUBSET (0 .. k - 1) : IsFiniteSet(T) /\ Cardinality(T) \in 0 .. k
  <2>1. ASSUME NEW T \in SUBSET (0 .. k - 1)
        PROVE  IsFiniteSet(T) /\ Cardinality(T) \in 0 .. k
    <3>1. IsFiniteSet(T) /\ Cardinality(T) <= Cardinality(0 .. k - 1)
      BY <1>1, FS_Subset
    <3>2. Cardinality(T) \in Nat
      BY <3>1, FS_CardinalityType
    <3>3. QED
      BY <1>1, <3>1, <3>2
  <2>2. QED
    BY <2>1
<1>3. 0 \in ok
  <2>1. ASSUME NEW T \in SUBSET (0 .. k - 1), Cardinality(T) = 0
        PROVE  \E s \in [1 .. 0 -> T] : Falls(T, s)
    <3>1. [i \in 1 .. 0 |-> 0] \in [1 .. 0 -> T] /\ \A i \in 1 .. 0 : FALSE
      OBVIOUS
    <3>2. QED
      BY <2>1, <3>1
  <2>2. QED
    BY <2>1
<1>4. ASSUME NEW n \in 0 .. k - 1, n \in ok PROVE n + 1 \in ok
  <2>1. ASSUME NEW T \in SUBSET (0 .. k - 1), Cardinality(T) = n + 1
        PROVE  \E s \in [1 .. n + 1 -> T] : Falls(T, s)
    <3>1. IsFiniteSet(T)
      BY <1>2
    <3>2. T # {}
      <4>1. Cardinality({}) = 0
        BY FS_EmptySet
      <4>2. QED
        BY <2>1, <4>1
    <3>3. PICK x \in T : \A y \in T : x <= y
      <4>1. T \in SUBSET Nat
        OBVIOUS
      <4>2. QED
        BY <3>2, <4>1, LeastExists
    <3> DEFINE U == T \ {x}
    <3>4. U \in SUBSET (0 .. k - 1) /\ Cardinality(U) = n
      BY <2>1, <3>1, FS_RemoveElement
    <3>5. PICK s \in [1 .. n -> U] : Falls(U, s)
      BY <1>4, <3>4
    <3> DEFINE t == [i \in 1 .. n + 1 |-> IF i = n + 1 THEN x ELSE s[i]]
    <3>6. \A i \in 1 .. n : s[i] \in T /\ s[i] > x
      <4>1. \A y \in U : y \in T /\ y # x /\ x <= y /\ y \in Int /\ x \in Int
        BY <3>3
      <4> HIDE DEF U
      <4>2. \A i \in 1 .. n : s[i] \in U
        OBVIOUS
      <4>3. \A y \in U : y > x
        BY <4>1
      <4>4. QED
        BY <4>1, <4>2, <4>3
    <3>7. t \in [1 .. n + 1 -> T]
      <4>1. \A i \in 1 .. n + 1 : i # n + 1 => i \in 1 .. n
        OBVIOUS
      <4>2. QED
        BY <3>6, <4>1
    <3>8. \A i, j \in 1 .. n : i < j => s[i] > s[j]
      BY <3>4, <3>5
    <3>9. ASSUME NEW i \in 1 .. n + 1, NEW j \in 1 .. n + 1, i < j
          PROVE  t[i] > t[j]
      <4>1. i \in 1 .. n /\ t[i] = s[i]
        BY <3>9
      <4>2. CASE j = n + 1
        BY <3>6, <4>1, <4>2
      <4>3. CASE j # n + 1
        <5>1. j \in 1 .. n /\ t[j] = s[j]
          BY <4>3
        <5>2. QED
          BY <3>8, <3>9, <4>1, <5>1
      <4>4. QED
        BY <4>2, <4>3
    <3> HIDE DEF t
    <3>10. Falls(T, t)
      BY <2>1, <3>9
    <3>11. QED
      BY <3>7, <3>10
  <2>2. n + 1 \in 0 .. k
    OBVIOUS
  <2>3. QED
    BY <2>1, <2>2
<1>5. \A n \in 0 .. k : n \in ok
  <2> HIDE DEF ok
  <2>1. QED
    BY <1>3, <1>4, Upto
<1> DEFINE n == Cardinality(S)
           s == Descending(S)
<1>6. n \in 0 .. k /\ IsFiniteSet(S)
  BY <1>2
<1>7. s \in [1 .. n -> S] /\ \A i, j \in 1 .. n : i < j => s[i] > s[j]
  <2>1. \E r \in [1 .. n -> S] : \A i, j \in 1 .. n : i < j => r[i] > r[j]
    BY <1>5, <1>6
  <2>2. QED
    BY <2>1 DEF Descending
<1>7a. \A x \in S : x \in Int
  OBVIOUS
<1> HIDE DEF s, n, ok, Falls
<1>8. \A i, j \in 1 .. n : s[i] = s[j] => i = j
  <2>1. \A i \in 1 .. n : s[i] \in Int
    BY <1>7, <1>7a
  <2>2. \A i, j \in 1 .. n : i < j \/ i = j \/ j < i
    BY <1>6
  <2>3. QED
    BY <1>7, <2>1, <2>2
<1>9. s \in Injection(1 .. n, S)
  BY <1>7, <1>8 DEF Injection, IsInjective
<1>10. Cardinality(1 .. n) = n
  <2>1. Cardinality(1 .. n) = IF 1 > n THEN 0 ELSE n - 1 + 1
    BY <1>6, FS_Interval
  <2>2. QED
    BY <1>6, <2>1
<1>11. s \in Surjection(1 .. n, S)
  BY <1>6, <1>9, <1>10, FS_Injection DEF n
<1>12. Range(s) = S
  BY <1>7, <1>11 DEF Surjection, Range
<1>13. s \in Seq(0 .. k - 1)
  <2>1. \A i \in 1 .. n : s[i] \in 0 .. k - 1
    <3>1. \A i \in 1 .. n : s[i] \in S
      BY <1>7
    <3>2. \A x \in S : x \in 0 .. k - 1
      OBVIOUS
    <3>3. QED
      BY <3>1, <3>2
  <2>2. s \in [1 .. n -> 0 .. k - 1] /\ n \in Nat
    BY <1>6, <1>7, <2>1
  <2>3. QED
    BY <2>2
<1>14. IsInjective(s)
  BY <1>9 DEF Injection
<1>15. QED
  BY <1>12, <1>13, <1>14 DEF s

-----------------------------------------------------------------------------
(* The balance of the table: what is over the mean on the worklists, and   *)
(* what each index has so far, is the exact value but for the errors.      *)

\* What the columns off the lists give to d.
Given(k, one, listed, p, al, d) ==
  [i \in 0 .. k - 1 |-> IF i \notin listed /\ al[i] = d THEN one - p[i] ELSE 0]

\* What the weights on the lists have over the mean.
Over(k, one, listed, w) ==
  [j \in 0 .. k - 1 |-> IF j \in listed THEN w[j] - one ELSE 0]

\* up and down are the errors made upward and downward.
Balanced(k, one, exact, S, L, w, p, al, err) ==
  \E up, down \in Nat :
    /\ up + down = err
    /\ L # {} => Sum(k, Over(k, one, S \cup L, w)) <= up - down
    /\ S # {} => up - down <= Sum(k, Over(k, one, S \cup L, w))
    /\ \A d \in 0 .. k - 1 :
         LET off == Sum(k, Given(k, one, S \cup L, p, al, d)) - exact[d]
         IN  /\ d \in S \cup L => -down <= w[d] + off /\ w[d] + off <= up
             /\ d \notin S \cup L => -err <= p[d] + off /\ p[d] + off <= err

\* Given and Over are functions to the integers.
LEMMA ColumnTypes ==
  ASSUME NEW k \in Nat, NEW one \in Int, NEW listed,
         NEW w \in Columns(k), NEW p \in Columns(k), NEW al
  PROVE  /\ Over(k, one, listed, w) \in Columns(k)
         /\ Sum(k, Over(k, one, listed, w)) \in Int
         /\ \A d : /\ Given(k, one, listed, p, al, d) \in Columns(k)
                  /\ Sum(k, Given(k, one, listed, p, al, d)) \in Int
<1>1. Over(k, one, listed, w) \in Columns(k)
  BY DEF Over, Columns
<1>2. \A d : Given(k, one, listed, p, al, d) \in Columns(k)
  BY DEF Given, Columns
<1>3. QED
  BY <1>1, <1>2, SumIsInt

\* The scaled weights are balanced.
LEMMA BalancedAtStart ==
  ASSUME NEW k \in Nat, NEW one \in Int, NEW exact \in Columns(k),
         Sum(k, exact) = k * one,
         NEW S, NEW L, \A j \in 0 .. k - 1 : j \in S \cup L,
         NEW e \in Columns(k),
         NEW p \in Columns(k), NEW al
  PROVE  Balanced(k, one, exact, S, L, [j \in 0 .. k - 1 |-> exact[j] + e[j]], p, al,
                  Sum(k, [j \in 0 .. k - 1 |-> Abs(e[j])]))
<1> DEFINE w == [j \in 0 .. k - 1 |-> exact[j] + e[j]]
           mean == [j \in 0 .. k - 1 |-> one]
           over == Over(k, one, S \cup L, w)
           given(d) == Given(k, one, S \cup L, p, al, d)
<1>1. /\ w \in Columns(k) /\ mean \in Columns(k)
      /\ \A j \in 0 .. k - 1 : mean[j] = one
  BY DEF Columns
<1>2. Added(k, exact, e, w)
  BY DEF Added
<1>3. over \in Columns(k) /\ Added(k, over, mean, w)
  <2>1. ASSUME NEW j \in 0 .. k - 1 PROVE over[j] = w[j] - one /\ mean[j] = one /\ w[j] \in Int
    BY <1>1, ColumnValues DEF Over
  <2>2. over = [j \in 0 .. k - 1 |-> over[j]]
    BY DEF Over
  <2> HIDE DEF over, w, mean
  <2>3. \A j \in 0 .. k - 1 : over[j] \in Int /\ w[j] = over[j] + mean[j]
    BY <2>1
  <2>4. QED
    BY <2>2, <2>3 DEF Added, Columns
<1> HIDE DEF w, mean, over
<1>4. Sum(k, w) = Sum(k, exact) + Sum(k, e)
  BY <1>1, <1>2, SumAdds
<1>5. Sum(k, w) = Sum(k, over) + Sum(k, mean)
  BY <1>1, <1>3, SumAdds
<1>6. Sum(k, mean) = Sum(k, exact)
  BY <1>1, SumOfEqual
<1>7. Sum(k, over) \in Int /\ Sum(k, exact) \in Int /\ Sum(k, e) \in Int
  BY <1>3, SumIsInt
<1>8. Sum(k, over) = Sum(k, e)
  BY <1>4, <1>5, <1>6, <1>7
<1>9. PICK up, down \in Nat :
        /\ up + down = Sum(k, [j \in 0 .. k - 1 |-> Abs(e[j])])
        /\ Sum(k, e) = up - down
        /\ \A j \in 0 .. k - 1 : -down <= e[j] /\ e[j] <= up
  BY SignedSums
<1>10. ASSUME NEW d \in 0 .. k - 1 PROVE Sum(k, given(d)) = 0
  <2>1. given(d) \in Columns(k) /\ \A j \in 0 .. k - 1 : given(d)[j] = 0
    BY DEF Given, Columns
  <2> HIDE DEF given
  <2>2. Sum(k, given(d)) = k * 0
    BY <2>1, SumOfEqual
  <2>3. QED
    BY <2>2
<1>11. ASSUME NEW d \in 0 .. k - 1
       PROVE  LET off == Sum(k, given(d)) - exact[d]
              IN  -down <= w[d] + off /\ w[d] + off <= up /\ d \in S \cup L
  <2>1. w[d] = exact[d] + e[d] /\ e[d] \in Int /\ exact[d] \in Int
    BY <1>2, ColumnValues DEF Added
  <2>2. w[d] + (0 - exact[d]) = e[d]
    BY <2>1
  <2>3. QED
    BY <1>9, <1>10, <2>2
<1>12. Balanced(k, one, exact, S, L, w, p, al, up + down)
  <2>1. Sum(k, over) <= up - down /\ up - down <= Sum(k, over)
    BY <1>8, <1>9
  <2>2. QED
    BY <1>11, <2>1 DEF Balanced, over
<1>13. QED
  BY <1>9, <1>12 DEF w

\* What a round of the pairing does to the lists and the columns.
Paired(k, one, S, L, S1, L1, a, g, w, p, al, w1, p1, al1, e) ==
  /\ a \in 0 .. k - 1 /\ g \in 0 .. k - 1 /\ a # g
  /\ a \in S /\ g \in L /\ S1 \cup L1 = (S \cup L) \ {a}
  /\ w1[g] = w[g] + w[a] - one + e /\ \A j \in 0 .. k - 1 : j # g => w1[j] = w[j]
  /\ p1[a] = w[a] /\ \A j \in 0 .. k - 1 : j # a => p1[j] = p[j]
  /\ al1[a] = g /\ \A j \in 0 .. k - 1 : j # a => al1[j] = al[j]

\* A round of the pairing keeps the balance: what a lacks of its column is what
\* g gives to it, so that both stay within the errors.
LEMMA BalancedByPair ==
  ASSUME NEW k \in Nat, NEW one \in Int, NEW exact \in Columns(k),
         NEW S, NEW L, NEW S1, NEW L1, NEW a, NEW g,
         NEW w \in Columns(k), NEW p \in Columns(k), NEW al,
         NEW w1 \in Columns(k), NEW p1 \in Columns(k), NEW al1,
         NEW err \in Nat, NEW e \in Int,
         Paired(k, one, S, L, S1, L1, a, g, w, p, al, w1, p1, al1, e),
         Balanced(k, one, exact, S, L, w, p, al, err)
  PROVE  Balanced(k, one, exact, S1, L1, w1, p1, al1, err + Abs(e))
<1> DEFINE T == S \cup L
           T1 == S1 \cup L1
           over == Over(k, one, T, w)
           over1 == Over(k, one, T1, w1)
           given(d) == Given(k, one, T, p, al, d)
           given1(d) == Given(k, one, T1, p1, al1, d)
<1>1. PICK up, down \in Nat :
        /\ up + down = err
        /\ L # {} => Sum(k, over) <= up - down
        /\ S # {} => up - down <= Sum(k, over)
        /\ \A d \in 0 .. k - 1 :
             LET off == Sum(k, given(d)) - exact[d]
             IN  /\ d \in T => -down <= w[d] + off /\ w[d] + off <= up
                 /\ d \notin T => -err <= p[d] + off /\ p[d] + off <= err
  BY DEF Balanced
<1>2. /\ over \in Columns(k) /\ over1 \in Columns(k)
  BY ColumnTypes
<1>2s. Sum(k, over) \in Int /\ Sum(k, over1) \in Int
  BY ColumnTypes
<1>2a. ASSUME NEW d \in 0 .. k - 1
       PROVE  given(d) \in Columns(k) /\ given1(d) \in Columns(k)
  BY ColumnTypes
<1>2b. ASSUME NEW d \in 0 .. k - 1
       PROVE  Sum(k, given(d)) \in Int /\ Sum(k, given1(d)) \in Int
  BY ColumnTypes
<1>3. /\ a \in T /\ g \in T /\ T1 = T \ {a} /\ g \in T1 /\ a \notin T1 /\ a # g
      /\ a \in 0 .. k - 1 /\ g \in 0 .. k - 1 /\ S # {} /\ L # {}
  BY DEF Paired
<1>3a. w1[g] = w[g] + w[a] - one + e /\ p1[a] = w[a]
  BY DEF Paired
<1>3b. \A j \in 0 .. k - 1 : j # g => w1[j] = w[j]
  BY DEF Paired
<1>3c. \A j \in 0 .. k - 1 : j # a => p1[j] = p[j]
  BY DEF Paired
<1>3d. al1[a] = g /\ \A j \in 0 .. k - 1 : j # a => al1[j] = al[j]
  BY DEF Paired
<1>4. over[a] = w[a] - one /\ over1[a] = 0 /\ over[g] = w[g] - one /\ over1[g] = w1[g] - one
  BY <1>3 DEF Over
<1>5. \A j \in 0 .. k - 1 : j # a /\ j # g => over1[j] = over[j]
  BY <1>3, <1>3b DEF Over
<1>7. ASSUME NEW d \in 0 .. k - 1
      PROVE  /\ given(d)[a] = 0
             /\ d = g => given1(d)[a] = one - w[a]
             /\ d # g => given1(d)[a] = 0
             /\ \A j \in 0 .. k - 1 : j # a => given1(d)[j] = given(d)[j]
  BY <1>3, <1>3a, <1>3c, <1>3d DEF Given
<1> HIDE DEF T, T1, over, over1, given, given1
<1>6. Sum(k, over1) = Sum(k, over) + e
  <2> DEFINE mid == [j \in 0 .. k - 1 |-> IF j = a THEN 0 ELSE over[j]]
  <2>1. /\ mid \in Columns(k) /\ mid[a] = 0
        /\ \A j \in 0 .. k - 1 : j # a => mid[j] = over[j]
    BY <1>2, <1>3 DEF Columns
  <2> HIDE DEF mid
  <2>2. Sum(k, mid) = Sum(k, over) + (mid[a] - over[a])
    BY <1>2, <1>3, <2>1, SumChanges
  <2>3. \A j \in 0 .. k - 1 : j # g => over1[j] = mid[j]
    BY <1>3, <1>4, <1>5, <2>1
  <2>4. Sum(k, over1) = Sum(k, mid) + (over1[g] - mid[g])
    BY <1>2, <1>3, <2>1, <2>3, SumChanges
  <2>5. mid[g] = w[g] - one /\ w[g] \in Int /\ w[a] \in Int
    BY <1>3, <1>4, <2>1, ColumnValues
  <2>6. QED
    BY <1>2s, <1>3a, <1>4, <2>1, <2>2, <2>4, <2>5
<1>8. ASSUME NEW d \in 0 .. k - 1
      PROVE  Sum(k, given1(d)) = Sum(k, given(d)) + (given1(d)[a] - given(d)[a])
  <2>1. given(d) \in Columns(k) /\ given1(d) \in Columns(k)
    BY <1>2a
  <2>2. \A j \in 0 .. k - 1 : j # a => given1(d)[j] = given(d)[j]
    BY <1>7
  <2>3. a \in 0 .. k - 1
    BY <1>3
  <2> DEFINE f == given(d)
             f1 == given1(d)
  <2> HIDE DEF f, f1
  <2>4. Sum(k, f1) = Sum(k, f) + (f1[a] - f[a])
    BY <2>1, <2>2, <2>3, SumChanges DEF f, f1
  <2>5. QED
    BY <2>4 DEF f, f1
<1>9. w[a] \in Int /\ w[g] \in Int 
  BY <1>3, ColumnValues
<1> DEFINE up1 == up + (IF e < 0 THEN 0 ELSE e)
           down1 == down + (IF e < 0 THEN -e ELSE 0)
<1>10. /\ up1 \in Nat /\ down1 \in Nat /\ up1 + down1 = err + Abs(e)
       /\ up1 - down1 = (up - down) + e /\ up <= up1 /\ down <= down1
       /\ up + e <= up1 /\ -down1 <= e - down
  BY <1>1 DEF Abs
<1>11. err + Abs(e) \in Nat /\ up <= err + Abs(e) /\ down <= err + Abs(e) /\ err <= err + Abs(e)
  BY <1>1 DEF Abs
<1> HIDE DEF up1, down1
<1>12. Sum(k, over) = up - down
  <2>1. Sum(k, over) <= up - down /\ up - down <= Sum(k, over)
    BY <1>1, <1>3
  <2>2. QED
    BY <1>2s, <2>1
<1>13. ASSUME NEW d \in 0 .. k - 1, d \in T1
       PROVE  LET off == Sum(k, given1(d)) - exact[d]
              IN  -down1 <= w1[d] + off /\ w1[d] + off <= up1
  <2> DEFINE x == w[d] + (Sum(k, given(d)) - exact[d])
             y == w1[d] + (Sum(k, given1(d)) - exact[d])
  <2>1. d \in T /\ d # a
    BY <1>3, <1>13
  <2>2. -down <= x /\ x <= up
    BY <1>1, <2>1
  <2>3. w[d] \in Int /\ w1[d] \in Int /\ exact[d] \in Int
    BY ColumnValues
  <2>4. Sum(k, given(d)) \in Int /\ Sum(k, given1(d)) \in Int
    BY <1>2b
  <2>5. CASE d = g
    <3>1. Sum(k, given1(d)) = Sum(k, given(d)) + (one - w[a])
      BY <1>7, <1>8, <1>9, <2>5
    <3>2. w1[d] = w[d] + w[a] - one + e
      BY <1>3a, <2>5
    <3>3. y = x + e
      BY <1>9, <2>3, <2>4, <3>1, <3>2
    <3>4. x \in Int
      BY <2>3, <2>4
    <3> HIDE DEF x, y
    <3>5. -down1 <= y /\ y <= up1
      BY <1>10, <2>2, <3>3, <3>4
    <3>6. QED
      BY <3>5 DEF y
  <2>6. CASE d # g
    <3>1. Sum(k, given1(d)) = Sum(k, given(d))
      BY <1>7, <1>8, <2>4, <2>6
    <3>2. y = x /\ x \in Int
      BY <1>3b, <2>3, <2>4, <2>6, <3>1
    <3> HIDE DEF x, y
    <3>3. -down1 <= y /\ y <= up1
      BY <1>10, <2>2, <3>2
    <3>4. QED
      BY <3>3 DEF y
  <2>7. QED
    BY <2>5, <2>6
<1>14. ASSUME NEW d \in 0 .. k - 1, d \notin T1
       PROVE  LET off == Sum(k, given1(d)) - exact[d]
              IN  -(err + Abs(e)) <= p1[d] + off /\ p1[d] + off <= err + Abs(e)
  <2>1. d # g
    BY <1>3, <1>14
  <2>2. Sum(k, given(d)) \in Int /\ Sum(k, given1(d)) = Sum(k, given(d))
    BY <1>2b, <1>7, <1>8, <2>1
  <2>3. w[d] \in Int /\ p[d] \in Int /\ exact[d] \in Int
    BY ColumnValues
  <2> DEFINE off == Sum(k, given(d)) - exact[d]
  <2>4. off \in Int
    BY <2>2, <2>3
  <2>5. CASE d = a
    <3>1. p1[d] = w[d] /\ -down <= w[d] + off /\ w[d] + off <= up
      BY <1>1, <1>3, <1>3a, <2>5
    <3> HIDE DEF off
    <3>2. -(err + Abs(e)) <= p1[d] + off /\ p1[d] + off <= err + Abs(e)
      BY <1>11, <2>3, <2>4, <3>1
    <3>3. QED
      BY <2>2, <3>2 DEF off
  <2>6. CASE d # a
    <3>1. d \notin T
      BY <1>3, <1>14, <2>6
    <3>2. p1[d] = p[d] /\ -err <= p[d] + off /\ p[d] + off <= err
      BY <1>1, <1>3c, <2>6, <3>1
    <3> HIDE DEF off
    <3>3. -(err + Abs(e)) <= p1[d] + off /\ p1[d] + off <= err + Abs(e)
      BY <1>11, <2>3, <2>4, <3>2
    <3>4. QED
      BY <2>2, <3>3 DEF off
  <2>7. QED
    BY <2>5, <2>6
<1>15. Sum(k, over1) = up1 - down1
  BY <1>2s, <1>6, <1>10, <1>12
<1>16. QED
  <2>1. Sum(k, over1) <= up1 - down1 /\ up1 - down1 <= Sum(k, over1)
    BY <1>10, <1>15
  <2>2. QED
    BY <1>10, <1>13, <1>14, <2>1 DEF Balanced, over1, given1, T1

\* What taking the rest of one list does to the lists and the columns.
Drained(k, one, S, L, S1, L1, x, w, p, p1) ==
  /\ S \cup L \subseteq 0 .. k - 1 /\ x \in S \cup L
  /\ S1 \cup L1 = (S \cup L) \ {x} /\ S1 \subseteq S /\ L1 \subseteq L
  /\ S = {} \/ L = {}
  /\ \A j \in S : w[j] < one
  /\ \A j \in L : w[j] >= one
  /\ p1[x] = one /\ \A j \in 0 .. k - 1 : j # x => p1[j] = p[j]

\* An index that is left over gets all of its column: what this takes or adds is
\* no more than what is over or under the mean in all, so within the errors.
LEMMA BalancedByDrain ==
  ASSUME NEW k \in Nat, NEW one \in Int, NEW exact \in Columns(k),
         NEW S, NEW L, NEW S1, NEW L1, NEW x,
         NEW w \in Columns(k), NEW p \in Columns(k), NEW al, NEW p1 \in Columns(k),
         NEW err \in Nat,
         Drained(k, one, S, L, S1, L1, x, w, p, p1),
         Balanced(k, one, exact, S, L, w, p, al, err)
  PROVE  Balanced(k, one, exact, S1, L1, w, p1, al, err)
<1> DEFINE T == S \cup L
           T1 == S1 \cup L1
           over == Over(k, one, T, w)
           over1 == Over(k, one, T1, w)
           given(d) == Given(k, one, T, p, al, d)
           given1(d) == Given(k, one, T1, p1, al, d)
<1>1. PICK up, down \in Nat :
        /\ up + down = err
        /\ L # {} => Sum(k, over) <= up - down
        /\ S # {} => up - down <= Sum(k, over)
        /\ \A d \in 0 .. k - 1 :
             LET off == Sum(k, given(d)) - exact[d]
             IN  /\ d \in T => -down <= w[d] + off /\ w[d] + off <= up
                 /\ d \notin T => -err <= p[d] + off /\ p[d] + off <= err
  BY DEF Balanced
<1>2. over \in Columns(k) /\ over1 \in Columns(k)
  BY ColumnTypes
<1>3. Sum(k, over) \in Int /\ Sum(k, over1) \in Int
  BY ColumnTypes
<1>4. ASSUME NEW d \in 0 .. k - 1
      PROVE  given(d) \in Columns(k) /\ given1(d) \in Columns(k)
  BY ColumnTypes
<1>5. ASSUME NEW d \in 0 .. k - 1
      PROVE  Sum(k, given(d)) \in Int /\ Sum(k, given1(d)) \in Int
  BY ColumnTypes
<1>6. x \in T /\ T1 = T \ {x} /\ x \in 0 .. k - 1 /\ p1[x] = one /\ T \subseteq 0 .. k - 1
  BY DEF Drained
<1>7. \A j \in 0 .. k - 1 : j # x => p1[j] = p[j]
  BY DEF Drained
<1>8. w[x] \in Int
  BY <1>6, ColumnValues
<1>9. over[x] = w[x] - one /\ over1[x] = 0 /\ \A j \in 0 .. k - 1 : j # x => over1[j] = over[j]
  BY <1>6 DEF Over
<1>10. ASSUME NEW d \in 0 .. k - 1
       PROVE  /\ given(d)[x] = 0 /\ given1(d)[x] = 0
              /\ \A j \in 0 .. k - 1 : j # x => given1(d)[j] = given(d)[j]
  BY <1>6, <1>7 DEF Given
<1>11. /\ S # {} => L = {} /\ \A j \in 0 .. k - 1 : over[j] <= 0
       /\ L # {} => S = {} /\ \A j \in 0 .. k - 1 : over[j] >= 0
  <2>1. ASSUME NEW j \in 0 .. k - 1, j \in S PROVE w[j] - one <= 0
    <3>1. w[j] < one /\ w[j] \in Int
      BY <2>1, ColumnValues DEF Drained
    <3>2. QED
      BY <3>1
  <2>2. ASSUME NEW j \in 0 .. k - 1, j \in L PROVE w[j] - one >= 0
    <3>1. w[j] >= one /\ w[j] \in Int
      BY <2>2, ColumnValues DEF Drained
    <3>2. QED
      BY <3>1
  <2>3. S = {} \/ L = {}
    BY DEF Drained
  <2>4. \A j \in 0 .. k - 1 : over[j] = IF j \in T THEN w[j] - one ELSE 0
    BY DEF Over
  <2> HIDE DEF over
  <2>5. QED
    BY <2>1, <2>2, <2>3, <2>4
<1>12. /\ T1 \subseteq T /\ S1 \subseteq S /\ L1 \subseteq L
       /\ S # {} \/ L # {}
  BY DEF Drained
<1> HIDE DEF T, T1, over, over1, given, given1
<1>13. Sum(k, over1) = Sum(k, over) - (w[x] - one)
  <2>1. Sum(k, over1) = Sum(k, over) + (over1[x] - over[x])
    BY <1>2, <1>6, <1>9, SumChanges
  <2>2. QED
    BY <1>3, <1>8, <1>9, <2>1
<1>14. ASSUME NEW d \in 0 .. k - 1 PROVE Sum(k, given1(d)) = Sum(k, given(d))
  <2>1. Sum(k, given1(d)) = Sum(k, given(d)) + (given1(d)[x] - given(d)[x])
    <3>1. given(d) \in Columns(k) /\ given1(d) \in Columns(k)
      BY <1>4
    <3>2. \A j \in 0 .. k - 1 : j # x => given1(d)[j] = given(d)[j]
      BY <1>10
    <3> DEFINE f == given(d)
               f1 == given1(d)
    <3> HIDE DEF f, f1
    <3>3. Sum(k, f1) = Sum(k, f) + (f1[x] - f[x])
      BY <1>6, <3>1, <3>2, SumChanges DEF f, f1
    <3>4. QED
      BY <3>3 DEF f, f1
  <2>2. QED
    BY <1>5, <1>10, <2>1
<1>15. L # {} => 0 <= w[x] - one /\ w[x] - one <= up - down
  <2>1. SUFFICES ASSUME L # {} PROVE 0 <= w[x] - one /\ w[x] - one <= up - down
    OBVIOUS
  <2>2. over[x] <= Sum(k, over)
    BY <1>2, <1>6, <1>11, <2>1, SumCovers
  <2>3. Sum(k, over) <= up - down /\ over[x] >= 0
    BY <1>1, <1>6, <1>11, <2>1
  <2>4. QED
    BY <1>3, <1>8, <1>9, <2>2, <2>3
<1>16. S # {} => w[x] - one <= 0 /\ up - down <= w[x] - one
  <2>1. SUFFICES ASSUME S # {} PROVE w[x] - one <= 0 /\ up - down <= w[x] - one
    OBVIOUS
  <2>2. Sum(k, over) <= over[x]
    BY <1>2, <1>6, <1>11, <2>1, SumIsUnder
  <2>3. up - down <= Sum(k, over) /\ over[x] <= 0
    BY <1>1, <1>6, <1>11, <2>1
  <2>4. QED
    BY <1>3, <1>8, <1>9, <2>2, <2>3
<1>17. up <= err /\ down <= err
  BY <1>1
<1>18. ASSUME NEW d \in 0 .. k - 1, d \in T1
       PROVE  LET off == Sum(k, given1(d)) - exact[d]
              IN  -down <= w[d] + off /\ w[d] + off <= up
  BY <1>1, <1>12, <1>14, <1>18
<1>19. ASSUME NEW d \in 0 .. k - 1, d \notin T1
       PROVE  LET off == Sum(k, given1(d)) - exact[d]
              IN  -err <= p1[d] + off /\ p1[d] + off <= err
  <2> DEFINE off == Sum(k, given(d)) - exact[d]
  <2>1. exact[d] \in Int /\ off \in Int
    <3>1. exact[d] \in Int
      BY ColumnValues
    <3>2. QED
      BY <1>5, <3>1
  <2>2. CASE d = x
    <3>1. p1[d] = one /\ -down <= w[d] + off /\ w[d] + off <= up
      BY <1>1, <1>6, <2>2
    <3> HIDE DEF off
    <3>2. -err <= p1[d] + off /\ p1[d] + off <= err
      BY <1>8, <1>12, <1>15, <1>16, <1>17, <2>1, <2>2, <3>1
    <3>3. QED
      BY <1>14, <3>2 DEF off
  <2>3. CASE d # x
    <3>1. p1[d] = p[d] /\ d \notin T
      BY <1>6, <1>7, <1>19, <2>3
    <3>2. -err <= p[d] + off /\ p[d] + off <= err
      BY <1>1, <3>1
    <3>3. QED
      BY <1>14, <3>1, <3>2
  <2>4. QED
    BY <2>2, <2>3
<1>20. /\ L1 # {} => Sum(k, over1) <= up - down
       /\ S1 # {} => up - down <= Sum(k, over1)
  <2>1. L1 # {} => L # {} /\ Sum(k, over) <= up - down
    BY <1>1, <1>12
  <2>2. S1 # {} => S # {} /\ up - down <= Sum(k, over)
    BY <1>1, <1>12
  <2>3. QED
    BY <1>3, <1>8, <1>13, <1>15, <1>16, <2>1, <2>2
<1>21. QED
  BY <1>1, <1>18, <1>19, <1>20 DEF Balanced, over1, given1, T1

\* With no index left on a list, the mass of each is exact but for the errors.
LEMMA BalancedWhenDone ==
  ASSUME NEW k \in Nat, NEW one \in Int, NEW exact \in Columns(k),
         NEW w, NEW p \in Columns(k), NEW al, NEW err \in Nat,
         Balanced(k, one, exact, {}, {}, w, p, al, err), NEW d \in 0 .. k - 1
  PROVE  Abs((p[d] + Sum(k, Given(k, one, {}, p, al, d))) - exact[d]) <= err
<1> DEFINE given == Given(k, one, {}, p, al, d)
           off == Sum(k, given) - exact[d]
           mass == p[d] + Sum(k, given)
<1>1. {} \cup {} = {}
  OBVIOUS
<1>2. given \in Columns(k)
  BY DEF Given, Columns
<1>3. -err <= p[d] + off /\ p[d] + off <= err
  BY <1>1 DEF Balanced
<1> HIDE DEF given
<1>4. p[d] \in Int /\ exact[d] \in Int /\ Sum(k, given) \in Int
  BY <1>2, SumIsInt, ColumnValues
<1>5. mass - exact[d] = p[d] + off /\ mass - exact[d] \in Int
  BY <1>4
<1> HIDE DEF mass, off
<1>6. Abs(mass - exact[d]) <= err
  BY <1>3, <1>5 DEF Abs
<1>7. QED
  BY <1>6 DEF mass, given

-----------------------------------------------------------------------------
(* The weights and the draws *)

\* The weights are integers, and the scaled ones add up to K times the mean.
LEMMA WeightFacts ==
  ASSUME count \in Counts
  PROVE  /\ count \in Nat /\ count # 0 /\ Index = 0 .. count - 1
         /\ One \in Int /\ Exact \in Columns(count)
         /\ Sum(count, Exact) = count * One
<1>1. count \in Nat /\ count # 0 /\ Unit[count] \in Nat
  BY ChooserAssumption
<1>2. Index = 0 .. count - 1
  BY DEF Index
<1>3. Harmonic \in Columns(count)
  <2>1. ASSUME NEW j \in 0 .. count - 1 PROVE Unit[count] \div (j + 1) \in Int
    <3>1. j + 1 \in Nat /\ j + 1 > 0
      BY <1>1
    <3>2. QED
      BY <1>1, <3>1
  <2>2. QED
    BY <1>2, <2>1 DEF Harmonic, Columns
<1>4. One \in Int
  BY <1>1, <1>3, SumIsInt DEF One
<1>5. /\ Exact \in Columns(count)
      /\ \A j \in 0 .. count - 1 : Exact[j] = Harmonic[j] * count
  <2>1. \A j \in 0 .. count - 1 : Harmonic[j] \in Int
    BY <1>3, ColumnValues
  <2>2. \A j \in 0 .. count - 1 : Harmonic[j] * count \in Int
    BY <1>1, <2>1
  <2>3. Exact = [j \in 0 .. count - 1 |-> Harmonic[j] * count]
    BY <1>2 DEF Exact
  <2>4. QED
    BY <2>2, <2>3 DEF Columns
<1>6. Sum(count, Exact) = Sum(count, Harmonic) * count
  BY <1>1, <1>3, <1>5, SumScales
<1>7. Sum(count, Harmonic) * count = count * One
  <2>1. \A x, y \in Int : x * y = y * x
    OBVIOUS
  <2>2. QED
    BY <1>1, <1>4, <2>1 DEF One
<1>8. QED
  BY <1>1, <1>2, <1>4, <1>5, <1>6, <1>7

\* A draw scaled to len is an index of len, also the draw 1.0.
LEMMA ScaledIntIsIndex ==
  ASSUME NEW tick \in 0 .. Ticks, NEW len \in Nat \ {0}
  PROVE  ScaledInt(tick, len) \in 0 .. len - 1
<1>1. Ticks \in Nat /\ Ticks > 0 /\ tick \in Nat
  BY ChooserAssumption
<1>2. tick * len \in Nat
  BY <1>1
<1> DEFINE m == tick * len
<1>3. m \in Nat
  BY <1>2
<1> HIDE DEF m
<1>4. m \div Ticks \in Nat
  BY <1>1, <1>3
<1>5. QED
  BY <1>4 DEF ScaledInt, m

-----------------------------------------------------------------------------
(* The inductive invariant *)

\* The fields are of their kinds.
Typed ==
  /\ count \in Counts
  /\ weights \in Columns(count) /\ probs \in Columns(count)
  /\ aliases \in [Index -> Index]
  /\ small \in Seq(Index) /\ large \in Seq(Index)
  /\ error \in Nat
  /\ pc \in {"scale", "pair", "ready", "shuffle", "chosen"}

\* The worklists are empty but while the table is built.
ListsServe == pc # "pair" => small = <<>> /\ large = <<>>

\* The table is balanced from the scaling on.
TableBalanced ==
  pc # "scale" => Balanced(count, One, Exact, Range(small), Range(large),
                           weights, probs, aliases, error)

\* The pool and what was picked from it are the fragments, each once; what was
\* picked is no more than the degree, and as much where the choice is made.
PoolSplit ==
  pc \in {"shuffle", "chosen"} =>
    /\ degree \in 1 .. count
    /\ picked \in Seq(Index) /\ remaining \in Seq(Index)
    /\ IsInjective(picked) /\ IsInjective(remaining)
    /\ Range(picked) \cap Range(remaining) = {}
    /\ Range(picked) \cup Range(remaining) = Index
    /\ Len(picked) + Len(remaining) = count
    /\ Len(picked) <= degree
    /\ pc = "chosen" => Len(picked) = degree

IInv == Typed /\ WorklistsPartition /\ ListsServe /\ TableBalanced /\ PoolSplit

\* A first table, not scaled yet, with empty lists and no choice.
LEMMA InitIInv == Init => IInv
<1> SUFFICES ASSUME Init PROVE IInv
  OBVIOUS
<1>1. count \in Counts /\ pc = "scale" /\ small = <<>> /\ large = <<>> /\ error = 0
  BY DEF Init
<1>2. /\ count \in Nat /\ count # 0 /\ Index = 0 .. count - 1
      /\ Exact \in Columns(count)
  BY <1>1, WeightFacts
<1>3. Typed
  <2>1. weights \in Columns(count)
    BY <1>2 DEF Init
  <2>2. probs \in Columns(count)
    BY <1>2 DEF Init, Columns
  <2>3. aliases \in [Index -> Index]
    BY <1>2 DEF Init
  <2>4. small \in Seq(Index) /\ large \in Seq(Index)
    BY <1>1, EmptySeq
  <2>5. QED
    BY <1>1, <2>1, <2>2, <2>3, <2>4 DEF Typed
<1>4. Range(<<>>) = {} /\ IsInjective(<<>>)
  BY DEF Range, IsInjective
<1>5. WorklistsPartition
  BY <1>1, <1>4 DEF WorklistsPartition
<1>6. QED
  BY <1>1, <1>3, <1>5 DEF IInv, ListsServe, TableBalanced, PoolSplit

\* With the same K, the weights to reach are the same.
LEMMA SameWeights ==
  ASSUME count' = count
  PROVE  Index' = Index /\ One' = One /\ Exact' = Exact
<1>1. Index' = Index
  BY DEF Index
<1>2. Harmonic' = Harmonic
  BY <1>1 DEF Harmonic
<1>3. QED
  BY <1>1, <1>2 DEF One, Exact

\* The scaling puts each index on one list and starts the balance.
LEMMA ScaleStep ==
  ASSUME IInv, Scale
  PROVE  IInv'
<1>1. count' = count /\ probs' = probs /\ aliases' = aliases /\ pc' = "pair"
  BY DEF Scale
<1>2. Typed
  BY DEF IInv
<1>3. Index' = Index /\ One' = One /\ Exact' = Exact
  BY <1>1, SameWeights
<1>4. /\ count \in Counts /\ count \in Nat /\ count # 0 /\ Index = 0 .. count - 1
      /\ One \in Int /\ Exact \in Columns(count) /\ Sum(count, Exact) = count * One
  BY <1>2, WeightFacts DEF Typed
<1>5. PICK e \in [Index -> Errors] :
        /\ weights' = [j \in Index |-> Exact[j] + e[j]]
        /\ error' = Sum(count, [j \in Index |-> Abs(e[j])])
  BY DEF Scale
<1>6. e \in Columns(count)
  <2>1. Errors \subseteq Int
    BY ChooserAssumption
  <2>2. QED
    BY <1>4, <2>1 DEF Columns
<1>7. weights' \in Columns(count)
  <2>1. \A j \in 0 .. count - 1 : Exact[j] \in Int /\ e[j] \in Int
    BY <1>4, <1>6, ColumnValues
  <2>2. QED
    BY <1>4, <1>5, <2>1 DEF Columns
<1>8. error' \in Nat
  <2>1. count \in Nat
    BY <1>4
  <2>2. \E up, down \in Nat :
          up + down = Sum(count, [j \in 0 .. count - 1 |-> Abs(e[j])])
    BY <1>6, <2>1, SignedSums
  <2>3. error' = Sum(count, [j \in 0 .. count - 1 |-> Abs(e[j])])
    BY <1>4, <1>5
  <2>4. QED
    BY <2>2, <2>3
<1> DEFINE S == {j \in Index : weights'[j] < One}
           L == {j \in Index : weights'[j] >= One}
<1>9. small' = Descending(S) /\ large' = Descending(L)
  BY DEF Scale
<1>10. /\ \A j \in S : weights'[j] < One
       /\ \A j \in L : weights'[j] >= One
       /\ S \in SUBSET (0 .. count - 1) /\ L \in SUBSET (0 .. count - 1)
  BY <1>4
<1>11. \A j \in 0 .. count - 1 : (j \in S /\ j \notin L) \/ (j \in L /\ j \notin S)
  <2>1. ASSUME NEW j \in 0 .. count - 1
        PROVE  (j \in S /\ j \notin L) \/ (j \in L /\ j \notin S)
    <3>1. weights'[j] \in Int /\ j \in Index
      BY <1>4, <1>7, ColumnValues
    <3>2. QED
      BY <1>4, <3>1
  <2>2. QED
    BY <2>1
<1> HIDE DEF S, L
<1>12. /\ small' \in Seq(Index) /\ IsInjective(small') /\ Range(small') = S
       /\ large' \in Seq(Index) /\ IsInjective(large') /\ Range(large') = L
  BY <1>4, <1>9, <1>10, DescendingLists
<1>13. Typed'
  <2>1. probs' \in Columns(count') /\ aliases' \in [Index' -> Index'] /\ count' \in Counts
    BY <1>1, <1>2, <1>3 DEF Typed
  <2>2. QED
    BY <1>1, <1>3, <1>7, <1>8, <1>12, <2>1 DEF Typed
<1>14. WorklistsPartition'
  <2>1. S \cap L = {} /\ S \cup L = Index
    BY <1>4, <1>10, <1>11
  <2>2. QED
    BY <1>3, <1>10, <1>12, <2>1 DEF WorklistsPartition
<1>15. TableBalanced'
  <2>1. Balanced(count, One, Exact, S, L, [j \in 0 .. count - 1 |-> Exact[j] + e[j]], probs,
                 aliases, Sum(count, [j \in 0 .. count - 1 |-> Abs(e[j])]))
    <3>1. probs \in Columns(count)
      BY <1>2 DEF Typed
    <3>2. \A j \in 0 .. count - 1 : j \in S \cup L
      BY <1>11
    <3>3. /\ count \in Nat /\ One \in Int /\ Exact \in Columns(count)
          /\ Sum(count, Exact) = count * One
      BY <1>4
    <3> HIDE DEF S, L
    <3>4. QED
      BY <1>6, <3>1, <3>2, <3>3, BalancedAtStart
  <2>2. Balanced(count, One, Exact, S, L, weights', probs, aliases, error')
    BY <1>4, <1>5, <2>1
  <2>3. QED
    BY <1>1, <1>3, <1>12, <2>2 DEF TableBalanced
<1>16. QED
  BY <1>1, <1>13, <1>14, <1>15 DEF IInv, ListsServe, PoolSplit

\* A round of the pairing takes a off the lists and leaves g on one of them.
LEMMA PairStep ==
  ASSUME IInv, Pair
  PROVE  IInv'
<1> DEFINE a == Last(small)
           g == Last(large)
           S == Range(small)
           L == Range(large)
<1>1. count' = count /\ pc = "pair" /\ pc' = "pair" /\ small # <<>> /\ large # <<>>
  BY DEF Pair
<1>2. Typed /\ WorklistsPartition
  BY DEF IInv
<1>3. Index' = Index /\ One' = One /\ Exact' = Exact
  BY <1>1, SameWeights
<1>4. /\ count \in Counts /\ count \in Nat /\ Index = 0 .. count - 1
      /\ One \in Int /\ Exact \in Columns(count)
  BY <1>2, WeightFacts DEF Typed
<1>5. /\ weights \in Columns(count) /\ probs \in Columns(count)
      /\ aliases \in [Index -> Index] /\ error \in Nat
      /\ small \in Seq(Index) /\ large \in Seq(Index)
  BY <1>2 DEF Typed
<1>6. /\ IsInjective(small) /\ IsInjective(large) /\ S \cap L = {}
      /\ \A j \in S : weights[j] < One
      /\ \A j \in L : weights[j] >= One
      /\ \A j \in Index \ (S \cup L) : probs[j] = One \/ probs[j] = weights[j]
  BY <1>1, <1>2 DEF WorklistsPartition
<1>7. PICK e \in Errors :
        /\ error' = error + Abs(e)
        /\ weights' = [weights EXCEPT ![g] = weights[g] + weights[a] - One + e]
  BY DEF Pair
<1>8. probs' = [probs EXCEPT ![a] = weights[a]] /\ aliases' = [aliases EXCEPT ![a] = g]
  BY DEF Pair
<1>9. e \in Int
  BY ChooserAssumption
<1>10. \/ weights'[g] < One /\ small' = Append(Front(small), g) /\ large' = Front(large)
       \/ ~(weights'[g] < One) /\ small' = Front(small) /\ large' = large
  BY DEF Pair
<1>11. /\ Front(small) \in Seq(Index) /\ IsInjective(Front(small)) /\ a \in S /\ a \in Index
       /\ Range(Front(small)) = S \ {a}
  BY <1>1, <1>5, <1>6, LastTaken
<1>12. /\ Front(large) \in Seq(Index) /\ IsInjective(Front(large)) /\ g \in L /\ g \in Index
       /\ Range(Front(large)) = L \ {g}
  BY <1>1, <1>5, <1>6, LastTaken
<1>13. S \subseteq Index /\ L \subseteq Index
  BY <1>5, RangeByPlace
<1> HIDE DEF a, g, S, L
<1>14. a # g /\ g \notin S /\ a \notin L
  BY <1>6, <1>11, <1>12
<1> DEFINE v == weights[g] + weights[a] - One + e
<1>15. v \in Int /\ weights[a] \in Int
  <2>1. weights[g] \in Int /\ weights[a] \in Int
    BY <1>4, <1>5, <1>11, <1>12, ColumnValues
  <2>2. QED
    BY <1>4, <1>9, <2>1
<1>16. /\ weights' \in Columns(count) /\ weights'[g] = v
       /\ \A j \in 0 .. count - 1 : j # g => weights'[j] = weights[j]
  <2> HIDE DEF v
  <2>1. weights' = [weights EXCEPT ![g] = v]
    BY <1>7 DEF v
  <2>2. QED
    BY <1>4, <1>5, <1>12, <1>15, <2>1 DEF Columns
<1>17. /\ probs' \in Columns(count) /\ probs'[a] = weights[a]
       /\ \A j \in 0 .. count - 1 : j # a => probs'[j] = probs[j]
  BY <1>4, <1>5, <1>8, <1>11, <1>15 DEF Columns
<1>18. /\ aliases' \in [Index -> Index] /\ aliases'[a] = g
       /\ \A j \in 0 .. count - 1 : j # a => aliases'[j] = aliases[j]
  BY <1>4, <1>5, <1>8, <1>11, <1>12
<1>19. error' \in Nat
  BY <1>5, <1>7, <1>9 DEF Abs
<1> HIDE DEF v
<1>20. /\ small' \in Seq(Index) /\ large' \in Seq(Index)
       /\ IsInjective(small') /\ IsInjective(large')
       /\ Range(small') \cup Range(large') = (S \cup L) \ {a}
       /\ Range(small') \cap Range(large') = {}
       /\ \A j \in Range(small') : weights'[j] < One
       /\ \A j \in Range(large') : weights'[j] >= One
  <2>1. weights'[g] \in Int
    BY <1>15, <1>16
  <2>2. \A j \in (S \cup L) \ {g} : weights'[j] = weights[j]
    BY <1>4, <1>13, <1>16
  <2>3. CASE weights'[g] < One /\ small' = Append(Front(small), g) /\ large' = Front(large)
    <3>1. g \notin Range(Front(small))
      BY <1>11, <1>14
    <3>2. /\ small' \in Seq(Index) /\ IsInjective(small')
          /\ Range(small') = (S \ {a}) \cup {g}
      BY <1>11, <1>12, <2>3, <3>1, Appended
    <3>3. Range(large') = L \ {g}
      BY <1>12, <2>3
    <3>4. /\ Range(small') \cup Range(large') = (S \cup L) \ {a}
          /\ Range(small') \cap Range(large') = {}
      BY <1>6, <1>12, <1>14, <3>2, <3>3
    <3>5. \A j \in Range(small') : weights'[j] < One
      BY <1>6, <1>14, <2>2, <2>3, <3>2
    <3>6. \A j \in Range(large') : weights'[j] >= One
      BY <1>6, <2>2, <3>3
    <3>7. QED
      BY <1>12, <2>3, <3>2, <3>4, <3>5, <3>6
  <2>4. CASE ~(weights'[g] < One) /\ small' = Front(small) /\ large' = large
    <3>1. Range(small') = S \ {a} /\ Range(large') = L
      BY <1>11, <2>4 DEF L
    <3>2. /\ Range(small') \cup Range(large') = (S \cup L) \ {a}
          /\ Range(small') \cap Range(large') = {}
      BY <1>6, <1>14, <3>1
    <3>3. \A j \in Range(small') : weights'[j] < One
      BY <1>6, <1>14, <2>2, <3>1
    <3>4. weights'[g] >= One
      BY <1>4, <2>1, <2>4
    <3>5. \A j \in Range(large') : weights'[j] >= One
      BY <1>6, <2>2, <3>1, <3>4
    <3>6. QED
      BY <1>5, <1>6, <1>11, <2>4, <3>2, <3>3, <3>5
  <2>5. QED
    BY <1>10, <2>3, <2>4
<1>21. Typed'
  BY <1>1, <1>3, <1>4, <1>16, <1>17, <1>18, <1>19, <1>20 DEF Typed
<1>22. WorklistsPartition'
  <2>1. ASSUME NEW j \in Index, j \notin (S \cup L) \ {a}
        PROVE  probs'[j] = One \/ probs'[j] = weights'[j]
    <3>1. CASE j = a
      BY <1>4, <1>14, <1>16, <1>17, <3>1
    <3>2. CASE j # a
      <4>1. j \notin S \cup L /\ j # g
        BY <1>12, <2>1, <3>2
      <4>2. probs'[j] = probs[j] /\ weights'[j] = weights[j]
        BY <1>4, <1>16, <1>17, <3>2, <4>1
      <4>3. QED
        BY <1>6, <4>1, <4>2
    <3>3. QED
      BY <3>1, <3>2
  <2>2. QED
    BY <1>3, <1>20, <2>1 DEF WorklistsPartition
<1>23. TableBalanced'
  <2>1. Balanced(count, One, Exact, S, L, weights, probs, aliases, error)
    BY <1>1 DEF IInv, TableBalanced, S, L
  <2> DEFINE S1 == Range(small')
             L1 == Range(large')
  <2>2. Paired(count, One, S, L, S1, L1, a, g, weights, probs, aliases,
               weights', probs', aliases', e)
    <3>1. weights'[g] = weights[g] + weights[a] - One + e
      BY <1>16 DEF v
    <3>2. S1 \cup L1 = (S \cup L) \ {a}
      BY <1>20
    <3> HIDE DEF S1, L1
    <3>3. QED
      BY <1>4, <1>11, <1>12, <1>14, <1>16, <1>17, <1>18, <3>1, <3>2 DEF Paired
  <2> HIDE DEF S1, L1
  <2>3. Balanced(count, One, Exact, S1, L1, weights', probs', aliases', error + Abs(e))
    BY <1>4, <1>5, <1>9, <1>16, <1>17, <2>1, <2>2, BalancedByPair
  <2>4. QED
    BY <1>1, <1>3, <1>7, <2>3 DEF TableBalanced, S1, L1
<1>24. QED
  BY <1>1, <1>21, <1>22, <1>23 DEF IInv, ListsServe, PoolSplit

\* A large index that is left over is taken off its list.
LEMMA DrainLargeStep ==
  ASSUME IInv, DrainLarge
  PROVE  IInv'
<1> DEFINE x == Last(large)
           S == Range(small)
           L == Range(large)
<1>1. /\ count' = count /\ weights' = weights /\ aliases' = aliases /\ error' = error
      /\ pc = "pair" /\ pc' = "pair" /\ large # <<>> /\ small = <<>>
      /\ large' = Front(large) /\ small' = small
  BY DEF DrainLarge
<1>2. Typed /\ WorklistsPartition
  BY DEF IInv
<1>3. Index' = Index /\ One' = One /\ Exact' = Exact
  BY <1>1, SameWeights
<1>4. /\ count \in Counts /\ count \in Nat /\ Index = 0 .. count - 1
      /\ One \in Int /\ Exact \in Columns(count)
  BY <1>2, WeightFacts DEF Typed
<1>5. /\ weights \in Columns(count) /\ probs \in Columns(count)
      /\ aliases \in [Index -> Index] /\ error \in Nat
      /\ small \in Seq(Index) /\ large \in Seq(Index)
  BY <1>2 DEF Typed
<1>6. /\ IsInjective(small) /\ IsInjective(large)
      /\ \A j \in S : weights[j] < One
      /\ \A j \in L : weights[j] >= One
      /\ \A j \in Index \ (S \cup L) : probs[j] = One \/ probs[j] = weights[j]
  BY <1>1, <1>2 DEF WorklistsPartition
<1>7. Range(small) = {} /\ Range(small') = {} /\ IsInjective(small')
  BY <1>1 DEF Range, IsInjective
<1>8. /\ large' \in Seq(Index) /\ IsInjective(large') /\ x \in L /\ x \in Index
      /\ Range(large') = L \ {x}
  BY <1>1, <1>5, <1>6, LastTaken
<1>9. S \subseteq Index /\ L \subseteq Index
  BY <1>5, RangeByPlace
<1>10. probs' = [probs EXCEPT ![x] = One]
  BY DEF DrainLarge
<1> DEFINE S1 == Range(small')
           L1 == Range(large')
<1>11. /\ S1 \cup L1 = (S \cup L) \ {x} /\ S1 \subseteq S /\ L1 \subseteq L
       /\ S = {} \/ L = {}
  BY <1>7, <1>8
<1> HIDE DEF x, S, L, S1, L1
<1>12. /\ probs' \in Columns(count) /\ probs'[x] = One
       /\ \A j \in 0 .. count - 1 : j # x => probs'[j] = probs[j]
  BY <1>4, <1>5, <1>8, <1>10 DEF Columns
<1>13. Typed'
  <2>1. small' \in Seq(Index) /\ large' \in Seq(Index)
    BY <1>1, <1>5, <1>8
  <2>2. QED
    BY <1>1, <1>3, <1>4, <1>5, <1>12, <2>1 DEF Typed
<1>14. WorklistsPartition'
  <2>1. ASSUME NEW j \in Index, j \notin (S \cup L) \ {x}
        PROVE  probs'[j] = One \/ probs'[j] = weights'[j]
    BY <1>1, <1>4, <1>6, <1>12, <2>1
  <2>2. IsInjective(small') /\ IsInjective(large') /\ S1 \cap L1 = {}
    BY <1>7, <1>8, <1>11 DEF S1, L1
  <2>3. /\ \A j \in S1 : weights'[j] < One
        /\ \A j \in L1 : weights'[j] >= One
    BY <1>1, <1>6, <1>11
  <2>4. QED
    BY <1>3, <1>11, <2>1, <2>2, <2>3 DEF WorklistsPartition, S1, L1
<1>15. TableBalanced'
  <2>1. Balanced(count, One, Exact, S, L, weights, probs, aliases, error)
    BY <1>1 DEF IInv, TableBalanced, S, L
  <2>2. Drained(count, One, S, L, S1, L1, x, weights, probs, probs')
    BY <1>4, <1>6, <1>8, <1>9, <1>11, <1>12 DEF Drained
  <2>3. Balanced(count, One, Exact, S1, L1, weights, probs', aliases, error)
    BY <1>4, <1>5, <1>12, <2>1, <2>2, BalancedByDrain
  <2>4. QED
    BY <1>1, <1>3, <2>3 DEF TableBalanced, S1, L1
<1>16. QED
  BY <1>1, <1>13, <1>14, <1>15 DEF IInv, ListsServe, PoolSplit

\* A small index that is left over is taken off its list.
LEMMA DrainSmallStep ==
  ASSUME IInv, DrainSmall
  PROVE  IInv'
<1> DEFINE x == Last(small)
           S == Range(small)
           L == Range(large)
<1>1. /\ count' = count /\ weights' = weights /\ aliases' = aliases /\ error' = error
      /\ pc = "pair" /\ pc' = "pair" /\ small # <<>> /\ large = <<>>
      /\ small' = Front(small) /\ large' = large
  BY DEF DrainSmall
<1>2. Typed /\ WorklistsPartition
  BY DEF IInv
<1>3. Index' = Index /\ One' = One /\ Exact' = Exact
  BY <1>1, SameWeights
<1>4. /\ count \in Counts /\ count \in Nat /\ Index = 0 .. count - 1
      /\ One \in Int /\ Exact \in Columns(count)
  BY <1>2, WeightFacts DEF Typed
<1>5. /\ weights \in Columns(count) /\ probs \in Columns(count)
      /\ aliases \in [Index -> Index] /\ error \in Nat
      /\ small \in Seq(Index) /\ large \in Seq(Index)
  BY <1>2 DEF Typed
<1>6. /\ IsInjective(small) /\ IsInjective(large)
      /\ \A j \in S : weights[j] < One
      /\ \A j \in L : weights[j] >= One
      /\ \A j \in Index \ (S \cup L) : probs[j] = One \/ probs[j] = weights[j]
  BY <1>1, <1>2 DEF WorklistsPartition
<1>7. Range(large) = {} /\ Range(large') = {} /\ IsInjective(large')
  BY <1>1 DEF Range, IsInjective
<1>8. /\ small' \in Seq(Index) /\ IsInjective(small') /\ x \in S /\ x \in Index
      /\ Range(small') = S \ {x}
  BY <1>1, <1>5, <1>6, LastTaken
<1>9. S \subseteq Index /\ L \subseteq Index
  BY <1>5, RangeByPlace
<1>10. probs' = [probs EXCEPT ![x] = One]
  BY DEF DrainSmall
<1> DEFINE S1 == Range(small')
           L1 == Range(large')
<1>11. /\ S1 \cup L1 = (S \cup L) \ {x} /\ S1 \subseteq S /\ L1 \subseteq L
       /\ S = {} \/ L = {}
  BY <1>7, <1>8
<1> HIDE DEF x, S, L, S1, L1
<1>12. /\ probs' \in Columns(count) /\ probs'[x] = One
       /\ \A j \in 0 .. count - 1 : j # x => probs'[j] = probs[j]
  BY <1>4, <1>5, <1>8, <1>10 DEF Columns
<1>13. Typed'
  <2>1. small' \in Seq(Index) /\ large' \in Seq(Index)
    BY <1>1, <1>5, <1>8
  <2>2. QED
    BY <1>1, <1>3, <1>4, <1>5, <1>12, <2>1 DEF Typed
<1>14. WorklistsPartition'
  <2>1. ASSUME NEW j \in Index, j \notin (S \cup L) \ {x}
        PROVE  probs'[j] = One \/ probs'[j] = weights'[j]
    BY <1>1, <1>4, <1>6, <1>12, <2>1
  <2>2. IsInjective(small') /\ IsInjective(large') /\ S1 \cap L1 = {}
    BY <1>7, <1>8, <1>11 DEF S1, L1
  <2>3. /\ \A j \in S1 : weights'[j] < One
        /\ \A j \in L1 : weights'[j] >= One
    BY <1>1, <1>6, <1>11
  <2>4. QED
    BY <1>3, <1>11, <2>1, <2>2, <2>3 DEF WorklistsPartition, S1, L1
<1>15. TableBalanced'
  <2>1. Balanced(count, One, Exact, S, L, weights, probs, aliases, error)
    BY <1>1 DEF IInv, TableBalanced, S, L
  <2>2. Drained(count, One, S, L, S1, L1, x, weights, probs, probs')
    BY <1>4, <1>6, <1>8, <1>9, <1>11, <1>12 DEF Drained
  <2>3. Balanced(count, One, Exact, S1, L1, weights, probs', aliases, error)
    BY <1>4, <1>5, <1>12, <2>1, <2>2, BalancedByDrain
  <2>4. QED
    BY <1>1, <1>3, <2>3 DEF TableBalanced, S1, L1
<1>16. QED
  BY <1>1, <1>13, <1>14, <1>15 DEF IInv, ListsServe, PoolSplit

\* With the table as it was and no step of the pairing, the first four parts of
\* the invariant stay.
LEMMA TableStays ==
  ASSUME IInv, UNCHANGED table, pc # "scale", small = <<>>, large = <<>>,
         pc' \in {"ready", "shuffle", "chosen"}
  PROVE  Typed' /\ WorklistsPartition' /\ ListsServe' /\ TableBalanced'
<1>1. /\ count' = count /\ weights' = weights /\ probs' = probs /\ aliases' = aliases
      /\ small' = small /\ large' = large /\ error' = error
  BY DEF table
<1>2. Index' = Index /\ One' = One /\ Exact' = Exact
  BY <1>1, SameWeights
<1>3. Typed'
  BY <1>1, <1>2 DEF IInv, Typed
<1>4. WorklistsPartition'
  BY <1>1, <1>2 DEF IInv, WorklistsPartition
<1>5. TableBalanced'
  BY <1>1, <1>2 DEF IInv, TableBalanced
<1>6. QED
  BY <1>1, <1>3, <1>4, <1>5 DEF ListsServe

\* The table is built: nothing of it changes.
LEMMA BuiltStep ==
  ASSUME IInv, Built
  PROVE  IInv'
<1>1. UNCHANGED table /\ pc = "pair" /\ pc' = "ready" /\ small = <<>> /\ large = <<>>
  BY DEF Built
<1>2. QED
  BY <1>1, TableStays DEF IInv, PoolSplit

\* A draw gives a degree of 1 .. K and a pool with each fragment once.
LEMMA DrawStep ==
  ASSUME IInv, Draw
  PROVE  IInv'
<1>1. /\ UNCHANGED table /\ pc = "ready" /\ pc' = "shuffle" /\ picked' = <<>>
      /\ remaining' = [i \in 1 .. count |-> i - 1]
  BY DEF Draw
<1>2. small = <<>> /\ large = <<>>
  BY <1>1 DEF IInv, ListsServe
<1>3. Typed' /\ WorklistsPartition' /\ ListsServe' /\ TableBalanced'
  BY <1>1, <1>2, TableStays
<1>4. Typed
  BY DEF IInv
<1>5. /\ count' = count /\ count \in Nat /\ count # 0 /\ Index = 0 .. count - 1
      /\ Index' = Index /\ aliases \in [Index -> Index]
  <2>1. count' = count
    BY <1>1 DEF table
  <2>2. QED
    BY <1>4, <2>1, WeightFacts, SameWeights DEF Typed
<1>6. degree' \in 1 .. count
  <2>1. PICK tick \in 0 .. Ticks, r2 \in 0 .. One :
          degree' = (IF r2 < probs[ScaledInt(tick, count)]
                     THEN ScaledInt(tick, count) ELSE aliases[ScaledInt(tick, count)]) + 1
    BY DEF Draw
  <2> DEFINE i == ScaledInt(tick, count)
  <2>2. i \in 0 .. count - 1
    BY <1>5, ScaledIntIsIndex
  <2> HIDE DEF i
  <2>3. aliases[i] \in 0 .. count - 1
    BY <1>5, <2>2
  <2>4. degree' = i + 1 \/ degree' = aliases[i] + 1
    BY <2>1 DEF i
  <2>5. \A y \in 0 .. count - 1 : y + 1 \in 1 .. count
    BY <1>5
  <2>6. QED
    BY <2>2, <2>3, <2>4, <2>5
<1>7. picked' \in Seq(Index) /\ IsInjective(picked') /\ Range(picked') = {} /\ Len(picked') = 0
  BY <1>1 DEF IsInjective, Range
<1>8. /\ remaining' \in Seq(Index) /\ Len(remaining') = count
      /\ IsInjective(remaining') /\ Range(remaining') = Index
  <2> DEFINE r == [i \in 1 .. count |-> i - 1]
  <2>1. r \in [1 .. count -> Index]
    BY <1>5
  <2>2. r \in Seq(Index) /\ Len(r) = count
    BY <1>5, <2>1
  <2>3. IsInjective(r)
    BY <1>5 DEF IsInjective
  <2>4. Range(r) = Index
    <3>1. \A j \in Index : j + 1 \in 1 .. count /\ r[j + 1] = j
      BY <1>5
    <3>2. \A i \in 1 .. count : r[i] \in Index
      BY <2>1
    <3>3. DOMAIN r = 1 .. count
      OBVIOUS
    <3> HIDE DEF r
    <3>4. QED
      BY <3>1, <3>2, <3>3 DEF Range
  <2>5. QED
    BY <1>1, <2>2, <2>3, <2>4
<1>9. PoolSplit'
  <2>1. Len(picked') + Len(remaining') = count /\ Len(picked') <= degree'
    BY <1>5, <1>6, <1>7, <1>8
  <2>2. /\ Range(picked') \cap Range(remaining') = {}
        /\ Range(picked') \cup Range(remaining') = Index
    BY <1>7, <1>8
  <2>3. QED
    BY <1>1, <1>5, <1>6, <1>7, <1>8, <2>1, <2>2 DEF PoolSplit
<1>10. QED
  BY <1>3, <1>9 DEF IInv

\* A pick moves one fragment out of the pool.
LEMMA PickStep ==
  ASSUME IInv, Pick
  PROVE  IInv'
<1>1. /\ UNCHANGED table /\ pc = "shuffle" /\ pc' = "shuffle" /\ degree' = degree
      /\ remaining # <<>> /\ Len(picked) < degree
  BY DEF Pick
<1>2. small = <<>> /\ large = <<>>
  BY <1>1 DEF IInv, ListsServe
<1>3. Typed' /\ WorklistsPartition' /\ ListsServe' /\ TableBalanced'
  BY <1>1, <1>2, TableStays
<1>4. /\ count' = count /\ Index' = Index
  <2>1. count' = count
    BY <1>1 DEF table
  <2>2. QED
    BY <2>1, SameWeights
<1>5. /\ degree \in 1 .. count /\ picked \in Seq(Index) /\ remaining \in Seq(Index)
      /\ IsInjective(picked) /\ IsInjective(remaining)
      /\ Range(picked) \cap Range(remaining) = {}
      /\ Range(picked) \cup Range(remaining) = Index
      /\ Len(picked) + Len(remaining) = count
  BY <1>1 DEF IInv, PoolSplit
<1>6. Len(remaining) \in Nat \ {0} /\ Len(picked) \in Nat
  BY <1>1, <1>5, EmptySeq, LenProperties
<1>7. PICK tick \in 0 .. Ticks :
        /\ picked' = Append(picked, remaining[ScaledInt(tick, Len(remaining)) + 1])
        /\ remaining' = RemoveAt(remaining, ScaledInt(tick, Len(remaining)) + 1)
  BY DEF Pick
<1> DEFINE i == ScaledInt(tick, Len(remaining)) + 1
           x == remaining[i]
<1>8. i \in 1 .. Len(remaining)
  BY <1>6, ScaledIntIsIndex
<1> HIDE DEF i
<1>9. x \in Index /\ x \in Range(remaining)
  BY <1>5, <1>8, RangeByPlace
<1>10. x \notin Range(picked)
  BY <1>5, <1>9
<1>11. picked' = Append(picked, x) /\ remaining' = RemoveAt(remaining, i)
  BY <1>7 DEF i
<1>12. /\ remaining' \in Seq(Index) /\ IsInjective(remaining')
       /\ Range(remaining') = Range(remaining) \ {x} /\ Len(remaining') = Len(remaining) - 1
  BY <1>5, <1>8, <1>11, Removed
<1> HIDE DEF x
<1>13. /\ picked' \in Seq(Index) /\ IsInjective(picked')
       /\ Range(picked') = Range(picked) \cup {x} /\ Len(picked') = Len(picked) + 1
  BY <1>5, <1>9, <1>10, <1>11, Appended
<1>14. /\ Range(picked') \cap Range(remaining') = {}
       /\ Range(picked') \cup Range(remaining') = Index
  BY <1>5, <1>9, <1>12, <1>13
<1>15. Len(picked') + Len(remaining') = count /\ Len(picked') <= degree
  BY <1>1, <1>5, <1>6, <1>12, <1>13
<1>16. PoolSplit'
  BY <1>1, <1>4, <1>5, <1>12, <1>13, <1>14, <1>15 DEF PoolSplit
<1>17. QED
  BY <1>3, <1>16 DEF IInv

\* The choice is made with as many as the degree: an empty pool has given all K.
LEMMA ChosenStep ==
  ASSUME IInv, Chosen
  PROVE  IInv'
<1>1. /\ UNCHANGED table /\ pc = "shuffle" /\ pc' = "chosen" /\ degree' = degree
      /\ picked' = picked /\ remaining' = remaining
      /\ remaining = <<>> \/ Len(picked) = degree
  BY DEF Chosen
<1>2. small = <<>> /\ large = <<>>
  BY <1>1 DEF IInv, ListsServe
<1>3. Typed' /\ WorklistsPartition' /\ ListsServe' /\ TableBalanced'
  BY <1>1, <1>2, TableStays
<1>4. count' = count /\ Index' = Index
  <2>1. count' = count
    BY <1>1 DEF table
  <2>2. QED
    BY <2>1, SameWeights
<1>5. Len(picked) = degree
  <2>1. /\ degree \in 1 .. count /\ Len(picked) <= degree /\ picked \in Seq(Index)
        /\ Len(picked) + Len(remaining) = count
    BY <1>1 DEF IInv, PoolSplit
  <2>2. Len(picked) \in Nat
    BY <2>1, LenProperties
  <2>3. CASE remaining = <<>>
    <3>1. Len(remaining) = 0
      BY <2>3, EmptySeq
    <3>2. count \in Nat
      BY WeightFacts DEF IInv, Typed
    <3>3. QED
      BY <2>1, <2>2, <3>1, <3>2
  <2>4. QED
    BY <1>1, <2>3
<1>6. PoolSplit'
  BY <1>1, <1>4, <1>5 DEF IInv, PoolSplit
<1>7. QED
  BY <1>3, <1>6 DEF IInv

\* The table is kept for the next choice.
LEMMA AgainStep ==
  ASSUME IInv, Again
  PROVE  IInv'
<1>1. UNCHANGED table /\ pc = "chosen" /\ pc' = "ready"
  BY DEF Again
<1>2. small = <<>> /\ large = <<>>
  BY <1>1 DEF IInv, ListsServe
<1>3. QED
  BY <1>1, <1>2, TableStays DEF IInv, PoolSplit

\* Every step keeps the invariant.
LEMMA NextIInv == IInv /\ [Next]_vars => IInv'
<1> SUFFICES ASSUME IInv, [Next]_vars PROVE IInv'
  OBVIOUS
<1>1. CASE Scale
  BY <1>1, ScaleStep
<1>2. CASE Pair
  BY <1>2, PairStep
<1>3. CASE DrainLarge
  BY <1>3, DrainLargeStep
<1>4. CASE DrainSmall
  BY <1>4, DrainSmallStep
<1>5. CASE Built
  BY <1>5, BuiltStep
<1>6. CASE Draw
  BY <1>6, DrawStep
<1>7. CASE Pick
  BY <1>7, PickStep
<1>8. CASE Chosen
  BY <1>8, ChosenStep
<1>9. CASE Again
  BY <1>9, AgainStep
<1>10. CASE UNCHANGED vars
  <2>1. /\ count' = count /\ weights' = weights /\ probs' = probs /\ aliases' = aliases
        /\ small' = small /\ large' = large /\ error' = error /\ pc' = pc
        /\ degree' = degree /\ remaining' = remaining /\ picked' = picked
    BY <1>10 DEF vars, table
  <2>2. Index' = Index /\ One' = One /\ Exact' = Exact
    BY <2>1, SameWeights
  <2>3. Typed'
    BY <2>1, <2>2 DEF IInv, Typed
  <2>4. WorklistsPartition'
    BY <2>1, <2>2 DEF IInv, WorklistsPartition
  <2>5. ListsServe' /\ PoolSplit'
    BY <2>1, <2>2 DEF IInv, ListsServe, PoolSplit
  <2>6. TableBalanced'
    BY <2>1, <2>2 DEF IInv, TableBalanced
  <2>7. QED
    BY <2>3, <2>4, <2>5, <2>6 DEF IInv
<1>11. QED
  BY <1>1, <1>2, <1>3, <1>4, <1>5, <1>6, <1>7, <1>8, <1>9, <1>10 DEF Next

-----------------------------------------------------------------------------
(* Theorems *)

\* The inductive invariant holds.
THEOREM ChooserInvariance == Spec => []IInv
BY InitIInv, NextIInv, PTL DEF Spec

\* The pairing of Sampler::new neither drops an index nor sets one twice: for
\* every K and every rounding.
THEOREM WorklistsHold == Spec => []WorklistsPartition
<1>1. IInv => WorklistsPartition
  BY DEF IInv
<1>2. QED
  BY <1>1, ChooserInvariance, PTL

\* The table of Sampler::new has the distribution of its weights, exactly but for
\* the sum of the rounding errors: for every K and every unit of the weights.
THEOREM TableHolds == Spec => []TableIsExact
<1>1. IInv => TableIsExact
  <2> SUFFICES ASSUME IInv, pc = "ready", NEW d \in Index
               PROVE  Abs(Mass(d) - Exact[d]) <= error
    BY DEF TableIsExact
  <2>1. Typed
    BY DEF IInv
  <2>2. /\ count \in Nat /\ Index = 0 .. count - 1 /\ One \in Int
        /\ Exact \in Columns(count) /\ probs \in Columns(count) /\ error \in Nat
    BY <2>1, WeightFacts DEF Typed
  <2>3. Range(small) = {} /\ Range(large) = {}
    <3>1. small = <<>> /\ large = <<>>
      BY DEF IInv, ListsServe
    <3>2. QED
      BY <3>1 DEF Range
  <2>4. Balanced(count, One, Exact, {}, {}, weights, probs, aliases, error)
    BY <2>3 DEF IInv, TableBalanced
  <2>5. Abs((probs[d] + Sum(count, Given(count, One, {}, probs, aliases, d))) - Exact[d])
          <= error
    BY <2>2, <2>4, BalancedWhenDone
  <2>6. Given(count, One, {}, probs, aliases, d)
          = [j \in Index |-> IF aliases[j] = d THEN One - probs[j] ELSE 0]
    BY <2>2 DEF Given
  <2>7. QED
    BY <2>5, <2>6 DEF Mass
<1>2. QED
  BY <1>1, ChooserInvariance, PTL

\* FragmentChooser::choose gives as many different fragments of the K as the
\* degree it drew, 1 .. K: what the fountain assumes of Mixed.
THEOREM ChoiceHolds == Spec => []ChoosesFragments
<1>1. IInv => ChoosesFragments
  <2> SUFFICES ASSUME IInv, pc = "chosen"
               PROVE  /\ degree \in 1 .. count /\ IsInjective(picked)
                      /\ Cardinality(Range(picked)) = degree
                      /\ Range(picked) \subseteq Index
                      /\ Range(picked) \cup Range(remaining) = Index
    BY DEF ChoosesFragments
  <2>1. /\ degree \in 1 .. count /\ picked \in Seq(Index) /\ IsInjective(picked)
        /\ Range(picked) \cup Range(remaining) = Index /\ Len(picked) = degree
    BY DEF IInv, PoolSplit
  <2>2. Cardinality(Range(picked)) = degree
    BY <2>1, InjectiveCounts
  <2>3. QED
    BY <2>1, <2>2
<1>2. QED
  BY <1>1, ChooserInvariance, PTL
=============================================================================
