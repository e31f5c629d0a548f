------------------------------- MODULE Chooser ------------------------------
(***************************************************************************)
(* FragmentChooser, its alias sampler and the remove-shuffle: which        *)
(* fragments a sequence number above K mixes.                              *)
(*                                                                         *)
(* `new` builds the table of a stream once: the weights 1/x of the degrees *)
(* x = 1 .. K are scaled to the mean One and paired, an index under the    *)
(* mean with one over it.  `choose` draws a degree from the table, then    *)
(* that many fragments from a shrinking pool.                              *)
(*                                                                         *)
(* The weights are f64 in the code and integers here, in units of 1/One.   *)
(* The error of an operation is a choice of Errors, so the branch on a     *)
(* weight next to the mean may go either way.  The generator's words are   *)
(* choices.                                                                *)
(***************************************************************************)
EXTENDS Integers, Sequences, FiniteSets, SequencesExt

CONSTANTS
  Counts,      \* values of K
  Unit,        \* for each K a common multiple of 1 .. K: weights are whole in it
  Errors,      \* rounding errors of an operation on weights
  MaxError,    \* bound: rounding errors of one table, added up
  Ticks        \* resolution of next_double: Ticks stands for 1.0

ASSUME ChooserAssumption ==
  /\ Counts \subseteq Nat \ {0}
  /\ Unit \in [Counts -> Nat \ {0}]
  /\ \A k \in Counts : \A x \in 1 .. k : Unit[k] % x = 0
  /\ Errors \subseteq Int /\ 0 \in Errors
  /\ MaxError \in Nat /\ Ticks \in Nat \ {0}

VARIABLES
  count,       \* K
  weights, probs, aliases,
  small, large,           \* the worklists `s` and `l`
  pc,          \* "scale", "pair", "rest", "ready", "shuffle", "chosen"
  error,       \* history: the rounding errors, added up
  degree,      \* fragments to pick
  remaining, picked       \* the pool of the shuffle, and what it gave

table == <<count, weights, probs, aliases, small, large, error>>
vars == <<table, pc, degree, remaining, picked>>

Index == 0 .. count - 1

Abs(x) == IF x < 0 THEN -x ELSE x

\* f[0] + ... + f[k - 1]
Sum(k, f) ==
  LET upto[n \in 0 .. k] == IF n = 0 THEN 0 ELSE upto[n - 1] + f[n - 1]
  IN  upto[k]

\* The weight 1/x of degree x = j + 1.
Harmonic == [j \in Index |-> Unit[count] \div (j + 1)]

\* The mean of the scaled weights; the weight of degree j + 1 is exactly Exact[j].
One == Sum(count, Harmonic)
Exact == [j \in Index |-> Harmonic[j] * count]

Init ==
  /\ count \in Counts
  /\ weights = Exact
  /\ probs = [j \in Index |-> 0] /\ aliases = [j \in Index |-> 0]
  /\ small = <<>> /\ large = <<>>
  /\ pc = "scale" /\ error = 0
  /\ degree = 0 /\ remaining = <<>> /\ picked = <<>>

-----------------------------------------------------------------------------
(* Sampler::new *)

\* The indexes of S from the last to the first.
Descending(S) ==
  CHOOSE s \in [1 .. Cardinality(S) -> S] :
    \A i, k \in 1 .. Cardinality(S) : i < k => s[i] > s[k]

\* The weights are scaled, and the indexes split by the mean.
Scale ==
  /\ pc = "scale"
  /\ \E e \in [Index -> Errors] :
       /\ Sum(count, [j \in Index |-> Abs(e[j])]) <= MaxError
       /\ weights' = [j \in Index |-> Exact[j] + e[j]]
       /\ error' = Sum(count, [j \in Index |-> Abs(e[j])])
  /\ small' = Descending({j \in Index : weights'[j] < One})
  /\ large' = Descending({j \in Index : weights'[j] >= One})
  /\ pc' = "pair"
  /\ UNCHANGED <<count, probs, aliases, degree, remaining, picked>>

PairMutant ==      \* the large index is always taken to stay large
  /\ pc = "pair" /\ small # <<>> /\ large # <<>>
  /\ LET a == Last(small)
         g == Last(large)
     IN /\ probs' = [probs EXCEPT ![a] = weights[a]]
        /\ aliases' = [aliases EXCEPT ![a] = g]
        /\ weights' = [weights EXCEPT ![g] = weights[g] + weights[a] - One]
        /\ small' = Front(small) /\ UNCHANGED <<large, error>>
  /\ UNCHANGED <<count, pc, degree, remaining, picked>>

PairForgets ==      \* g keeps its weight
  /\ pc = "pair" /\ small # <<>> /\ large # <<>>
  /\ LET a == Last(small)
     IN /\ probs' = [probs EXCEPT ![a] = weights[a]]
        /\ aliases' = [aliases EXCEPT ![a] = Last(large)]
        /\ small' = Front(small) /\ UNCHANGED <<weights, large, error>>
  /\ UNCHANGED <<count, pc, degree, remaining, picked>>

\* One round of the pairing: the small index a takes g as its alias, and what
\* a lacks comes off g, which is put back on the list it now belongs to.
Pair ==
  /\ pc = "pair" /\ small # <<>> /\ large # <<>>
  /\ LET a == Last(small)
         g == Last(large)
     IN /\ probs' = [probs EXCEPT ![a] = weights[a]]
        /\ aliases' = [aliases EXCEPT ![a] = g]
        /\ \E e \in Errors :
             /\ error' = error + Abs(e) /\ error' <= MaxError
             /\ weights' = [weights EXCEPT ![g] = weights[g] + weights[a] - One + e]
        /\ IF weights'[g] < One
           THEN small' = Append(Front(small), g) /\ large' = Front(large)
           ELSE small' = Front(small) /\ UNCHANGED large
  /\ UNCHANGED <<count, pc, degree, remaining, picked>>

\* What is left when one list is empty keeps all of its own column.
DrainLarge ==
  /\ pc = "pair" /\ small = <<>> /\ large # <<>>
  /\ probs' = [probs EXCEPT ![Last(large)] = One]
  /\ large' = Front(large)
  /\ UNCHANGED <<count, weights, aliases, small, error, pc, degree, remaining, picked>>

DrainSmall ==
  /\ pc = "pair" /\ large = <<>> /\ small # <<>>
  /\ probs' = [probs EXCEPT ![Last(small)] = One]
  /\ small' = Front(small)
  /\ UNCHANGED <<count, weights, aliases, large, error, pc, degree, remaining, picked>>

Built ==
  /\ pc = "pair" /\ small = <<>> /\ large = <<>>
  /\ pc' = "ready"
  /\ UNCHANGED <<table, degree, remaining, picked>>

-----------------------------------------------------------------------------
(* choose *)

ScaledIntMutant(tick, len) == (tick * len) \div Ticks      \* not clamped
\* scaled_int(next_double(), 0, len - 1): the draw 1.0 is clamped
ScaledInt(tick, len) ==
  LET i == (tick * len) \div Ticks IN IF i < len - 1 THEN i ELSE len - 1

\* Sampler::next: a column, then the index or its alias; then a full pool.
\* A draw r2 of One stands for 1.0.
Draw ==
  /\ pc = "ready"
  /\ \E tick \in 0 .. Ticks, r2 \in 0 .. One :
       LET i == ScaledInt(tick, count)
       IN  degree' = (IF r2 < probs[i] THEN i ELSE aliases[i]) + 1
  /\ remaining' = [i \in 1 .. count |-> i - 1]
  /\ picked' = <<>>
  /\ pc' = "shuffle"
  /\ UNCHANGED table

PickMutant ==      \* the picked fragment stays in the pool
  /\ pc = "shuffle" /\ remaining # <<>> /\ Len(picked) < degree
  /\ \E tick \in 0 .. Ticks :
       picked' = Append(picked, remaining[ScaledInt(tick, Len(remaining)) + 1])
  /\ UNCHANGED <<table, pc, degree, remaining>>

\* One round of shuffled
Pick ==
  /\ pc = "shuffle" /\ remaining # <<>> /\ Len(picked) < degree
  /\ \E tick \in 0 .. Ticks :
       LET i == ScaledInt(tick, Len(remaining)) + 1
       IN /\ picked' = Append(picked, remaining[i])
          /\ remaining' = RemoveAt(remaining, i)
  /\ UNCHANGED <<table, pc, degree>>

\* The indexes are returned, sorted: a set.
Chosen ==
  /\ pc = "shuffle" /\ (remaining = <<>> \/ Len(picked) = degree)
  /\ pc' = "chosen"
  /\ UNCHANGED <<table, degree, remaining, picked>>

\* The table serves the next sequence number.
Again ==
  /\ pc = "chosen" /\ pc' = "ready"
  /\ degree' = 0 /\ remaining' = <<>> /\ picked' = <<>>
  /\ UNCHANGED table

Next == Scale \/ Pair \/ DrainLarge \/ DrainSmall \/ Built \/ Draw \/ Pick \/ Chosen \/ Again

Spec == Init /\ [][Next]_vars

-----------------------------------------------------------------------------
(* Properties *)

TypeOK ==
  /\ count \in Counts
  /\ \A j \in Index : weights[j] \in Nat /\ probs[j] \in 0 .. One
  /\ Range(aliases) \subseteq Index
  /\ small \in Seq(Index) /\ large \in Seq(Index)
  /\ error \in 0 .. MaxError
  /\ degree \in 0 .. count
  /\ remaining \in Seq(Index) /\ picked \in Seq(Index)

\* Each index is on one list, once, until it gets its probability, and the
\* lists hold what their names say.  So the loop neither drops an index nor
\* sets one twice, whichever way rounding sends it.
WorklistsPartition ==
  /\ IsInjective(small) /\ IsInjective(large)
  /\ Range(small) \cap Range(large) = {}
  /\ \A j \in Range(small) : weights[j] < One
  /\ \A j \in Range(large) : weights[j] >= One
  /\ pc = "pair" => \A j \in Index \ (Range(small) \cup Range(large)) :
                      probs[j] = One \/ probs[j] = weights[j]

\* The share of the draws that give index d, in units of 1 / (count * One).
Mass(d) ==
  probs[d] + Sum(count, [j \in Index |-> IF aliases[j] = d THEN One - probs[j] ELSE 0])

\* The table has the distribution it was built from: exactly but for the
\* errors made, by no more than their sum.
TableIsExact ==
  pc = "ready" => \A d \in Index : Abs(Mass(d) - Exact[d]) <= error

\* What `choose` returns for a mixed part is 1 .. K different fragments of the
\* K, as many as the degree drawn: also at the draw 1.0, which is past every
\* probability and every index.  This is what the fountain decoder assumes of
\* its choice.
ChoosesFragments ==
  pc = "chosen" =>
    /\ degree \in 1 .. count
    /\ IsInjective(picked)
    /\ Cardinality(Range(picked)) = degree
    /\ Range(picked) \subseteq Index
    /\ Range(picked) \cup Range(remaining) = Index
=============================================================================
