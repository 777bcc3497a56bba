--------------------------- MODULE ReportingProofs ---------------------------
(***************************************************************************)
(* Proofs about what is reported of runs: RunReport and ExportedRuns, for   *)
(* any manifest, rows, policies and exporters, and CalibrationHistory and   *)
(* HostGate, for any labeled sets, floors, bounds and answers.              *)
(***************************************************************************)

EXTENDS ExportedRuns, HostGate, FiniteSetTheorems, TLAPS

(***************************************************************************)
(* Finite sets and sums.  The induction theorems of the library are about  *)
(* an operator; what follows is about sets: the sets that are good.        *)
(***************************************************************************)
\* Of the subsets of a finite set that are not good, one is smallest.
LEMMA SmallestBad ==
  ASSUME NEW S, IsFiniteSet(S), NEW Bad \in SUBSET SUBSET S, Bad # {}
  PROVE  \E T \in Bad : \A U \in SUBSET T : U # T => U \notin Bad
<1>1. IsWellFoundedOn(StrictSubsetOrdering(S), SUBSET S)
  BY FS_StrictSubsetOrderingWellFounded, FS_FiniteSubsetsOfFinite
<1>2. PICK T \in Bad : \A U \in Bad : ~(<<U, T>> \in StrictSubsetOrdering(S))
  BY <1>1, WFMin
<1>3. ASSUME NEW U \in SUBSET T, U # T, U \in Bad PROVE FALSE
  BY <1>2, <1>3 DEF StrictSubsetOrdering
<1> QED
  BY <1>3

\* Induction: the empty set is good, and so is a good set with one element more.
LEMMA AllGood ==
  ASSUME NEW S, IsFiniteSet(S), NEW Good, {} \in Good,
         \A T \in SUBSET S : \A x \in S \ T : T \in Good => T \union {x} \in Good
  PROVE  SUBSET S \subseteq Good
<1> DEFINE Bad == (SUBSET S) \ Good
<1> SUFFICES ASSUME Bad # {} PROVE FALSE
  OBVIOUS
<1>0. Bad \in SUBSET SUBSET S
  OBVIOUS
<1> HIDE DEF Bad
<1>1. PICK T \in Bad : \A U \in SUBSET T : U # T => U \notin Bad
  BY <1>0, SmallestBad
<1> USE DEF Bad
<1>2. PICK x : x \in T
  BY <1>1
<1>3. T \ {x} \in Good /\ T \ {x} \in SUBSET S /\ x \in S \ (T \ {x})
  BY <1>1, <1>2
<1>4. (T \ {x}) \union {x} = T
  BY <1>2
<1> QED
  BY <1>1, <1>3, <1>4

\* The element a fold takes next.
Picked(s) == CHOOSE x \in s : TRUE

\* g has the sum of v over every subset of S.
SumsUp(g, v, S) ==
  /\ g \in [SUBSET S -> Int]
  /\ g[{}] = 0
  /\ \A T \in SUBSET S : \A x \in T : g[T] = v[x] + g[T \ {x}]

\* Every function to the integers can be summed up over a finite set.
LEMMA SumsExist ==
  ASSUME NEW S, IsFiniteSet(S), NEW v, \A x \in S : v[x] \in Int
  PROVE  \E g : SumsUp(g, v, S)
<1> DEFINE Good == {T \in SUBSET S : \E g : SumsUp(g, v, T)}
<1>1. {} \in Good
  <2>1. SumsUp([T \in SUBSET {} |-> 0], v, {})
    BY DEF SumsUp
  <2> QED
    BY <2>1
<1>2. ASSUME NEW T \in SUBSET S, NEW x \in S \ T, T \in Good
      PROVE  T \union {x} \in Good
  <2>1. PICK g : SumsUp(g, v, T)
    BY <1>2
  <2> DEFINE Tx == T \union {x}
             h == [U \in SUBSET Tx |-> IF x \in U THEN v[x] + g[U \ {x}] ELSE g[U]]
  <2>2. h \in [SUBSET Tx -> Int]
    <3> SUFFICES ASSUME NEW U \in SUBSET Tx
                 PROVE  (IF x \in U THEN v[x] + g[U \ {x}] ELSE g[U]) \in Int
      OBVIOUS
    <3>1. v[x] \in Int /\ U \ {x} \in SUBSET T
      OBVIOUS
    <3>2. g[U \ {x}] \in Int
      BY <2>1, <3>1 DEF SumsUp
    <3>3. x \notin U => U = U \ {x}
      OBVIOUS
    <3>4. CASE x \in U
      BY <3>1, <3>2, <3>4
    <3>5. CASE x \notin U
      BY <3>2, <3>3, <3>5
    <3> QED
      BY <3>4, <3>5
  <2>3. h[{}] = 0
    BY <2>1 DEF SumsUp
  <2>4. ASSUME NEW U \in SUBSET Tx, NEW y \in U
        PROVE  h[U] = v[y] + h[U \ {y}]
    <3>1. U \ {y} \in SUBSET Tx /\ U \ {x} \in SUBSET T
      OBVIOUS
    <3>2. v[x] \in Int /\ v[y] \in Int
      OBVIOUS
    <3>3. CASE y = x
      <4>1. h[U] = v[x] + g[U \ {x}] /\ h[U \ {y}] = g[U \ {x}]
        BY <3>1, <3>3
      <4> QED
        BY <3>3, <4>1
    <3>4. CASE y # x /\ x \in U
      <4>1. h[U] = v[x] + g[U \ {x}]
        BY <3>4
      <4>3. (U \ {y}) \ {x} = (U \ {x}) \ {y} /\ y \in U \ {x}
        BY <3>4
      <4>2. h[U \ {y}] = v[x] + g[(U \ {x}) \ {y}]
        BY <3>1, <3>4, <4>3
      <4>4. g[U \ {x}] = v[y] + g[(U \ {x}) \ {y}] /\ g[(U \ {x}) \ {y}] \in Int
        BY <2>1, <3>1, <4>3 DEF SumsUp
      <4> HIDE DEF h
      <4> QED
        BY <3>2, <4>1, <4>2, <4>4
    <3>5. CASE y # x /\ x \notin U
      <4>1. h[U] = g[U] /\ h[U \ {y}] = g[U \ {y}] /\ U \in SUBSET T
        BY <3>1, <3>5
      <4> QED
        BY <2>1, <4>1 DEF SumsUp
    <3> QED
      BY <3>3, <3>4, <3>5
  <2> HIDE DEF h
  <2>5. SumsUp(h, v, Tx)
    BY <2>2, <2>3, <2>4 DEF SumsUp
  <2> QED
    BY <2>5
<1> HIDE DEF Good
<1>3. S \in Good
  BY <1>1, <1>2, AllGood
<1> QED
  BY <1>3 DEF Good

\* The recursion of Functions!SumFunctionOnSet.
Folded(k, v, S) ==
  k = [s \in SUBSET S |-> IF s = {} THEN 0 ELSE v[Picked(s)] + k[s \ {Picked(s)}]]

\* That recursion has one solution, and it is the sum.
LEMMA FoldsAreSums ==
  ASSUME NEW S, IsFiniteSet(S), NEW v, NEW g, SumsUp(g, v, S)
  PROVE  /\ Folded(g, v, S)
         /\ \A k : Folded(k, v, S) => k[S] = g[S]
<1>1. \A s \in SUBSET S : s # {} => Picked(s) \in s
  BY DEF Picked
<1>2. Folded(g, v, S)
  BY <1>1 DEF SumsUp, Folded
<1>3. ASSUME NEW k, Folded(k, v, S) PROVE k[S] = g[S]
  <2> DEFINE Bad == {T \in SUBSET S : k[T] # g[T]}
  <2>1. SUFFICES ASSUME Bad # {} PROVE FALSE
    OBVIOUS
  <2>0. Bad \in SUBSET SUBSET S
    OBVIOUS
  <2> HIDE DEF Bad
  <2>2. PICK T \in Bad : \A U \in SUBSET T : U # T => U \notin Bad
    BY <2>0, <2>1, SmallestBad
  <2> USE DEF Bad
  <2>3. T # {}
    BY <2>2, <1>3 DEF Folded, SumsUp
  <2>4. Picked(T) \in T /\ T \in SUBSET S
    BY <1>1, <2>2, <2>3
  <2>5. k[T] = v[Picked(T)] + k[T \ {Picked(T)}]
    BY <1>3, <2>3, <2>4 DEF Folded
  <2>6. g[T] = v[Picked(T)] + g[T \ {Picked(T)}]
    BY <2>4 DEF SumsUp
  <2>7. k[T \ {Picked(T)}] = g[T \ {Picked(T)}]
    BY <2>2, <2>4
  <2> QED
    BY <2>2, <2>5, <2>6, <2>7
<1> QED
  BY <1>2, <1>3

\* SumFunctionOnSet is that sum.
LEMMA SumIsTheSum ==
  ASSUME NEW S, IsFiniteSet(S), NEW v, NEW g, SumsUp(g, v, S)
  PROVE  SumFunctionOnSet(v, S) = g[S]
<1> DEFINE P(k) == k = [s \in SUBSET S |->
             IF s = {} THEN 0
             ELSE v[CHOOSE x \in s : TRUE] + k[s \ {CHOOSE x \in s : TRUE}]]
<1>1. SumFunctionOnSet(v, S) = (CHOOSE k : P(k))[S]
  BY Zenon DEF SumFunctionOnSet, FoldFunctionOnSet, MapThenFoldSet
<1>2. \A k : P(k) <=> Folded(k, v, S)
  BY Zenon DEF Folded, Picked
<1>3. Folded(g, v, S) /\ \A k : Folded(k, v, S) => k[S] = g[S]
  BY FoldsAreSums
<1> HIDE DEF P
<1>4. P(CHOOSE k : P(k))
  BY <1>2, <1>3, Zenon
<1> QED
  BY <1>1, <1>2, <1>3, <1>4

\* What a sum is, for a part of a finite set.
LEMMA SumFacts ==
  ASSUME NEW S, IsFiniteSet(S), NEW v, \A x \in S : v[x] \in Int
  PROVE  /\ SumFunctionOnSet(v, {}) = 0
         /\ \A T \in SUBSET S : SumFunctionOnSet(v, T) \in Int
         /\ \A T \in SUBSET S : \A x \in T :
              SumFunctionOnSet(v, T) = v[x] + SumFunctionOnSet(v, T \ {x})
<1>1. PICK g : SumsUp(g, v, S)
  BY SumsExist
<1>2. ASSUME NEW T \in SUBSET S PROVE SumFunctionOnSet(v, T) = g[T]
  <2> DEFINE h == [U \in SUBSET T |-> g[U]]
  <2>1. SumsUp(h, v, T)
    BY <1>1 DEF SumsUp
  <2>2. IsFiniteSet(T)
    BY FS_Subset
  <2> HIDE DEF h
  <2>3. SumFunctionOnSet(v, T) = h[T]
    BY <2>1, <2>2, SumIsTheSum
  <2> QED
    BY <2>3 DEF h
<1> QED
  BY <1>1, <1>2 DEF SumsUp

\* Two functions that agree on a set have the same sum over it, and the sum of the
\* negatives is the negative of the sum.
LEMMA SumsCompared ==
  ASSUME NEW S, IsFiniteSet(S), NEW v, NEW w, \A x \in S : v[x] \in Int /\ w[x] \in Int
  PROVE  /\ (\A x \in S : w[x] = v[x]) => SumFunctionOnSet(w, S) = SumFunctionOnSet(v, S)
         /\ (\A x \in S : w[x] = -v[x]) => SumFunctionOnSet(w, S) = -SumFunctionOnSet(v, S)
<1> DEFINE Same == {T \in SUBSET S : SumFunctionOnSet(w, T) = SumFunctionOnSet(v, T)}
           Opposite == {T \in SUBSET S : SumFunctionOnSet(w, T) = -SumFunctionOnSet(v, T)}
<1>1. /\ SumFunctionOnSet(v, {}) = 0 /\ SumFunctionOnSet(w, {}) = 0
      /\ \A T \in SUBSET S : SumFunctionOnSet(v, T) \in Int /\ SumFunctionOnSet(w, T) \in Int
      /\ \A T \in SUBSET S : \A x \in T :
           /\ SumFunctionOnSet(v, T) = v[x] + SumFunctionOnSet(v, T \ {x})
           /\ SumFunctionOnSet(w, T) = w[x] + SumFunctionOnSet(w, T \ {x})
  <2>1. (\A x \in S : v[x] \in Int) /\ (\A x \in S : w[x] \in Int)
    OBVIOUS
  <2>2. /\ SumFunctionOnSet(v, {}) = 0
        /\ \A T \in SUBSET S : SumFunctionOnSet(v, T) \in Int
        /\ \A T \in SUBSET S : \A x \in T :
             SumFunctionOnSet(v, T) = v[x] + SumFunctionOnSet(v, T \ {x})
    BY <2>1, SumFacts
  <2>3. /\ SumFunctionOnSet(w, {}) = 0
        /\ \A T \in SUBSET S : SumFunctionOnSet(w, T) \in Int
        /\ \A T \in SUBSET S : \A x \in T :
             SumFunctionOnSet(w, T) = w[x] + SumFunctionOnSet(w, T \ {x})
    BY <2>1, SumFacts
  <2> QED
    BY <2>2, <2>3
<1>2. ASSUME NEW T \in SUBSET S, NEW x \in S \ T
      PROVE  /\ T \union {x} \in SUBSET S
             /\ SumFunctionOnSet(v, T \union {x}) = v[x] + SumFunctionOnSet(v, T)
             /\ SumFunctionOnSet(w, T \union {x}) = w[x] + SumFunctionOnSet(w, T)
  <2> DEFINE Tx == T \union {x}
  <2>1. Tx \in SUBSET S /\ x \in Tx /\ Tx \ {x} = T
    OBVIOUS
  <2> QED
    BY <1>1, <2>1
<1>3. {} \in Same /\ {} \in Opposite
  BY <1>1
<1>4. ASSUME \A x \in S : w[x] = v[x]
      PROVE  SumFunctionOnSet(w, S) = SumFunctionOnSet(v, S)
  <2>1. ASSUME NEW T \in SUBSET S, NEW x \in S \ T, T \in Same PROVE T \union {x} \in Same
    BY <1>2, <1>4, <2>1
  <2> HIDE DEF Same
  <2>2. S \in Same
    BY <1>3, <2>1, AllGood
  <2> QED
    BY <2>2 DEF Same
<1>5. ASSUME \A x \in S : w[x] = -v[x]
      PROVE  SumFunctionOnSet(w, S) = -SumFunctionOnSet(v, S)
  <2>1. ASSUME NEW T \in SUBSET S, NEW x \in S \ T, T \in Opposite
        PROVE  T \union {x} \in Opposite
    <3>1. SumFunctionOnSet(w, T) = -SumFunctionOnSet(v, T) /\ SumFunctionOnSet(v, T) \in Int
      BY <1>1, <2>1
    <3>2. v[x] \in Int /\ w[x] = -v[x]
      BY <1>5
    <3>3. SumFunctionOnSet(w, T \union {x}) = -SumFunctionOnSet(v, T \union {x})
      BY <1>2, <3>1, <3>2
    <3> QED
      BY <1>2, <3>3
  <2> HIDE DEF Opposite
  <2>2. S \in Opposite
    BY <1>3, <2>1, AllGood
  <2> QED
    BY <2>2 DEF Opposite
<1> QED
  BY <1>4, <1>5

\* The sum of equal summands.
LEMMA SumOfEqual ==
  ASSUME NEW S, IsFiniteSet(S), NEW c \in Int, NEW v, \A x \in S : v[x] = c
  PROVE  SumFunctionOnSet(v, S) = c * Cardinality(S)
<1> DEFINE Good == {T \in SUBSET S : SumFunctionOnSet(v, T) = c * Cardinality(T)}
<1>1. /\ SumFunctionOnSet(v, {}) = 0
      /\ \A T \in SUBSET S : \A x \in T : SumFunctionOnSet(v, T) = v[x] + SumFunctionOnSet(v, T \ {x})
  BY SumFacts
<1>2. {} \in Good
  BY <1>1, FS_EmptySet
<1>3. ASSUME NEW T \in SUBSET S, NEW x \in S \ T, T \in Good PROVE T \union {x} \in Good
  <2> DEFINE Tx == T \union {x}
  <2>1. Tx \in SUBSET S /\ x \in Tx /\ Tx \ {x} = T
    OBVIOUS
  <2>2. IsFiniteSet(T) /\ Cardinality(T) \in Nat
    BY FS_Subset, FS_CardinalityType
  <2>3. Cardinality(Tx) = Cardinality(T) + 1
    BY <2>2, FS_AddElement
  <2>4. SumFunctionOnSet(v, Tx) = c + c * Cardinality(T)
    BY <1>1, <1>3, <2>1
  <2>5. c * (Cardinality(T) + 1) = c + c * Cardinality(T)
    BY <2>2
  <2> QED
    BY <2>1, <2>3, <2>4, <2>5
<1> HIDE DEF Good
<1>4. S \in Good
  BY <1>2, <1>3, AllGood
<1> QED
  BY <1>4 DEF Good

\* The sum over two sets without a common element.
LEMMA SumOfParts ==
  ASSUME NEW S, IsFiniteSet(S), NEW v, \A x \in S : v[x] \in Int,
         NEW A \in SUBSET S, NEW B \in SUBSET S, A \intersect B = {}
  PROVE  SumFunctionOnSet(v, A \union B) = SumFunctionOnSet(v, A) + SumFunctionOnSet(v, B)
<1> DEFINE Good == {T \in SUBSET S : T \intersect A = {} =>
              SumFunctionOnSet(v, A \union T) = SumFunctionOnSet(v, A) + SumFunctionOnSet(v, T)}
<1>1. /\ SumFunctionOnSet(v, {}) = 0
      /\ \A T \in SUBSET S : SumFunctionOnSet(v, T) \in Int
      /\ \A T \in SUBSET S : \A x \in T : SumFunctionOnSet(v, T) = v[x] + SumFunctionOnSet(v, T \ {x})
  BY SumFacts
<1>2. {} \in Good
  <2>1. A \union {} = A
    OBVIOUS
  <2> QED
    BY <1>1, <2>1
<1>3. ASSUME NEW T \in SUBSET S, NEW x \in S \ T, T \in Good PROVE T \union {x} \in Good
  <2> DEFINE Tx == T \union {x}
             U == A \union T
             Ux == A \union Tx
  <2>1. Tx \in SUBSET S /\ x \in Tx /\ Tx \ {x} = T
    OBVIOUS
  <2>2. SUFFICES ASSUME Tx \intersect A = {}
                 PROVE  SumFunctionOnSet(v, Ux) = SumFunctionOnSet(v, A) + SumFunctionOnSet(v, Tx)
    BY <2>1
  <2>3. Ux \in SUBSET S /\ x \in Ux /\ Ux \ {x} = U
    BY <2>2
  <2>4. SumFunctionOnSet(v, U) = SumFunctionOnSet(v, A) + SumFunctionOnSet(v, T)
    BY <1>3, <2>2
  <2>5. SumFunctionOnSet(v, Ux) = v[x] + SumFunctionOnSet(v, U)
        /\ SumFunctionOnSet(v, Tx) = v[x] + SumFunctionOnSet(v, T)
    BY <1>1, <2>1, <2>3
  <2>6. SumFunctionOnSet(v, A) \in Int /\ SumFunctionOnSet(v, T) \in Int /\ v[x] \in Int
    BY <1>1
  <2> QED
    BY <2>4, <2>5, <2>6
<1> HIDE DEF Good
<1>4. B \in Good
  BY <1>2, <1>3, AllGood
<1> QED
  BY <1>4 DEF Good

\* The members of a set that are of one kind.
OfKind(D, kind, b) == {s \in D : kind[s] = b}

\* Things in a finite set, each of one kind: the kinds' counts add up to the set.
LEMMA CountsOfKinds ==
  ASSUME NEW D, IsFiniteSet(D), NEW B, IsFiniteSet(B), NEW kind, \A s \in D : kind[s] \in B,
         NEW v, \A b \in B : v[b] = Cardinality(OfKind(D, kind, b))
  PROVE  SumFunctionOnSet(v, B) = Cardinality(D)
<1> DEFINE Of(T) == {s \in D : kind[s] \in T}
           Good == {T \in SUBSET B : SumFunctionOnSet(v, T) = Cardinality(Of(T))}
<1>1. \A T : IsFiniteSet(Of(T)) /\ Cardinality(Of(T)) \in Nat
  <2> SUFFICES ASSUME NEW T PROVE IsFiniteSet(Of(T)) /\ Cardinality(Of(T)) \in Nat
    OBVIOUS
  <2>1. Of(T) \in SUBSET D
    OBVIOUS
  <2> QED
    BY <2>1, FS_Subset, FS_CardinalityType
<1>2. ASSUME NEW b \in B PROVE v[b] = Cardinality(Of({b})) /\ v[b] \in Nat
  <2>1. Of({b}) = OfKind(D, kind, b)
    BY DEF OfKind
  <2> QED
    BY <1>1, <2>1
<1>3. /\ SumFunctionOnSet(v, {}) = 0
      /\ \A T \in SUBSET B : \A x \in T : SumFunctionOnSet(v, T) = v[x] + SumFunctionOnSet(v, T \ {x})
  <2>1. ASSUME NEW b \in B PROVE v[b] \in Int
    <3> HIDE DEF Of
    <3>1. v[b] \in Nat
      BY <1>2
    <3> QED
      BY <3>1
  <2> QED
    BY <2>1, SumFacts
<1>4. {} \in Good
  <2>1. Of({}) = {}
    OBVIOUS
  <2> QED
    BY <1>3, <2>1, FS_EmptySet
<1>5. ASSUME NEW T \in SUBSET B, NEW x \in B \ T, T \in Good PROVE T \union {x} \in Good
  <2> DEFINE Tx == T \union {x}
             one == {x}
  <2>1. Tx \in SUBSET B /\ x \in Tx /\ Tx \ {x} = T
    OBVIOUS
  <2>2. Of(Tx) = Of(T) \union Of(one) /\ Of(T) \intersect Of(one) = {}
    OBVIOUS
  <2>3. v[x] = Cardinality(Of(one))
    BY <1>2
  <2> HIDE DEF Of, one, Tx
  <2>4. Cardinality(Of(Tx)) = Cardinality(Of(T)) + Cardinality(Of(one))
    <3>1. /\ IsFiniteSet(Of(T)) /\ IsFiniteSet(Of(one))
          /\ Cardinality(Of(T)) \in Nat /\ Cardinality(Of(one)) \in Nat
      BY <1>1
    <3>2. Cardinality(Of(T) \union Of(one))
            = Cardinality(Of(T)) + Cardinality(Of(one)) - Cardinality(Of(T) \intersect Of(one))
      BY <3>1, FS_Union
    <3>3. Cardinality(Of(T) \intersect Of(one)) = 0
      BY <2>2, FS_EmptySet
    <3> QED
      BY <2>2, <3>1, <3>2, <3>3
  <2>5. SumFunctionOnSet(v, Tx) = v[x] + Cardinality(Of(T))
    BY <1>3, <1>5, <2>1
  <2> QED
    BY <1>1, <2>1, <2>3, <2>4, <2>5 DEF Tx
<1> HIDE DEF Good
<1>6. B \in Good
  BY <1>4, <1>5, AllGood
<1>7. Of(B) = D
  OBVIOUS
<1> QED
  BY <1>6, <1>7 DEF Good

(***************************************************************************)
(* Two runs, and the two counts of their attempts.                          *)
(***************************************************************************)
\* The rows of a run as far as it got.
RowsGiven(rows) ==
  /\ DOMAIN rows \subseteq Slots /\ IsFiniteSet(DOMAIN rows)
  /\ \A slot \in DOMAIN rows : rows[slot] \in LeftOutcomes \union RightOutcomes

ReportInv == RowsGiven(left) /\ RowsGiven(right)

\* A manifest asks for finitely many attempts.
LEMMA SlotsAreFinite == IsFiniteSet(Slots)
<1>1. IsFiniteSet(Samples) /\ IsFiniteSet(1..Attempts)
  BY RunReportAssumption, RunStatisticsAssumption, FS_Interval
<1> QED
  BY <1>1, FS_Product DEF Slots

\* One more result for a run (models/runs.py) leaves rows of the manifest.
LEMMA RecordKeeps ==
  ASSUME NEW rows, RowsGiven(rows), NEW slot \in Slots,
         NEW row \in LeftOutcomes \union RightOutcomes
  PROVE  RowsGiven(With(rows, slot, row))
<1>1. DOMAIN With(rows, slot, row) = DOMAIN rows \union {slot}
  BY DEF With
<1>2. DOMAIN rows \union {slot} \subseteq Slots
  BY DEF RowsGiven
<1>3. IsFiniteSet(DOMAIN rows \union {slot})
  BY <1>2, SlotsAreFinite, FS_Subset
<1>4. \A s \in DOMAIN rows \union {slot} :
        With(rows, slot, row)[s] \in LeftOutcomes \union RightOutcomes
  BY DEF With, RowsGiven
<1> QED
  BY <1>1, <1>2, <1>3, <1>4 DEF RowsGiven

\* A run begins without rows.
LEMMA ReportInvInit == ReportInit => ReportInv
<1> SUFFICES ASSUME ReportInit PROVE ReportInv
  OBVIOUS
<1>1. DOMAIN NoRows = {}
  BY DEF NoRows
<1>2. RowsGiven(NoRows)
  BY <1>1, FS_EmptySet DEF RowsGiven
<1> QED
  BY <1>2 DEF ReportInit, ReportInv

\* ... and every result the runner appends keeps them rows of the manifest.
LEMMA ReportInvStep == ReportInv /\ [ReportNext]_reportVars => ReportInv'
<1> SUFFICES ASSUME ReportInv, [ReportNext]_reportVars PROVE ReportInv'
  OBVIOUS
<1>1. ASSUME NEW slot \in Slots, NEW row \in LeftOutcomes, RecordLeft(slot, row)
      PROVE  ReportInv'
  BY <1>1, RecordKeeps DEF RecordLeft, ReportInv
<1>2. ASSUME NEW slot \in Slots, NEW row \in RightOutcomes, RecordRight(slot, row)
      PROVE  ReportInv'
  BY <1>2, RecordKeeps DEF RecordRight, ReportInv
<1>3. CASE UNCHANGED reportVars
  BY <1>3 DEF reportVars, ReportInv
<1> QED
  BY <1>1, <1>2, <1>3 DEF ReportNext

\* What one row of a run may hold: only a completed execution has a grade, and only
\* a grade has a label (models/runs.py).
LEMMA RowFacts ==
  ASSUME NEW row \in LeftOutcomes \union RightOutcomes
  PROVE  /\ row.execution \in ExecutionStatuses
         /\ row.grade \in GradeStatuses \union {None}
         /\ row.label \in StudyLabels \union {BadLabel, None}
         /\ row.execution # "completed" => row.grade = None
         /\ row.grade = None => row.label = None
<1>1. row \in Rows
  BY RunReportAssumption
<1> QED
  BY <1>1, RunReportAssumption DEF Rows

\* The summary has finitely many counters.
LEMMA BucketsAreFinite == IsFiniteSet(Buckets)
<1> DEFINE B1 == {"passed", "failed"}
           B2 == {"partial", "errors"}
           B3 == {"timeouts", "cancelled"}
           B4 == {"abstained", "unavailable"}
<1>1. IsFiniteSet({"passed"}) /\ IsFiniteSet({"failed"}) /\ IsFiniteSet({"partial"})
      /\ IsFiniteSet({"errors"}) /\ IsFiniteSet({"timeouts"}) /\ IsFiniteSet({"cancelled"})
      /\ IsFiniteSet({"abstained"}) /\ IsFiniteSet({"unavailable"})
  BY FS_Singleton
<1>2. /\ B1 = {"passed"} \union {"failed"} /\ B2 = {"partial"} \union {"errors"}
      /\ B3 = {"timeouts"} \union {"cancelled"} /\ B4 = {"abstained"} \union {"unavailable"}
  OBVIOUS
<1> HIDE DEF B1, B2, B3, B4
<1>3. IsFiniteSet(B1) /\ IsFiniteSet(B2) /\ IsFiniteSet(B3) /\ IsFiniteSet(B4)
  <2>1. IsFiniteSet(B1)
    BY <1>1, <1>2, FS_Union
  <2>2. IsFiniteSet(B2)
    BY <1>1, <1>2, FS_Union
  <2>3. IsFiniteSet(B3)
    BY <1>1, <1>2, FS_Union
  <2>4. IsFiniteSet(B4)
    BY <1>1, <1>2, FS_Union
  <2> QED
    BY <2>1, <2>2, <2>3, <2>4
<1>4. Buckets = (B1 \union B2) \union (B3 \union B4)
  BY DEF Buckets, B1, B2, B3, B4
<1>5. IsFiniteSet(B1 \union B2) /\ IsFiniteSet(B3 \union B4)
  BY <1>3, FS_Union
<1> QED
  BY <1>4, <1>5, FS_Union

\* A completed attempt that was never graded, and the counter of the runner's summary
\* (runner.py 1001-1053) that any other attempt is in.
Ungraded(row) == row.execution = "completed" /\ row.grade = None

CounterOfRow(row) ==
  IF row.execution # "completed" THEN BucketOfExecution[row.execution]
  ELSE BucketOfGrade[row.grade]

\* The summary and the recount (aggregate.py 372-409) put an attempt into one counter
\* each, and not into the same one for two kinds of attempt only.
LEMMA CountersOfRows ==
  ASSUME NEW row \in LeftOutcomes \union RightOutcomes
  PROVE  /\ Classify(row) \in Buckets
         /\ ~Ungraded(row) => CounterOfRow(row) \in Buckets
         /\ row.execution = "failed" => Classify(row) = "failed" /\ CounterOfRow(row) = "errors"
         /\ Ungraded(row) => Classify(row) = "errors"
         /\ ~Ungraded(row) /\ row.execution # "failed" => Classify(row) = CounterOfRow(row)
<1>1. /\ BucketOfGrade["pass"] = "passed" /\ BucketOfGrade["fail"] = "failed"
      /\ BucketOfGrade["partial"] = "partial" /\ BucketOfGrade["abstain"] = "abstained"
      /\ BucketOfGrade["unavailable"] = "unavailable" /\ BucketOfGrade["error"] = "errors"
  BY DEF BucketOfGrade
<1>2. /\ BucketOfExecution["error"] = "errors" /\ BucketOfExecution["failed"] = "errors"
      /\ BucketOfExecution["timeout"] = "timeouts" /\ BucketOfExecution["cancelled"] = "cancelled"
  BY DEF BucketOfExecution
<1>3. /\ row.execution \in ExecutionStatuses
      /\ row.grade \in GradeStatuses \union {None}
      /\ row.execution # "completed" => row.grade = None
  BY RowFacts
<1>4. row.grade # None => BucketOfGrade[row.grade] \in Buckets
  BY <1>1, <1>3 DEF GradeStatuses, Buckets
<1>5. row.execution # "completed" => BucketOfExecution[row.execution] \in Buckets
  BY <1>2, <1>3 DEF ExecutionStatuses, Buckets
<1>6. CASE row.execution = "completed"
  BY <1>3, <1>4, <1>6 DEF Classify, CounterOfRow, Ungraded, Buckets
<1>7. CASE row.execution # "completed"
  BY <1>2, <1>3, <1>5, <1>7 DEF Classify, CounterOfRow, Ungraded, Buckets, ExecutionStatuses
<1> QED
  BY <1>6, <1>7

\* How the summary and the recount of the same rows differ.
LEMMA RecountOfRows ==
  ASSUME NEW rows, RowsGiven(rows)
  PROVE  LET failed == Counted(rows, LAMBDA row : row.execution = "failed")
             ungraded == Counted(rows, LAMBDA row : row.execution = "completed" /\ row.grade = None)
             summary == Summarize(rows)
             recount == AggregateRun(rows).counts
         IN /\ SumFunction(recount) = Cardinality(DOMAIN rows)
            /\ SumFunction(summary) = Cardinality(DOMAIN rows) - ungraded
            /\ recount["failed"] = summary["failed"] + failed
            /\ recount["errors"] = summary["errors"] - failed + ungraded
            /\ \A b \in Buckets \ {"failed", "errors"} : recount[b] = summary[b]
<1> DEFINE D == DOMAIN rows
           FailedIn == {slot \in D : rows[slot].execution = "failed"}
           UngradedIn == {slot \in D : rows[slot].execution = "completed" /\ rows[slot].grade = None}
           RecountIn(b) == {slot \in D : Classify(rows[slot]) = b}
           ExecutionIn(b) == {slot \in D : rows[slot].execution # "completed"
                                             /\ BucketOfExecution[rows[slot].execution] = b}
           GradeIn(b) == {slot \in D : rows[slot].grade # None /\ BucketOfGrade[rows[slot].grade] = b}
           SummaryIn(b) == {slot \in D \ UngradedIn : CounterOfRow(rows[slot]) = b}
           summary == Summarize(rows)
           recount == AggregateRun(rows).counts
           Part(T) == IsFiniteSet(T) /\ Cardinality(T) \in Nat
<1>1. IsFiniteSet(D) /\ \A slot \in D : rows[slot] \in LeftOutcomes \union RightOutcomes
  BY DEF RowsGiven
<1>2. \A T \in SUBSET D : Part(T)
  BY <1>1, FS_Subset, FS_CardinalityType
<1>3. \A slot \in D :
        LET row == rows[slot]
        IN /\ Classify(row) \in Buckets
           /\ ~Ungraded(row) => CounterOfRow(row) \in Buckets
           /\ row.execution = "failed" => Classify(row) = "failed" /\ CounterOfRow(row) = "errors"
           /\ Ungraded(row) => Classify(row) = "errors"
           /\ ~Ungraded(row) /\ row.execution # "failed" => Classify(row) = CounterOfRow(row)
           /\ row.execution # "completed" => row.grade = None
  BY <1>1, CountersOfRows, RowFacts
<1>4. recount = [b \in Buckets |-> Cardinality(RecountIn(b))]
  BY DEF AggregateRun, Recount, Counted, Quantify
<1>5. summary = [b \in Buckets |-> Cardinality(ExecutionIn(b)) + Cardinality(GradeIn(b))]
  BY DEF Summarize, Counted, Quantify
<1>6. /\ Counted(rows, LAMBDA row : row.execution = "failed") = Cardinality(FailedIn)
      /\ Counted(rows, LAMBDA row : row.execution = "completed" /\ row.grade = None)
           = Cardinality(UngradedIn)
  BY DEF Counted, Quantify
<1>7. ASSUME NEW b \in Buckets
      PROVE  Cardinality(ExecutionIn(b)) + Cardinality(GradeIn(b)) = Cardinality(SummaryIn(b))
  <2> DEFINE E == ExecutionIn(b)
             G == GradeIn(b)
             S == SummaryIn(b)
  <2>1. E \intersect G = {}
    BY <1>3
  <2>2. E \union G = S
    BY <1>3 DEF CounterOfRow, Ungraded
  <2>3. Part(E) /\ Part(G)
    <3>1. E \in SUBSET D /\ G \in SUBSET D
      OBVIOUS
    <3> QED
      BY <1>2, <3>1
  <2> HIDE DEF E, G, S
  <2>4. Cardinality(S) = Cardinality(E) + Cardinality(G) - Cardinality({})
    BY <2>1, <2>2, <2>3, FS_Union
  <2>5. Cardinality({}) = 0
    BY FS_EmptySet
  <2>6. Cardinality(E) + Cardinality(G) = Cardinality(S)
    BY <2>3, <2>4, <2>5
  <2> QED
    BY <2>6 DEF E, G, S
<1>8. \A b \in Buckets : recount[b] = Cardinality(RecountIn(b)) /\ summary[b] = Cardinality(SummaryIn(b))
  BY <1>4, <1>5, <1>7
<1>9. DOMAIN recount = Buckets /\ DOMAIN summary = Buckets
  BY <1>4, <1>5
<1>10. UngradedIn \subseteq D /\ FailedIn \subseteq D /\ UngradedIn \intersect FailedIn = {}
  OBVIOUS
<1>11. "failed" \in Buckets /\ "errors" \in Buckets
  BY DEF Buckets
<1> HIDE DEF summary, recount
<1>12. SumFunction(recount) = Cardinality(D)
  <2> DEFINE kind == [slot \in D |-> Classify(rows[slot])]
  <2>1. \A slot \in D : kind[slot] \in Buckets
    BY <1>3
  <2>2. \A b \in Buckets : recount[b] = Cardinality(OfKind(D, kind, b))
    <3>1. \A b : OfKind(D, kind, b) = RecountIn(b)
      BY DEF OfKind
    <3> QED
      BY <1>8, <3>1
  <2> HIDE DEF kind
  <2>3. SumFunctionOnSet(recount, Buckets) = Cardinality(D)
    BY <1>1, <2>1, <2>2, BucketsAreFinite, CountsOfKinds
  <2> QED
    BY <1>9, <2>3 DEF SumFunction
<1>13. SumFunction(summary) = Cardinality(D) - Cardinality(UngradedIn)
  <2> DEFINE Rest == D \ UngradedIn
             kind == [slot \in Rest |-> CounterOfRow(rows[slot])]
  <2>1. \A slot \in Rest : kind[slot] \in Buckets
    BY <1>3 DEF Ungraded
  <2>2. \A b \in Buckets : summary[b] = Cardinality(OfKind(Rest, kind, b))
    <3>1. \A b : OfKind(Rest, kind, b) = SummaryIn(b)
      BY DEF OfKind
    <3> QED
      BY <1>8, <3>1
  <2>3. IsFiniteSet(Rest) /\ Cardinality(Rest) = Cardinality(D) - Cardinality(UngradedIn)
    <3>1. D \intersect UngradedIn = UngradedIn
      BY <1>10
    <3> HIDE DEF UngradedIn
    <3> QED
      BY <1>1, <3>1, FS_Difference
  <2> HIDE DEF kind, Rest
  <2>4. SumFunctionOnSet(summary, Buckets) = Cardinality(Rest)
    BY <2>1, <2>2, <2>3, BucketsAreFinite, CountsOfKinds
  <2> QED
    BY <1>9, <2>3, <2>4 DEF SumFunction
<1>14. \A b \in Buckets \ {"failed", "errors"} : recount[b] = summary[b]
  <2> SUFFICES ASSUME NEW b \in Buckets \ {"failed", "errors"} PROVE recount[b] = summary[b]
    OBVIOUS
  <2>1. RecountIn(b) = SummaryIn(b)
    BY <1>3 DEF Ungraded
  <2> QED
    BY <1>8, <2>1
<1>15. recount["failed"] = summary["failed"] + Cardinality(FailedIn)
  <2> DEFINE R == RecountIn("failed")
             S == SummaryIn("failed")
  <2>1. R = S \union FailedIn /\ S \intersect FailedIn = {}
    BY <1>3 DEF Ungraded
  <2>2. S \in SUBSET D /\ FailedIn \in SUBSET D
    OBVIOUS
  <2>3. Part(S) /\ Part(FailedIn)
    BY <1>2, <2>2
  <2>4. recount["failed"] = Cardinality(R) /\ summary["failed"] = Cardinality(S)
    BY <1>8, <1>11
  <2> HIDE DEF R, S, FailedIn
  <2>5. Cardinality(S \union FailedIn) = Cardinality(S) + Cardinality(FailedIn) - Cardinality({})
    BY <2>1, <2>3, FS_Union
  <2> QED
    BY <2>1, <2>3, <2>4, <2>5, FS_EmptySet
<1>16. recount["errors"] = summary["errors"] - Cardinality(FailedIn) + Cardinality(UngradedIn)
  <2> DEFINE R == RecountIn("errors")
             S == SummaryIn("errors")
             X == R \ UngradedIn
  <2>1. /\ R = X \union UngradedIn /\ X \intersect UngradedIn = {}
    BY <1>3 DEF Ungraded
  <2>2. S = X \union FailedIn /\ X \intersect FailedIn = {}
    BY <1>3 DEF Ungraded
  <2>3. X \in SUBSET D /\ FailedIn \in SUBSET D /\ UngradedIn \in SUBSET D
    OBVIOUS
  <2>4. Part(X) /\ Part(FailedIn) /\ Part(UngradedIn)
    BY <1>2, <2>3
  <2>5. recount["errors"] = Cardinality(R) /\ summary["errors"] = Cardinality(S)
    BY <1>8, <1>11
  <2> HIDE DEF R, S, X, FailedIn, UngradedIn
  <2>6. /\ Cardinality(X \union UngradedIn) = Cardinality(X) + Cardinality(UngradedIn) - Cardinality({})
        /\ Cardinality(X \union FailedIn) = Cardinality(X) + Cardinality(FailedIn) - Cardinality({})
    BY <2>1, <2>2, <2>4, FS_Union
  <2> QED
    BY <2>1, <2>2, <2>4, <2>5, <2>6, FS_EmptySet
<1> QED
  BY <1>6, <1>12, <1>13, <1>14, <1>15, <1>16 DEF summary, recount

\* Small sets of names are finite.
LEMMA NamesAreFinite ==
  /\ IsFiniteSet(Categories)
  /\ IsFiniteSet(ExecutionStatuses \ {"completed"})
  /\ IsFiniteSet((GradeStatuses \ {"pass", "fail"}) \union {None})
<1>1. \A a, b : IsFiniteSet({a, b})
  <2> SUFFICES ASSUME NEW a, NEW b PROVE IsFiniteSet({a, b})
    OBVIOUS
  <2>1. IsFiniteSet({a}) /\ IsFiniteSet({b}) /\ {a, b} = {a} \union {b}
    BY FS_Singleton
  <2> QED
    BY <2>1, FS_Union
<1>2. \A a, b, c, d : IsFiniteSet({a, b} \union {c, d})
  BY <1>1, FS_Union
<1>3. IsFiniteSet(Categories)
  <2>1. Categories = {"correct_acceptance", "wrong_acceptance"}
                       \union {"correct_rejection", "unnecessary_rejection"}
    BY DEF Categories
  <2> QED
    BY <1>2, <2>1
<1>4. IsFiniteSet(ExecutionStatuses \ {"completed"})
  <2> DEFINE halts == ExecutionStatuses \ {"completed"}
             four == {"error", "failed"} \union {"timeout", "cancelled"}
  <2>1. halts = four
    BY DEF ExecutionStatuses
  <2>2. IsFiniteSet(four)
    BY <1>2
  <2> HIDE DEF halts, four
  <2>3. IsFiniteSet(halts)
    BY <2>1, <2>2
  <2> QED
    BY <2>3 DEF halts
<1>5. IsFiniteSet((GradeStatuses \ {"pass", "fail"}) \union {None})
  <2> DEFINE four == {"partial", "abstain"} \union {"unavailable", "error"}
  <2>1. (GradeStatuses \ {"pass", "fail"}) \union {None} = four \union {None}
    BY DEF GradeStatuses
  <2>2. IsFiniteSet(four) /\ IsFiniteSet({None})
    BY <1>2, FS_Singleton
  <2> HIDE DEF four
  <2> QED
    BY <2>1, <2>2, FS_Union
<1> QED
  BY <1>3, <1>4, <1>5

\* study.py 113: the categories, the operational failures and the grade outcomes of a
\* study add up to its attempts.
LEMMA StudyOfRows ==
  ASSUME NEW rows, RowsGiven(rows), ~Malformed(rows)
  PROVE  LET study == SummarizeStudy(rows)
         IN SumFunction(study.categories) + SumFunction(study.operational)
              + SumFunction(study.grades) = Cardinality(DOMAIN rows)
<1> DEFINE D == DOMAIN rows
           L == Labelled(rows)
           Stopped == {slot \in D : rows[slot].execution # "completed"}
           Other == {slot \in D : rows[slot].execution = "completed"} \ L
           Halts == ExecutionStatuses \ {"completed"}
           Grades == (GradeStatuses \ {"pass", "fail"}) \union {None}
           GradeIn(g) == {slot \in D : rows[slot].execution = "completed" /\
                            (rows[slot].grade = g
                              \/ (g = None /\ Definitive(rows[slot]) /\ rows[slot].label = None))}
           study == SummarizeStudy(rows)
           Part(T) == IsFiniteSet(T) /\ Cardinality(T) \in Nat
<1>1. IsFiniteSet(D) /\ \A slot \in D : rows[slot] \in LeftOutcomes \union RightOutcomes
  BY DEF RowsGiven
<1>2. \A T \in SUBSET D : Part(T)
  BY <1>1, FS_Subset, FS_CardinalityType
<1>3. \A slot \in D : /\ rows[slot].execution \in ExecutionStatuses
                      /\ rows[slot].grade \in GradeStatuses \union {None}
  BY <1>1, RowFacts
<1>4. L = {slot \in D : Definitive(rows[slot]) /\ rows[slot].label # None}
  BY DEF Labelled
<1>5. /\ study.categories = [c \in Categories |->
            Cardinality({slot \in L : Category(rows[slot].label) = c})]
      /\ study.operational = [s \in Halts |->
            Cardinality({slot \in D : rows[slot].execution = s})]
      /\ study.grades = [g \in Grades |-> Cardinality(GradeIn(g))]
  BY DEF SummarizeStudy, Counted, Quantify
<1>6. L \in SUBSET D /\ Stopped \in SUBSET D /\ Other \in SUBSET D
  BY <1>4
<1>7. D = (L \union Stopped) \union Other /\ L \intersect Stopped = {}
      /\ (L \union Stopped) \intersect Other = {}
  BY <1>4 DEF Definitive
<1>8. SumFunction(study.categories) = Cardinality(L)
  <2> DEFINE v == study.categories
             kind == [slot \in L |-> Category(rows[slot].label)]
  <2>1. \A slot \in L : kind[slot] \in Categories
    BY DEF Category, Categories
  <2>2. \A c \in Categories : v[c] = Cardinality(OfKind(L, kind, c))
    <3>1. \A c : OfKind(L, kind, c) = {slot \in L : Category(rows[slot].label) = c}
      BY DEF OfKind
    <3> QED
      BY <1>5, <3>1
  <2>3. DOMAIN v = Categories
    BY <1>5
  <2>4. IsFiniteSet(L)
    BY <1>2, <1>6
  <2> HIDE DEF v, kind, L
  <2>5. SumFunctionOnSet(v, Categories) = Cardinality(L)
    BY <2>1, <2>2, <2>4, NamesAreFinite, CountsOfKinds
  <2>6. SumFunction(v) = Cardinality(L)
    BY <2>3, <2>5 DEF SumFunction
  <2> QED
    BY <2>6 DEF v
<1>9. SumFunction(study.operational) = Cardinality(Stopped)
  <2> DEFINE v == study.operational
             kind == [slot \in Stopped |-> rows[slot].execution]
  <2>1. \A slot \in Stopped : kind[slot] \in Halts
    BY <1>3
  <2>2. \A s \in Halts : v[s] = Cardinality(OfKind(Stopped, kind, s))
    <3>1. \A s \in Halts :
            OfKind(Stopped, kind, s) = {slot \in D : rows[slot].execution = s}
      BY DEF OfKind
    <3> QED
      BY <1>5, <3>1
  <2>3. DOMAIN v = Halts
    BY <1>5
  <2>4. IsFiniteSet(Stopped)
    BY <1>2, <1>6
  <2>5. IsFiniteSet(Halts)
    BY NamesAreFinite
  <2> HIDE DEF v, kind, Stopped, Halts
  <2>7. SumFunctionOnSet(v, Halts) = Cardinality(Stopped)
    BY <2>1, <2>2, <2>4, <2>5, CountsOfKinds
  <2>6. SumFunction(v) = Cardinality(Stopped)
    BY <2>3, <2>7 DEF SumFunction
  <2> QED
    BY <2>6 DEF v
<1>10. SumFunction(study.grades) = Cardinality(Other)
  <2> DEFINE v == study.grades
             kind == [slot \in Other |-> IF Definitive(rows[slot]) THEN None ELSE rows[slot].grade]
  <2>1. \A slot \in Other : kind[slot] \in Grades
    BY <1>3 DEF Definitive
  <2>2. \A g \in Grades : v[g] = Cardinality(OfKind(Other, kind, g))
    <3>1. ASSUME NEW g \in Grades PROVE OfKind(Other, kind, g) = GradeIn(g)
      <4>1. g \notin {"pass", "fail"} /\ None \notin {"pass", "fail"}
        BY RunStatisticsAssumption DEF GradeStatuses
      <4> QED
        BY <1>4, <4>1 DEF Definitive, OfKind
    <3> QED
      BY <1>5, <3>1
  <2>3. DOMAIN v = Grades
    BY <1>5
  <2>4. IsFiniteSet(Other)
    BY <1>2, <1>6
  <2>5. IsFiniteSet(Grades)
    BY NamesAreFinite
  <2> HIDE DEF v, kind, Other, Grades
  <2>7. SumFunctionOnSet(v, Grades) = Cardinality(Other)
    BY <2>1, <2>2, <2>4, <2>5, CountsOfKinds
  <2>6. SumFunction(v) = Cardinality(Other)
    BY <2>3, <2>7 DEF SumFunction
  <2> QED
    BY <2>6 DEF v
<1>11. Part(L) /\ Part(Stopped) /\ Part(Other) /\ Part(L \union Stopped)
  BY <1>2, <1>6
<1> HIDE DEF L, Stopped, Other, D
<1>12. Cardinality(L \union Stopped) = Cardinality(L) + Cardinality(Stopped) - Cardinality({})
  BY <1>7, <1>11, FS_Union
<1>13. Cardinality(D) = Cardinality(L \union Stopped) + Cardinality(Other) - Cardinality({})
  BY <1>7, <1>11, FS_Union
<1>14. Cardinality(D) = Cardinality(L) + Cardinality(Stopped) + Cardinality(Other)
  BY <1>11, <1>12, <1>13, FS_EmptySet
<1> QED
  BY <1>8, <1>9, <1>10, <1>14 DEF D

(***************************************************************************)
(* Paired instances keep their verdict, and neither run is favoured.        *)
(***************************************************************************)
\* When all the attempts the manifest asks for of a sample count, they are all the
\* attempts of that sample that do.
LEMMA SlotsOfASample ==
  ASSUME NEW rows, RowsGiven(rows), NEW counted, counted \subseteq DOMAIN rows,
         NEW sample, AllOf(sample) \subseteq counted
  PROVE  /\ \A slot \in counted : slot[1] = sample <=> slot \in AllOf(sample)
         /\ \E slot \in counted : slot[1] = sample
<1>1. \A slot \in counted : slot = <<slot[1], slot[2]>> /\ slot[2] \in 1..Attempts
  BY DEF RowsGiven, Slots
<1>2. \A slot \in AllOf(sample) : slot[1] = sample
  BY DEF AllOf
<1>3. \A slot \in counted : slot[1] = sample => slot \in AllOf(sample)
  BY <1>1 DEF AllOf
<1>4. <<sample, 1>> \in AllOf(sample)
  BY RunStatisticsAssumption DEF AllOf
<1> QED
  BY <1>2, <1>3, <1>4

\* A study label is legitimate exactly when its category is one of the correct ones.
LEMMA LegitimateCategories ==
  ASSUME NEW label \in StudyLabels
  PROVE  Legitimate(label)
           <=> Category(label) \in {"correct_acceptance", "correct_rejection"}
<1>1. /\ label.expected \in {"accept", "reject"} /\ label.actual \in {"accepted", "rejected"}
      /\ label.correct \in BOOLEAN
  BY DEF StudyLabels
<1>2. CASE label.expected = "accept" /\ label.actual = "accepted" /\ label.correct
  BY <1>1, <1>2 DEF Legitimate, Category
<1>3. CASE label.actual = "accepted" /\ ~(label.expected = "accept" /\ label.correct)
  BY <1>1, <1>3 DEF Legitimate, Category
<1>4. CASE label.actual # "accepted"
  BY <1>1, <1>4 DEF Legitimate, Category
<1> QED
  BY <1>2, <1>3, <1>4

\* What a study says of an instance all of whose attempts count.
LEMMA TaskVerdict ==
  ASSUME NEW rows, RowsGiven(rows), ~Malformed(rows),
         NEW sample, AllOf(sample) \subseteq Labelled(rows)
  PROVE  SummarizeStudy(rows).tasks[sample] = (AllOf(sample) \subseteq LegitimateAttempts(rows))
<1> DEFINE Rightly(slot) == Category(rows[slot].label) \in {"correct_acceptance", "correct_rejection"}
           tasks == SummarizeStudy(rows).tasks
<1>1. Labelled(rows) \subseteq DOMAIN rows
  BY DEF Labelled
<1>2. /\ \A slot \in Labelled(rows) : slot[1] = sample <=> slot \in AllOf(sample)
      /\ \E slot \in Labelled(rows) : slot[1] = sample
  BY <1>1, SlotsOfASample
<1>3. \A slot \in Labelled(rows) : rows[slot].label \in StudyLabels
  <2>1. \A slot \in Labelled(rows) : rows[slot].label \in StudyLabels \union {BadLabel, None}
    BY <1>1, RowFacts DEF RowsGiven
  <2>2. \A slot \in Labelled(rows) : rows[slot].label # None /\ rows[slot].label # BadLabel
    BY <1>1 DEF Labelled, Malformed
  <2> QED
    BY <2>1, <2>2
<1>4. \A slot \in Labelled(rows) : Legitimate(rows[slot].label) <=> Rightly(slot)
  BY <1>3, LegitimateCategories
<1>5. tasks = [s \in {slot[1] : slot \in Labelled(rows)} |->
                 \A slot \in Labelled(rows) : slot[1] = s => Rightly(slot)]
  BY DEF SummarizeStudy
<1> HIDE DEF Rightly, tasks
<1>6. tasks[sample] = (\A slot \in Labelled(rows) : slot[1] = sample => Rightly(slot))
  <2>1. sample \in {slot[1] : slot \in Labelled(rows)}
    BY <1>2
  <2> QED
    BY <1>5, <2>1
<1>7. (AllOf(sample) \subseteq LegitimateAttempts(rows))
        = (\A slot \in Labelled(rows) : slot[1] = sample => Rightly(slot))
  BY <1>2, <1>4 DEF LegitimateAttempts
<1>8. tasks[sample] = (AllOf(sample) \subseteq LegitimateAttempts(rows))
  BY <1>6, <1>7, Zenon
<1> QED
  BY <1>8 DEF tasks

\* A comparison of studies that is made is made of the verdicts of both.
LEMMA VerdictsOfPairs ==
  ASSUME NEW one, RowsGiven(one), NEW other, RowsGiven(other),
         ~CompareStudies(one, other).refused
  PROVE  /\ ~SummarizeStudy(one).refused /\ ~SummarizeStudy(other).refused
         /\ \A sample \in DOMAIN CompareStudies(one, other).outcomes :
              CompareStudies(one, other).outcomes[sample]
                = <<SummarizeStudy(one).tasks[sample], SummarizeStudy(other).tasks[sample]>>
<1> DEFINE pairable == Pairable(SamplesOf(one), Labelled(one), Labelled(other))
           outcomes == [sample \in pairable |-> <<AllOf(sample) \subseteq LegitimateAttempts(one),
                                                  AllOf(sample) \subseteq LegitimateAttempts(other)>>]
           study == CompareStudies(one, other)
           C == <<Labelled(one), Labelled(other)>>
           W == <<LegitimateAttempts(one), LegitimateAttempts(other)>>
<1>1. ~(DOMAIN one = DOMAIN other /\ (Malformed(one) \/ Malformed(other)))
        /\ study = PairInstances(one, other, C, W)
  <2>1. Refused.refused
    BY DEF Refused
  <2> QED
    BY <2>1 DEF CompareStudies
<1>2. DOMAIN one = DOMAIN other
        /\ study = Paired(outcomes, Cardinality(SamplesOf(one) \ pairable))
  <2>1. Refused.refused
    BY DEF Refused
  <2>2. PairInstances(one, other, C, W)
          = IF DOMAIN one # DOMAIN other \/ pairable = {} THEN Refused
            ELSE Paired(outcomes, Cardinality(SamplesOf(one) \ pairable))
    BY DEF PairInstances
  <2> HIDE DEF outcomes, pairable, C, W, study
  <2> QED
    BY <1>1, <2>1, <2>2 DEF study
<1>3. study.outcomes = outcomes
  <2> HIDE DEF outcomes, pairable, study
  <2> QED
    BY <1>2 DEF Paired
<1>4. ~Malformed(one) /\ ~Malformed(other)
  BY <1>1, <1>2
<1>5. ~SummarizeStudy(one).refused /\ ~SummarizeStudy(other).refused
  BY <1>4 DEF SummarizeStudy
<1>6. ASSUME NEW sample \in pairable
      PROVE  outcomes[sample]
               = <<SummarizeStudy(one).tasks[sample], SummarizeStudy(other).tasks[sample]>>
  <2>1. AllOf(sample) \subseteq Labelled(one) /\ AllOf(sample) \subseteq Labelled(other)
    BY DEF Pairable
  <2>2. SummarizeStudy(one).tasks[sample] = (AllOf(sample) \subseteq LegitimateAttempts(one))
    BY <1>4, <2>1, TaskVerdict
  <2>3. SummarizeStudy(other).tasks[sample] = (AllOf(sample) \subseteq LegitimateAttempts(other))
    BY <1>4, <2>1, TaskVerdict
  <2>4. outcomes[sample] = <<AllOf(sample) \subseteq LegitimateAttempts(one),
                             AllOf(sample) \subseteq LegitimateAttempts(other)>>
    OBVIOUS
  <2> HIDE DEF outcomes
  <2> QED
    BY <2>2, <2>3, <2>4, Zenon
<1>7. DOMAIN outcomes = pairable
  OBVIOUS
<1> HIDE DEF outcomes, pairable, study
<1> QED
  BY <1>3, <1>5, <1>6, <1>7 DEF study

\* The deltas of an exchanged pair are the deltas with their signs turned.
LEMMA DeltasMirror ==
  ASSUME NEW one, RowsGiven(one), NEW other, RowsGiven(other)
  PROVE  /\ DOMAIN Deltas(other, one) = DOMAIN Deltas(one, other)
         /\ IsFiniteSet(DOMAIN Deltas(one, other))
         /\ SumOf(Deltas(one, other)) \in Int
         /\ SumOf(Deltas(other, one)) = -SumOf(Deltas(one, other))
<1> DEFINE both == DOMAIN one \intersect DOMAIN other
           v == Deltas(one, other)
           w == Deltas(other, one)
<1>1. DOMAIN v = both /\ DOMAIN w = both /\ both \subseteq DOMAIN one
  BY DEF Deltas
<1>2. IsFiniteSet(both)
  BY <1>1, FS_Subset DEF RowsGiven
<1>3. /\ \A key \in both : v[key] \in Int
      /\ \A key \in both : w[key] \in Int
      /\ \A key \in both : w[key] = -v[key]
  BY DEF Deltas, Delta
<1> HIDE DEF both, v, w
<1>4. SumFunctionOnSet(w, both) = -SumFunctionOnSet(v, both)
  BY <1>2, <1>3, SumsCompared
<1>5. SumFunctionOnSet(v, both) \in Int
  BY <1>2, <1>3, SumFacts
<1>6. SumOf(v) = SumFunctionOnSet(v, both) /\ SumOf(w) = SumFunctionOnSet(w, both)
  BY <1>1 DEF SumOf, SumFunction
<1>7. DOMAIN w = DOMAIN v /\ IsFiniteSet(DOMAIN v) /\ SumOf(v) \in Int /\ SumOf(w) = -SumOf(v)
  BY <1>1, <1>2, <1>4, <1>5, <1>6
<1> QED
  BY <1>7 DEF v, w

\* compare.py 405: exchanging two runs turns the sign of the estimate and leaves the
\* numbers of pairs.
LEMMA RunsMirror ==
  ASSUME NEW one, RowsGiven(one), NEW other, RowsGiven(other)
  PROVE  LET there == CompareRuns(one, other)
             back == CompareRuns(other, one)
         IN /\ there.refused = back.refused
            /\ ~there.refused => /\ Mirrored(there.estimate, back.estimate)
                                 /\ there.paired = back.paired /\ there.samples = back.samples
<1> DEFINE v == Deltas(one, other)
           w == Deltas(other, one)
           there == CompareRuns(one, other)
           back == CompareRuns(other, one)
           pairs == Cardinality(DOMAIN v)
<1>1. DOMAIN w = DOMAIN v /\ IsFiniteSet(DOMAIN v) /\ SumOf(v) \in Int /\ SumOf(w) = -SumOf(v)
  BY DeltasMirror
<1>2. pairs \in Nat
  BY <1>1, FS_CardinalityType
<1>3. DOMAIN Clusters(w) = SamplesOf(v) /\ DOMAIN Clusters(v) = SamplesOf(v)
  BY <1>1 DEF Clusters, SamplesOf
<1>4. CASE pairs = 0
  <2>1. there = Refused /\ back = Refused
    BY <1>1, <1>4 DEF CompareRuns
  <2>2. Refused.refused
    BY DEF Refused
  <2> HIDE DEF there, back, v, w, pairs
  <2>3. there.refused /\ back.refused /\ there.refused = back.refused
    BY <2>1, <2>2
  <2> QED
    BY <2>3 DEF there, back
<1>5. CASE pairs # 0
  <2>1. /\ there.refused = FALSE /\ there.estimate = <<SumOf(v), pairs>>
        /\ there.paired = pairs /\ there.samples = Cardinality(DOMAIN Clusters(v))
    BY <1>5 DEF CompareRuns
  <2>2. /\ back.refused = FALSE /\ back.estimate = <<SumOf(w), Cardinality(DOMAIN w)>>
        /\ back.paired = Cardinality(DOMAIN w) /\ back.samples = Cardinality(DOMAIN Clusters(w))
    BY <1>1, <1>5 DEF CompareRuns
  <2>3. /\ back.estimate = <<-SumOf(v), pairs>> /\ back.paired = pairs
        /\ back.samples = there.samples
    <3> HIDE DEF there, back, v, w
    <3> QED
      BY <1>1, <1>3, <2>1, <2>2
  <2> HIDE DEF there, back, v, w, pairs
  <2>4. Mirrored(there.estimate, back.estimate)
    <3>1. there.estimate[1] = SumOf(v) /\ there.estimate[2] = pairs
      BY <2>1
    <3>2. back.estimate[1] = -SumOf(v) /\ back.estimate[2] = pairs
      BY <2>3
    <3>3. -SumOf(v) * pairs = pairs * (-SumOf(v))
      BY <1>1, <1>2
    <3> QED
      BY <3>1, <3>2, <3>3, <1>1, <1>2 DEF Mirrored, SameFraction
  <2> QED
    BY <2>1, <2>2, <2>3, <2>4 DEF there, back
<1> QED
  BY <1>4, <1>5

\* experiment.py 43: the p-value does not depend on which arm the discordant pairs
\* favour.
LEMMA McNemarMirrors ==
  ASSUME NEW a \in Nat, NEW b \in Nat
  PROVE  McNemar(a, b) = McNemar(b, a)
<1> DEFINE TailOf(d, f) ==
             <<Min({2 * MapThenSumSet(LAMBDA k : choose(d, k), 0..f), 2 ^ d}), 2 ^ d>>
<1>1. /\ McNemar(a, b) = TailOf(a + b, Min({a, b}))
      /\ McNemar(b, a) = TailOf(b + a, Min({b, a}))
  BY Zenon DEF McNemar
<1>2. a + b = b + a
  OBVIOUS
<1>3. {a, b} = {b, a}
  OBVIOUS
<1> HIDE DEF TailOf
<1> QED
  BY <1>1, <1>2, <1>3, Zenon

\* The same instances are paired whichever arm comes first, and their difference
\* changes its sign.
LEMMA PairsMirror ==
  ASSUME NEW one, RowsGiven(one), NEW other, RowsGiven(other),
         NEW c1, NEW c2, NEW w1, NEW w2
  PROVE  LET there == PairInstances(one, other, <<c1, c2>>, <<w1, w2>>)
             back == PairInstances(other, one, <<c2, c1>>, <<w2, w1>>)
         IN /\ there.refused = back.refused
            /\ ~there.refused => /\ Mirrored(there.delta, back.delta)
                                 /\ there.excluded = back.excluded
                                 /\ there.p = back.p
<1> DEFINE there == PairInstances(one, other, <<c1, c2>>, <<w1, w2>>)
           back == PairInstances(other, one, <<c2, c1>>, <<w2, w1>>)
           paired == Pairable(SamplesOf(one), c1, c2)
           backwards == Pairable(SamplesOf(other), c2, c1)
           o == [sample \in paired |-> <<AllOf(sample) \subseteq w1, AllOf(sample) \subseteq w2>>]
           p == [sample \in backwards |-> <<AllOf(sample) \subseteq w2, AllOf(sample) \subseteq w1>>]
           out == Cardinality(SamplesOf(one) \ paired)
           Only(i) == Cardinality({s \in paired : o[s][i] /\ ~o[s][3 - i]})
           First == Only(1)
           Second == Only(2)
<1>1. Refused.refused
  BY DEF Refused
<1>2. there = IF DOMAIN one # DOMAIN other \/ paired = {} THEN Refused ELSE Paired(o, out)
  BY DEF PairInstances
<1>3. back = IF DOMAIN other # DOMAIN one \/ backwards = {} THEN Refused
             ELSE Paired(p, Cardinality(SamplesOf(other) \ backwards))
  BY DEF PairInstances
<1>4. DOMAIN one = DOMAIN other => SamplesOf(other) = SamplesOf(one) /\ backwards = paired
  BY DEF SamplesOf, Pairable
<1>5. CASE DOMAIN one # DOMAIN other \/ paired = {}
  <2>1. there = Refused /\ back = Refused
    <3> HIDE DEF there, back, o, p, paired, backwards
    <3> QED
      BY <1>2, <1>3, <1>4, <1>5
  <2> QED
    BY <1>1, <2>1
<1>6. CASE DOMAIN one = DOMAIN other /\ paired # {}
  <2>1. IsFiniteSet(paired)
    <3>1. SamplesOf(one) \subseteq Samples
      BY DEF SamplesOf, RowsGiven, Slots
    <3>2. paired \subseteq Samples
      BY <3>1 DEF Pairable
    <3> HIDE DEF paired
    <3> QED
      BY <3>2, RunReportAssumption, FS_Subset
  <2>2. First \in Nat /\ Second \in Nat /\ Cardinality(paired) \in Nat
    <3>1. /\ {s \in paired : o[s][1] /\ ~o[s][3 - 1]} \in SUBSET paired
          /\ {s \in paired : o[s][2] /\ ~o[s][3 - 2]} \in SUBSET paired
      OBVIOUS
    <3> HIDE DEF paired, o
    <3> QED
      BY <2>1, <3>1, FS_Subset, FS_CardinalityType
  <2>3. there = Paired(o, out) /\ back = Paired(p, out) /\ backwards = paired
    <3> HIDE DEF there, back, o, p, paired, backwards
    <3> QED
      BY <1>2, <1>3, <1>4, <1>6
  <2>4. DOMAIN o = paired /\ DOMAIN p = paired
    BY <2>3
  <2>5. /\ {s \in paired : p[s][1] /\ ~p[s][3 - 1]} = {s \in paired : o[s][2] /\ ~o[s][3 - 2]}
        /\ {s \in paired : p[s][2] /\ ~p[s][3 - 2]} = {s \in paired : o[s][1] /\ ~o[s][3 - 1]}
    BY <2>3
  <2>6. /\ there.refused = FALSE /\ there.excluded = out
        /\ there.delta = <<Second - First, Cardinality(paired)>>
        /\ there.p = McNemar(First, Second)
    <3> HIDE DEF there, o, paired, out
    <3>1. /\ Paired(o, out).refused = FALSE /\ Paired(o, out).excluded = out
          /\ Paired(o, out).delta = <<Second - First, Cardinality(paired)>>
          /\ Paired(o, out).p = McNemar(First, Second)
      BY <2>4 DEF Paired, Quantify
    <3> QED
      BY <2>3, <3>1
  <2>7. /\ back.refused = FALSE /\ back.excluded = out
        /\ back.delta = <<First - Second, Cardinality(paired)>>
        /\ back.p = McNemar(Second, First)
    <3> HIDE DEF back, o, p, paired, out
    <3>1. /\ Paired(p, out).refused = FALSE /\ Paired(p, out).excluded = out
          /\ Paired(p, out).delta = <<First - Second, Cardinality(paired)>>
          /\ Paired(p, out).p = McNemar(Second, First)
      BY <2>4, <2>5 DEF Paired, Quantify
    <3> QED
      BY <2>3, <3>1
  <2> HIDE DEF there, back, First, Second, paired, out, o, p
  <2>8. Mirrored(there.delta, back.delta)
    <3>1. there.delta[1] = Second - First /\ there.delta[2] = Cardinality(paired)
      BY <2>6
    <3>2. back.delta[1] = First - Second /\ back.delta[2] = Cardinality(paired)
      BY <2>7
    <3>3. -(Second - First) * Cardinality(paired) = Cardinality(paired) * (First - Second)
      BY <2>2
    <3> QED
      BY <2>2, <3>1, <3>2, <3>3 DEF Mirrored, SameFraction
  <2>9. there.p = back.p
    BY <2>2, <2>6, <2>7, McNemarMirrors
  <2> QED
    BY <2>6, <2>7, <2>8, <2>9 DEF there, back
<1> QED
  BY <1>5, <1>6

(***************************************************************************)
(* How many draws there are: factorials and binomials.                      *)
(***************************************************************************)
\* Induction over the naturals, without an operator.
LEMMA AllNaturals ==
  ASSUME NEW Good, 0 \in Good, \A n \in Nat : n \in Good => n + 1 \in Good
  PROVE  Nat \subseteq Good
<1> DEFINE Bad == Nat \ Good
<1> SUFFICES ASSUME Bad # {} PROVE FALSE
  OBVIOUS
<1>0. Bad \subseteq Nat
  OBVIOUS
<1> HIDE DEF Bad
<1>1. PICK n \in Bad : \A m \in Bad : ~(<<m, n>> \in OpToRel(<, Nat))
  BY <1>0, NatLessThanWellFounded, WFMin
<1>2. \A m \in Bad : ~(m < n)
  BY <1>0, <1>1 DEF OpToRel
<1> USE DEF Bad
<1>3. n # 0 /\ n \in Nat /\ n - 1 \in Nat /\ n - 1 < n
  OBVIOUS
<1>4. n - 1 \in Good
  BY <1>2, <1>3
<1>5. (n - 1) + 1 = n
  BY <1>3
<1> QED
  BY <1>3, <1>4, <1>5

\* The factorials up to n.
FactorialUpTo(f, n) ==
  /\ f \in [0..n -> Nat \ {0}]
  /\ f[0] = 1
  /\ \A i \in 1..n : f[i] = i * f[i - 1]

\* There are factorials up to any number.
LEMMA FactorialsExist == \A n \in Nat : \E f : FactorialUpTo(f, n)
<1> DEFINE Good == {n \in Nat : \E f : FactorialUpTo(f, n)}
<1>1. 0 \in Good
  <2>1. FactorialUpTo([i \in 0..0 |-> 1], 0)
    BY DEF FactorialUpTo
  <2> QED
    BY <2>1
<1>2. ASSUME NEW n \in Nat, n \in Good PROVE n + 1 \in Good
  <2>1. PICK f : FactorialUpTo(f, n)
    BY <1>2
  <2> DEFINE g == [i \in 0..(n + 1) |-> IF i = n + 1 THEN (n + 1) * f[n] ELSE f[i]]
  <2>2. f[n] \in Nat \ {0} /\ (n + 1) * f[n] \in Nat \ {0}
    BY <2>1 DEF FactorialUpTo
  <2>3. g \in [0..(n + 1) -> Nat \ {0}]
    BY <2>1, <2>2 DEF FactorialUpTo
  <2>4. g[0] = 1
    BY <2>1 DEF FactorialUpTo
  <2>5. ASSUME NEW i \in 1..(n + 1) PROVE g[i] = i * g[i - 1]
    <3>1. CASE i = n + 1
      BY <2>1, <3>1
    <3>2. CASE i # n + 1
      BY <2>1, <3>2 DEF FactorialUpTo
    <3> QED
      BY <3>1, <3>2
  <2> HIDE DEF g
  <2>6. FactorialUpTo(g, n + 1)
    BY <2>3, <2>4, <2>5 DEF FactorialUpTo
  <2> QED
    BY <2>6
<1> HIDE DEF Good
<1>3. Nat \subseteq Good
  BY <1>1, <1>2, AllNaturals
<1> QED
  BY <1>3 DEF Good

\* ... and only one of each.
LEMMA FactorialsAgree ==
  ASSUME NEW m \in Nat, NEW n \in Nat, m <= n, NEW f, FactorialUpTo(f, m), NEW g, FactorialUpTo(g, n)
  PROVE  f[m] = g[m]
<1> DEFINE Good == {i \in Nat : i <= m => f[i] = g[i]}
<1>1. 0 \in Good
  BY DEF FactorialUpTo
<1>2. ASSUME NEW i \in Nat, i \in Good PROVE i + 1 \in Good
  <2>1. SUFFICES ASSUME i + 1 <= m PROVE f[i + 1] = g[i + 1]
    OBVIOUS
  <2>2. i + 1 \in 1..m /\ i + 1 \in 1..n /\ (i + 1) - 1 = i /\ f[i] = g[i]
    BY <1>2, <2>1
  <2> QED
    BY <2>2 DEF FactorialUpTo
<1> HIDE DEF Good
<1>3. Nat \subseteq Good
  BY <1>1, <1>2, AllNaturals
<1> QED
  BY <1>3 DEF Good

\* Combinatorics!factorial is the factorial.
LEMMA FactorialFacts ==
  /\ factorial[0] = 1
  /\ \A n \in Nat : factorial[n] \in Nat \ {0}
  /\ \A n \in Nat : factorial[n + 1] = (n + 1) * factorial[n]
<1> DEFINE Solves(h) == h = [n \in Nat |-> IF n = 0 THEN 1 ELSE n * h[n - 1]]
           Of(n) == CHOOSE f : FactorialUpTo(f, n)
           F == [n \in Nat |-> Of(n)[n]]
<1>1. \A n \in Nat : FactorialUpTo(Of(n), n)
  BY FactorialsExist
<1>2. \A n \in Nat : F[n] = IF n = 0 THEN 1 ELSE n * F[n - 1]
  <2> SUFFICES ASSUME NEW n \in Nat PROVE F[n] = IF n = 0 THEN 1 ELSE n * F[n - 1]
    OBVIOUS
  <2>1. CASE n = 0
    BY <1>1, <2>1 DEF FactorialUpTo
  <2>2. CASE n # 0
    <3>1. n - 1 \in Nat /\ n - 1 <= n /\ n \in 1..n
      BY <2>2
    <3>2. FactorialUpTo(Of(n), n) /\ FactorialUpTo(Of(n - 1), n - 1)
      BY <1>1, <3>1
    <3>3. F[n] = Of(n)[n] /\ F[n - 1] = Of(n - 1)[n - 1]
      BY <3>1
    <3> HIDE DEF Of, F
    <3>4. Of(n - 1)[n - 1] = Of(n)[n - 1]
      BY <3>1, <3>2, FactorialsAgree
    <3>5. Of(n)[n] = n * Of(n)[n - 1]
      BY <3>1, <3>2 DEF FactorialUpTo
    <3> QED
      BY <2>2, <3>3, <3>4, <3>5
  <2> QED
    BY <2>1, <2>2
<1> HIDE DEF Of, F
<1>3. Solves(F)
  BY <1>2 DEF F
<1>4. factorial = CHOOSE h : Solves(h)
  BY Zenon DEF factorial
<1>5. Solves(factorial)
  <2> HIDE DEF Solves
  <2> QED
    BY <1>3, <1>4, Zenon
<1>6. factorial[0] = 1 /\ \A n \in Nat : factorial[n + 1] = (n + 1) * factorial[n]
  <2>1. \A n \in Nat : factorial[n] = IF n = 0 THEN 1 ELSE n * factorial[n - 1]
    BY <1>5
  <2>2. \A n \in Nat : n + 1 \in Nat /\ n + 1 # 0 /\ (n + 1) - 1 = n
    OBVIOUS
  <2> QED
    BY <2>1, <2>2
<1>7. \A n \in Nat : factorial[n] \in Nat \ {0}
  <2> DEFINE Good == {n \in Nat : factorial[n] \in Nat \ {0}}
  <2>1. 0 \in Good
    BY <1>6
  <2>0. \A a \in Nat : \A b \in Nat \ {0} : (a + 1) * b \in Nat \ {0}
    OBVIOUS
  <2>2. ASSUME NEW n \in Nat, n \in Good PROVE n + 1 \in Good
    <3>1. factorial[n] \in Nat \ {0} /\ factorial[n + 1] = (n + 1) * factorial[n]
      BY <1>6, <2>2
    <3>2. factorial[n + 1] \in Nat \ {0}
      BY <2>0, <3>1
    <3> QED
      BY <3>2
  <2> HIDE DEF Good
  <2>3. Nat \subseteq Good
    BY <2>1, <2>2, AllNaturals
  <2> QED
    BY <2>3 DEF Good
<1> QED
  BY <1>6, <1>7

\* The subsets with one member more: those without x, and those with it.
LEMMA SubsetsGrow ==
  ASSUME NEW T, IsFiniteSet(T), NEW x, x \notin T, NEW k \in Nat
  PROVE  Cardinality(kSubset(k + 1, T \union {x}))
           = Cardinality(kSubset(k + 1, T)) + Cardinality(kSubset(k, T))
<1> DEFINE Tx == T \union {x}
           A == kSubset(k + 1, T)
           K == kSubset(k, T)
           B == {u \union {x} : u \in K}
           f == [u \in K |-> u \union {x}]
<1>1. \A u \in SUBSET T : IsFiniteSet(u) /\ Cardinality(u \union {x}) = Cardinality(u) + 1
                            /\ Cardinality(u) \in Nat
  <2> SUFFICES ASSUME NEW u \in SUBSET T
               PROVE  IsFiniteSet(u) /\ Cardinality(u \union {x}) = Cardinality(u) + 1
                        /\ Cardinality(u) \in Nat
    OBVIOUS
  <2>1. IsFiniteSet(u) /\ x \notin u
    BY FS_Subset
  <2> QED
    BY <2>1, FS_AddElement, FS_CardinalityType
<1>2. f \in Bijection(K, B)
  <2>1. f \in Surjection(K, B)
    BY DEF Surjection
  <2>2. f \in Injection(K, B)
    <3>1. ASSUME NEW u \in K, NEW w \in K, f[u] = f[w] PROVE u = w
      <4>1. u \subseteq T /\ w \subseteq T /\ u \union {x} = w \union {x}
        BY <3>1 DEF kSubset
      <4> HIDE DEF K, f
      <4> QED
        BY <4>1
    <3>2. f \in [K -> B]
      OBVIOUS
    <3> HIDE DEF K, B, f
    <3> QED
      BY <3>1, <3>2 DEF Injection, IsInjective
  <2> QED
    BY <2>1, <2>2 DEF Bijection
<1>3. A \subseteq SUBSET T /\ K \subseteq SUBSET T
  BY DEF kSubset
<1>4. A \intersect B = {}
  BY <1>3
<1>5. kSubset(k + 1, Tx) = A \union B
  <2>1. ASSUME NEW s \in kSubset(k + 1, Tx) PROVE s \in A \union B
    <3>1. s \subseteq Tx /\ Cardinality(s) = k + 1
      BY DEF kSubset
    <3>2. CASE x \in s
      <4>1. s \ {x} \in SUBSET T /\ (s \ {x}) \union {x} = s
        BY <3>1, <3>2
      <4>2. Cardinality(s \ {x}) = k
        BY <1>1, <3>1, <4>1
      <4>3. s \ {x} \in K
        BY <4>1, <4>2 DEF kSubset
      <4> HIDE DEF K
      <4> QED
        BY <4>1, <4>3
    <3>3. CASE x \notin s
      BY <3>1, <3>3 DEF kSubset
    <3> QED
      BY <3>2, <3>3
  <2>2. ASSUME NEW s \in A PROVE s \in kSubset(k + 1, Tx)
    BY DEF kSubset
  <2>3. ASSUME NEW s \in B PROVE s \in kSubset(k + 1, Tx)
    <3> HIDE DEF K
    <3>1. PICK u \in K : s = u \union {x}
      OBVIOUS
    <3> USE DEF K
    <3>2. u \in SUBSET T /\ Cardinality(u) = k
      BY DEF kSubset
    <3>3. Cardinality(s) = k + 1 /\ s \subseteq Tx
      BY <1>1, <3>1, <3>2
    <3> QED
      BY <3>3 DEF kSubset
  <2> QED
    BY <2>1, <2>2, <2>3
<1>6. IsFiniteSet(SUBSET T)
  BY FS_SUBSET
<1> HIDE DEF A, K, B, f
<1>7. IsFiniteSet(A) /\ IsFiniteSet(K)
  BY <1>3, <1>6, FS_Subset
<1>8. IsFiniteSet(B) /\ Cardinality(B) = Cardinality(K)
  BY <1>2, <1>7, FS_Bijection DEF ExistsBijection
<1>9. Cardinality(A \union B) = Cardinality(A) + Cardinality(B) - Cardinality(A \intersect B)
  BY <1>7, <1>8, FS_Union
<1>10. Cardinality(A) \in Nat /\ Cardinality(K) \in Nat /\ Cardinality({}) = 0
  BY <1>7, FS_CardinalityType, FS_EmptySet
<1> HIDE DEF Tx
<1>11. Cardinality(A \union B) = Cardinality(A) + Cardinality(K)
  <2>1. Cardinality(A \intersect B) = 0
    BY <1>4, <1>10
  <2> QED
    BY <1>8, <1>9, <1>10, <2>1
<1>12. Cardinality(kSubset(k + 1, Tx)) = Cardinality(A) + Cardinality(K)
  BY <1>5, <1>11
<1> QED
  BY <1>12 DEF A, K, Tx

\* Of a finite set, there are so many subsets with k members.
LEMMA SubsetsOfSize ==
  ASSUME NEW S, IsFiniteSet(S), NEW k \in Nat
  PROVE  /\ IsFiniteSet(kSubset(k, S)) /\ Cardinality(kSubset(k, S)) \in Nat
         /\ Cardinality(kSubset(0, S)) = 1
         /\ k > Cardinality(S) => kSubset(k, S) = {}
<1>1. kSubset(k, S) \in SUBSET SUBSET S
  BY DEF kSubset
<1>2. IsFiniteSet(kSubset(k, S)) /\ Cardinality(kSubset(k, S)) \in Nat
  BY <1>1, FS_SUBSET, FS_Subset, FS_CardinalityType
<1>3. kSubset(0, S) = {{}}
  BY FS_EmptySet, FS_Subset DEF kSubset
<1>4. Cardinality(kSubset(0, S)) = 1
  BY <1>3, FS_Singleton
<1>5. ASSUME k > Cardinality(S), NEW s \in kSubset(k, S) PROVE FALSE
  <2>1. s \in SUBSET S /\ Cardinality(s) = k
    BY DEF kSubset
  <2>2. Cardinality(s) <= Cardinality(S) /\ Cardinality(S) \in Nat
    BY <2>1, FS_Subset, FS_CardinalityType
  <2> QED
    BY <1>5, <2>1, <2>2
<1> QED
  BY <1>2, <1>4, <1>5

\* The subsets with k members, times the orders of their members and of the others,
\* are the orders of all.
LEMMA SubsetsAndOrders ==
  ASSUME NEW S, IsFiniteSet(S), NEW k \in 0..Cardinality(S)
  PROVE  Cardinality(kSubset(k, S)) * (factorial[k] * factorial[Cardinality(S) - k])
           = factorial[Cardinality(S)]
<1> DEFINE Orders(j, T) ==
             Cardinality(kSubset(j, T)) * (factorial[j] * factorial[Cardinality(T) - j])
               = factorial[Cardinality(T)]
           Good == {T \in SUBSET S : \A j \in 0..Cardinality(T) : Orders(j, T)}
<1>0. /\ factorial[0] = 1
      /\ \A n \in Nat : factorial[n] \in Nat \ {0}
      /\ \A n \in Nat : factorial[n + 1] = (n + 1) * factorial[n]
  BY FactorialFacts
<1>1. ASSUME NEW T, IsFiniteSet(T) PROVE Orders(0, T)
  <2>1. Cardinality(kSubset(0, T)) = 1 /\ Cardinality(T) \in Nat /\ Cardinality(T) - 0 = Cardinality(T)
    BY <1>1, SubsetsOfSize, FS_CardinalityType
  <2>2. factorial[Cardinality(T)] \in Nat
    BY <1>0, <2>1
  <2>3. 1 * (1 * factorial[Cardinality(T)]) = factorial[Cardinality(T)]
    BY <2>2
  <2> QED
    BY <1>0, <2>1, <2>3
<1>2. {} \in Good
  <2>1. 0..Cardinality({}) = {0}
    BY FS_EmptySet
  <2>2. Orders(0, {})
    BY <1>1, FS_EmptySet
  <2> HIDE DEF Orders
  <2> QED
    BY <2>1, <2>2
<1>3. ASSUME NEW T \in SUBSET S, NEW x \in S \ T, T \in Good PROVE T \union {x} \in Good
  <2> DEFINE Tx == T \union {x}
             m == Cardinality(T)
  <2>1. IsFiniteSet(T) /\ m \in Nat /\ IsFiniteSet(Tx) /\ Cardinality(Tx) = m + 1
    BY FS_Subset, FS_CardinalityType, FS_AddElement
  <2>2. ASSUME NEW j \in 0..m PROVE Orders(j + 1, Tx)
    <3> DEFINE a == Cardinality(kSubset(j + 1, T))
               b == Cardinality(kSubset(j, T))
               p == factorial[j]
    <3>0. j \in Nat /\ j + 1 \in Nat /\ m - j \in Nat
      BY <2>1
    <3>1. Cardinality(kSubset(j + 1, Tx)) = a + b
      BY <2>1, <3>0, SubsetsGrow
    <3>2. a \in Nat /\ b \in Nat /\ p \in Nat /\ factorial[m] \in Nat /\ factorial[m - j] \in Nat
      BY <1>0, <2>1, <3>0, SubsetsOfSize
    <3>3. b * (p * factorial[m - j]) = factorial[m]
      BY <1>3
    <3>4. factorial[j + 1] = (j + 1) * p /\ factorial[m + 1] = (m + 1) * factorial[m]
      BY <1>0, <2>1, <3>0
    <3>5. (m + 1) - (j + 1) = m - j
      BY <2>1, <3>0
    <3>6. SUFFICES (a + b) * (((j + 1) * p) * factorial[m - j]) = (m + 1) * factorial[m]
      BY <2>1, <3>1, <3>4, <3>5
    <3>7. CASE j = m
      <4>1. a = 0
        <5>0. j + 1 > Cardinality(T)
          BY <2>1, <3>7
        <5> HIDE DEF a, b, p, m
        <5>1. kSubset(j + 1, T) = {}
          BY <2>1, <3>0, <5>0, SubsetsOfSize
        <5> USE DEF a
        <5> QED
          BY <5>1, FS_EmptySet
      <4>2. factorial[m - j] = 1
        BY <1>0, <2>1, <3>7
      <4>3. b * (p * 1) = factorial[m]
        BY <3>3, <4>2
      <4> HIDE DEF a, b, p, m
      <4>4. (0 + b) * (((m + 1) * p) * 1) = (m + 1) * (b * (p * 1))
        BY <2>1, <3>2
      <4> QED
        BY <3>7, <4>1, <4>2, <4>3, <4>4
    <3>8. CASE j # m
      <4> DEFINE q == factorial[m - (j + 1)]
      <4>1. m - (j + 1) \in Nat /\ (m - (j + 1)) + 1 = m - j /\ j + 1 \in 0..m
        BY <2>1, <3>0, <3>8
      <4>2. q \in Nat /\ factorial[m - j] = (m - j) * q
        BY <1>0, <4>1
      <4>3. a * (((j + 1) * p) * q) = factorial[m]
        <5>1. Orders(j + 1, T)
          BY <1>3, <4>1
        <5> QED
          BY <3>4, <5>1
      <4>4. b * (p * ((m - j) * q)) = factorial[m]
        BY <3>3, <4>2
      <4>5. (a + b) * (((j + 1) * p) * ((m - j) * q)) = ((j + 1) + (m - j)) * factorial[m]
        <5> DEFINE u == j + 1
                   w == m - j
                   F == factorial[m]
        <5>1. a \in Nat /\ b \in Nat /\ p \in Nat /\ q \in Nat /\ u \in Nat /\ w \in Nat /\ F \in Nat
          BY <3>0, <3>2, <4>2
        <5>2. a * ((u * p) * q) = F
          BY <4>3
        <5>3. b * (p * (w * q)) = F
          BY <4>4
        <5> HIDE DEF a, b, p, q, u, w, F
        <5>4. (a + b) * ((u * p) * (w * q)) = w * (a * ((u * p) * q)) + u * (b * (p * (w * q)))
          BY <5>1
        <5>5. w * F + u * F = (u + w) * F
          BY <5>1
        <5>6. (a + b) * ((u * p) * (w * q)) = (u + w) * F
          BY <5>2, <5>3, <5>4, <5>5
        <5> QED
          BY <5>6 DEF u, w, F
      <4> HIDE DEF a, b, p, q, m
      <4>6. (j + 1) + (m - j) = m + 1
        BY <2>1, <3>0
      <4> QED
        BY <4>2, <4>5, <4>6
    <3> QED
      BY <3>7, <3>8
  <2>3. Orders(0, Tx)
    BY <1>1, <2>1
  <2>4. ASSUME NEW j \in 0..Cardinality(Tx) PROVE Orders(j, Tx)
    <3> HIDE DEF Orders
    <3>1. CASE j = 0
      BY <2>3, <3>1
    <3>2. CASE j # 0
      <4>1. j - 1 \in 0..m /\ (j - 1) + 1 = j
        BY <2>1, <3>2
      <4>2. Orders((j - 1) + 1, Tx)
        BY <2>2, <4>1
      <4> QED
        BY <4>1, <4>2
    <3> QED
      BY <3>1, <3>2
  <2> HIDE DEF Orders
  <2> QED
    BY <2>4
<1> HIDE DEF Good
<1>4. S \in Good
  BY <1>2, <1>3, AllGood
<1> QED
  BY <1>4 DEF Good

\* A product divided by one of its factors.
LEMMA DivideBack ==
  ASSUME NEW b \in Nat, NEW d \in Nat \ {0}
  PROVE  (b * d) \div d = b
OBVIOUS

\* Combinatorics!choose counts them.
LEMMA ChooseCounts ==
  ASSUME NEW S, IsFiniteSet(S), NEW k \in 0..Cardinality(S)
  PROVE  choose(Cardinality(S), k) = Cardinality(kSubset(k, S))
<1> DEFINE n == Cardinality(S)
           b == Cardinality(kSubset(k, S))
           d == factorial[k] * factorial[n - k]
<1>1. n \in Nat /\ k \in Nat /\ n - k \in Nat
  BY FS_CardinalityType
<1>2. b \in Nat
  BY <1>1, SubsetsOfSize
<1>3. d \in Nat \ {0}
  <2>1. factorial[k] \in Nat \ {0} /\ factorial[n - k] \in Nat \ {0}
    BY <1>1, FactorialFacts
  <2>2. \A p, q \in Nat \ {0} : p * q \in Nat \ {0}
    OBVIOUS
  <2> QED
    BY <2>1, <2>2
<1>4. b * d = factorial[n]
  BY SubsetsAndOrders
<1>5. choose(n, k) = factorial[n] \div d
  BY DEF choose
<1> HIDE DEF n, b, d
<1>6. choose(n, k) = b
  BY <1>2, <1>3, <1>4, <1>5, DivideBack
<1> QED
  BY <1>6 DEF n, b

(***************************************************************************)
(* Estimates, and the draws they are of.                                    *)
(***************************************************************************)
\* The attempts of a sample, with and without a pass.
LEMMA AttemptFacts ==
  ASSUME NEW rows, RowsGiven(rows), NEW sample
  PROVE  /\ AttemptsOf(rows, sample) \subseteq DOMAIN rows
         /\ AttemptsOf(rows, sample) \subseteq AllOf(sample)
         /\ IsFiniteSet(AttemptsOf(rows, sample))
<1>1. AttemptsOf(rows, sample) \subseteq DOMAIN rows
  BY DEF AttemptsOf
<1>2. AttemptsOf(rows, sample) \subseteq AllOf(sample)
  BY DEF AttemptsOf, AllOf, RowsGiven, Slots
<1>3. IsFiniteSet(AttemptsOf(rows, sample))
  BY <1>1, FS_Subset DEF RowsGiven
<1> QED
  BY <1>1, <1>2, <1>3

\* pass@k of one sample is the share of draws with a pass among them.
LEMMA PassAtKOfAttempts ==
  ASSUME NEW attempts, IsFiniteSet(attempts), NEW passed \in SUBSET attempts,
         NEW k \in Nat \ {0}, Cardinality(attempts) >= k
  PROVE  LET draws == kSubset(k, attempts)
             lucky == {draw \in draws : draw \intersect passed # {}}
         IN SameFraction(PassAtK(Cardinality(attempts), Cardinality(passed), k),
                         <<Cardinality(lucky), Cardinality(draws)>>)
<1> DEFINE n == Cardinality(attempts)
           c == Cardinality(passed)
           rest == attempts \ passed
           draws == kSubset(k, attempts)
           lucky == {draw \in draws : draw \intersect passed # {}}
           unlucky == kSubset(k, rest)
<1>1. n \in Nat /\ c \in Nat /\ c <= n /\ k \in 0..n
  BY FS_CardinalityType, FS_Subset
<1>2. IsFiniteSet(rest) /\ Cardinality(rest) = n - c
  <2>1. attempts \intersect passed = passed
    OBVIOUS
  <2> QED
    BY <2>1, FS_Difference
<1>3. /\ IsFiniteSet(draws) /\ Cardinality(draws) \in Nat /\ Cardinality(draws) = choose(n, k)
  BY <1>1, SubsetsOfSize, ChooseCounts
<1>4. unlucky \subseteq draws /\ lucky = draws \ unlucky
  BY DEF kSubset
<1>5. IsFiniteSet(unlucky) /\ Cardinality(unlucky) \in Nat
  BY <1>2, SubsetsOfSize
<1>6. Cardinality(lucky) = Cardinality(draws) - Cardinality(unlucky)
  <2>1. draws \intersect unlucky = unlucky
    BY <1>4
  <2> HIDE DEF draws, unlucky, lucky
  <2>2. Cardinality(draws \ unlucky) = Cardinality(draws) - Cardinality(draws \intersect unlucky)
    BY <1>3, FS_Difference
  <2> QED
    BY <1>4, <2>1, <2>2
<1> HIDE DEF lucky, draws
<1>7. CASE n - c < k
  <2>1. unlucky = {}
    BY <1>1, <1>2, <1>7, SubsetsOfSize
  <2>2. Cardinality(unlucky) = 0
    BY <2>1, FS_EmptySet
  <2>3. PassAtK(n, c, k) = <<1, 1>>
    BY <1>7 DEF PassAtK
  <2>4. Cardinality(lucky) = Cardinality(draws)
    BY <1>3, <1>6, <2>2
  <2>5. SameFraction(PassAtK(n, c, k), <<Cardinality(lucky), Cardinality(draws)>>)
    BY <1>3, <2>3, <2>4 DEF SameFraction
  <2> QED
    BY <2>5 DEF lucky, draws
<1>8. CASE ~(n - c < k)
  <2>1. Cardinality(unlucky) = choose(n - c, k)
    <3>1. k \in 0..Cardinality(rest)
      BY <1>1, <1>2, <1>8
    <3>2. choose(Cardinality(rest), k) = Cardinality(unlucky)
      BY <1>2, <3>1, ChooseCounts
    <3> QED
      BY <1>2, <3>2
  <2>2. PassAtK(n, c, k) = <<choose(n, k) - choose(n - c, k), choose(n, k)>>
    BY <1>8 DEF PassAtK
  <2> HIDE DEF unlucky
  <2>3. PassAtK(n, c, k) = <<Cardinality(lucky), Cardinality(draws)>>
    BY <1>3, <1>6, <2>1, <2>2
  <2>4. Cardinality(lucky) \in Int
    BY <1>3, <1>5, <1>6
  <2>5. SameFraction(PassAtK(n, c, k), <<Cardinality(lucky), Cardinality(draws)>>)
    <3>1. Cardinality(lucky) * Cardinality(draws) = Cardinality(lucky) * Cardinality(draws)
      OBVIOUS
    <3> QED
      BY <2>3, <3>1 DEF SameFraction
  <2> QED
    BY <2>5 DEF lucky, draws
<1> QED
  BY <1>7, <1>8

\* A manifest asks for so many attempts of a sample.
LEMMA AllAttempts ==
  ASSUME NEW sample
  PROVE  IsFiniteSet(AllOf(sample)) /\ Cardinality(AllOf(sample)) = Attempts
<1> DEFINE I == 1..Attempts
           A == AllOf(sample)
           f == [i \in I |-> <<sample, i>>]
<1>1. Attempts \in Nat /\ IsFiniteSet(I) /\ Cardinality(I) = Attempts
  BY RunStatisticsAssumption, FS_Interval
<1>2. A = {<<sample, i>> : i \in I}
  BY DEF AllOf
<1>3. f \in [I -> A] /\ DOMAIN f = I
  BY <1>2
<1>4. \A i, j \in I : f[i] = f[j] => i = j
  OBVIOUS
<1>5. \A a \in A : \E i \in I : f[i] = a
  BY <1>2
<1> HIDE DEF I, A, f
<1>6. f \in Bijection(I, A)
  BY <1>3, <1>4, <1>5 DEF Bijection, Injection, IsInjective, Surjection
<1>7. IsFiniteSet(A) /\ Cardinality(A) = Attempts
  BY <1>1, <1>6, FS_Bijection DEF ExistsBijection
<1> QED
  BY <1>7 DEF A

\* reliability.py 60-116, for the rows of a run.
LEMMA PassAtKOfRows ==
  ASSUME NEW rows, RowsGiven(rows)
  PROVE  /\ \A k \in 1..Attempts : \A sample \in DOMAIN PassAtKBySample(rows, k) :
              LET draws == kSubset(k, AttemptsOf(rows, sample))
                  lucky == {draw \in draws : \E slot \in draw : IsPass(rows[slot])}
              IN SameFraction(PassAtKBySample(rows, k)[sample],
                              <<Cardinality(lucky), Cardinality(draws)>>)
         /\ ReportAggregates(rows).passAtK # None =>
              DOMAIN ReportAggregates(rows).passAtK
                = {s \in Samples : AllOf(s) \subseteq DOMAIN rows}
<1>1. ASSUME NEW k \in 1..Attempts, NEW sample \in DOMAIN PassAtKBySample(rows, k)
      PROVE  LET draws == kSubset(k, AttemptsOf(rows, sample))
                 lucky == {draw \in draws : \E slot \in draw : IsPass(rows[slot])}
             IN SameFraction(PassAtKBySample(rows, k)[sample],
                             <<Cardinality(lucky), Cardinality(draws)>>)
  <2> DEFINE attempts == AttemptsOf(rows, sample)
             passed == {slot \in attempts : IsPass(rows[slot])}
             draws == kSubset(k, attempts)
             lucky == {draw \in draws : \E slot \in draw : IsPass(rows[slot])}
             share == PassAtK(Cardinality(attempts), Cardinality(passed), k)
  <2>1. IsFiniteSet(attempts) /\ Cardinality(attempts) >= k
    BY AttemptFacts DEF PassAtKBySample
  <2>2. k \in Nat \ {0}
    BY RunStatisticsAssumption
  <2>3. PassAtKBySample(rows, k)[sample] = share
    BY DEF PassAtKBySample, Quantify
  <2>4. lucky = {draw \in draws : draw \intersect passed # {}}
    BY DEF kSubset
  <2>5. passed \in SUBSET attempts
    OBVIOUS
  <2> HIDE DEF attempts, passed, share
  <2>6. SameFraction(PassAtK(Cardinality(attempts), Cardinality(passed), k),
                     <<Cardinality({draw \in draws : draw \intersect passed # {}}),
                       Cardinality(draws)>>)
    BY <2>1, <2>2, <2>5, PassAtKOfAttempts
  <2> HIDE DEF draws, lucky
  <2>7. SameFraction(share, <<Cardinality(lucky), Cardinality(draws)>>)
    BY <2>4, <2>6 DEF share
  <2> QED
    BY <2>3, <2>7 DEF attempts, draws, lucky
<1>2. ASSUME NEW s PROVE Cardinality(AttemptsOf(rows, s)) >= Attempts <=> AllOf(s) \subseteq DOMAIN rows
  <2> DEFINE A == AttemptsOf(rows, s)
             All == AllOf(s)
  <2>1. A \subseteq DOMAIN rows /\ A \subseteq All /\ IsFiniteSet(A)
    BY AttemptFacts
  <2>2. IsFiniteSet(All) /\ Cardinality(All) = Attempts
    BY AllAttempts
  <2>3. All \subseteq DOMAIN rows => All \subseteq A
    BY DEF AttemptsOf, AllOf
  <2> HIDE DEF A, All
  <2>4. Cardinality(A) \in Nat /\ Attempts \in Nat /\ Cardinality(A) <= Attempts
    BY <2>1, <2>2, FS_CardinalityType, FS_Subset
  <2>5. Cardinality(A) = Attempts => A = All
    BY <2>1, <2>2, FS_Subset
  <2>6. Cardinality(A) >= Attempts <=> All \subseteq DOMAIN rows
    <3>1. ASSUME Cardinality(A) >= Attempts PROVE All \subseteq DOMAIN rows
      BY <2>1, <2>4, <2>5, <3>1
    <3>2. ASSUME All \subseteq DOMAIN rows PROVE Cardinality(A) >= Attempts
      <4>1. A = All
        BY <2>1, <2>3, <3>2
      <4> QED
        BY <2>2, <2>4, <4>1
    <3> QED
      BY <3>1, <3>2
  <2> QED
    BY <2>6 DEF A, All
<1>3. {s \in SamplesOf(rows) : Cardinality(AttemptsOf(rows, s)) >= Attempts}
        = {s \in Samples : AllOf(s) \subseteq DOMAIN rows}
  <2>1. SamplesOf(rows) \subseteq Samples
    BY DEF SamplesOf, RowsGiven, Slots
  <2>2. \A s : AllOf(s) \subseteq DOMAIN rows => s \in SamplesOf(rows)
    <3> SUFFICES ASSUME NEW s, AllOf(s) \subseteq DOMAIN rows PROVE s \in SamplesOf(rows)
      OBVIOUS
    <3>1. <<s, 1>> \in AllOf(s)
      BY RunStatisticsAssumption DEF AllOf
    <3> QED
      BY <3>1 DEF SamplesOf
  <2> QED
    BY <1>2, <2>1, <2>2
<1>4. DOMAIN PassAtKBySample(rows, Attempts)
        = {s \in SamplesOf(rows) : Cardinality(AttemptsOf(rows, s)) >= Attempts}
  BY DEF PassAtKBySample
<1>5. ReportAggregates(rows).passAtK # None
        => ReportAggregates(rows).passAtK = PassAtKBySample(rows, Attempts)
  BY DEF ReportAggregates
<1> QED
  BY <1>1, <1>3, <1>4, <1>5

\* Sums over the things of one kind each add up to the sum over all.
LEMMA SumsOfKinds ==
  ASSUME NEW D, IsFiniteSet(D), NEW B, IsFiniteSet(B), NEW kind, \A s \in D : kind[s] \in B,
         NEW v, \A s \in D : v[s] \in Int,
         NEW w, \A b \in B : w[b] = SumFunctionOnSet(v, OfKind(D, kind, b))
  PROVE  SumFunctionOnSet(w, B) = SumFunctionOnSet(v, D)
<1> DEFINE Of(T) == {s \in D : kind[s] \in T}
           Good == {T \in SUBSET B : SumFunctionOnSet(w, T) = SumFunctionOnSet(v, Of(T))}
<1>1. /\ SumFunctionOnSet(v, {}) = 0
      /\ \A T \in SUBSET D : SumFunctionOnSet(v, T) \in Int
  BY SumFacts
<1>2. ASSUME NEW b \in B PROVE w[b] = SumFunctionOnSet(v, Of({b})) /\ w[b] \in Int
  <2>1. Of({b}) = OfKind(D, kind, b) /\ Of({b}) \in SUBSET D
    BY DEF OfKind
  <2> QED
    BY <1>1, <2>1
<1>3. /\ SumFunctionOnSet(w, {}) = 0
      /\ \A T \in SUBSET B : \A x \in T : SumFunctionOnSet(w, T) = w[x] + SumFunctionOnSet(w, T \ {x})
  <2>1. ASSUME NEW b \in B PROVE w[b] \in Int
    BY <1>2
  <2> QED
    BY <2>1, SumFacts
<1>4. {} \in Good
  <2>1. Of({}) = {}
    OBVIOUS
  <2> QED
    BY <1>1, <1>3, <2>1
<1>5. ASSUME NEW T \in SUBSET B, NEW x \in B \ T, T \in Good PROVE T \union {x} \in Good
  <2> DEFINE Tx == T \union {x}
             one == {x}
  <2>1. Tx \in SUBSET B /\ x \in Tx /\ Tx \ {x} = T
    OBVIOUS
  <2>2. /\ Of(Tx) = Of(T) \union Of(one) /\ Of(T) \intersect Of(one) = {}
        /\ Of(T) \in SUBSET D /\ Of(one) \in SUBSET D
    OBVIOUS
  <2>3. w[x] = SumFunctionOnSet(v, Of(one))
    BY <1>2
  <2> HIDE DEF Of, one, Tx
  <2>4. SumFunctionOnSet(v, Of(T) \union Of(one))
          = SumFunctionOnSet(v, Of(T)) + SumFunctionOnSet(v, Of(one))
    BY <2>2, SumOfParts
  <2>5. SumFunctionOnSet(w, Tx) = w[x] + SumFunctionOnSet(v, Of(T))
    BY <1>3, <1>5, <2>1
  <2>6. SumFunctionOnSet(v, Of(T)) \in Int /\ SumFunctionOnSet(v, Of(one)) \in Int
    BY <1>1, <2>2
  <2>7. SumFunctionOnSet(w, Tx) = SumFunctionOnSet(v, Of(Tx))
    BY <2>2, <2>3, <2>4, <2>5, <2>6
  <2> QED
    BY <2>1, <2>7 DEF Tx
<1> HIDE DEF Good
<1>6. B \in Good
  BY <1>4, <1>5, AllGood
<1>7. Of(B) = D
  OBVIOUS
<1> QED
  BY <1>6, <1>7 DEF Good

\* The deltas of two runs.
LEMMA DeltaFacts ==
  ASSUME NEW one, RowsGiven(one), NEW other
  PROVE  LET deltas == Deltas(one, other)
         IN /\ IsFiniteSet(DOMAIN deltas) /\ Cardinality(DOMAIN deltas) \in Nat
            /\ deltas = [key \in DOMAIN deltas |-> deltas[key]]
            /\ \A key \in DOMAIN deltas : deltas[key] \in Int
            /\ IsFiniteSet(SamplesOf(deltas))
<1> DEFINE both == DOMAIN one \intersect DOMAIN other
           deltas == Deltas(one, other)
<1>1. DOMAIN deltas = both /\ both \subseteq DOMAIN one
  BY DEF Deltas
<1>2. deltas = [key \in both |-> deltas[key]]
  BY DEF Deltas
<1>3. \A key \in both : deltas[key] \in Int
  BY DEF Deltas, Delta
<1> HIDE DEF both, deltas
<1>4. IsFiniteSet(both) /\ Cardinality(both) \in Nat
  BY <1>1, FS_Subset, FS_CardinalityType DEF RowsGiven
<1>5. SamplesOf(deltas) \subseteq Samples
  BY <1>1 DEF SamplesOf, RowsGiven, Slots
<1>6. IsFiniteSet(SamplesOf(deltas))
  BY <1>5, RunReportAssumption, FS_Subset
<1> QED
  BY <1>1, <1>2, <1>3, <1>4, <1>6 DEF deltas

\* Drawing every attempt once gives the mean over the attempts.
LEMMA EveryAttemptOnce ==
  ASSUME NEW deltas, deltas = [key \in DOMAIN deltas |-> deltas[key]]
  PROVE  <<SumOf(deltas), Cardinality(DOMAIN deltas)>> \in AttemptResamples(deltas)
<1> DEFINE draw == [i \in DOMAIN deltas |-> i]
<1>1. draw \in Draws(deltas)
  BY DEF Draws
<1>2. [i \in DOMAIN deltas |-> deltas[draw[i]]] = deltas
  OBVIOUS
<1> HIDE DEF draw
<1>3. <<SumOf([i \in DOMAIN deltas |-> deltas[draw[i]]]), Cardinality(DOMAIN deltas)>>
        \in AttemptResamples(deltas)
  BY <1>1 DEF AttemptResamples
<1> QED
  BY <1>2, <1>3

\* ... and drawing every sample once does too: the deltas of the samples are the deltas.
LEMMA EverySampleOnce ==
  ASSUME NEW deltas, IsFiniteSet(DOMAIN deltas), \A key \in DOMAIN deltas : deltas[key] \in Int,
         IsFiniteSet(SamplesOf(deltas))
  PROVE  <<SumOf(deltas), Cardinality(DOMAIN deltas)>> \in ClusterResamples(Clusters(deltas))
<1> DEFINE D == DOMAIN deltas
           B == SamplesOf(deltas)
           clusters == Clusters(deltas)
           draw == [i \in B |-> i]
           sums == [i \in B |-> clusters[draw[i]][1]]
           sizes == [i \in B |-> clusters[draw[i]][2]]
           kind == [key \in D |-> key[1]]
<1>1. DOMAIN clusters = B
  BY DEF Clusters
<1>2. draw \in Draws(clusters)
  BY <1>1 DEF Draws
<1>3. \A key \in D : kind[key] \in B
  BY DEF SamplesOf
<1>4. \A b : AttemptsOf(deltas, b) = OfKind(D, kind, b)
  BY DEF AttemptsOf, OfKind
<1>5. /\ \A b \in B : sums[b] = SumFunctionOnSet(deltas, OfKind(D, kind, b))
      /\ \A b \in B : sizes[b] = Cardinality(OfKind(D, kind, b))
  BY <1>4 DEF Clusters
<1>6. DOMAIN sums = B /\ DOMAIN sizes = B
  OBVIOUS
<1>7. <<SumOf(sums), SumOf(sizes)>> \in ClusterResamples(clusters)
  <2> HIDE DEF clusters, draw
  <2>1. <<SumOf([i \in DOMAIN clusters |-> clusters[draw[i]][1]]),
          SumOf([i \in DOMAIN clusters |-> clusters[draw[i]][2]])>> \in ClusterResamples(clusters)
    BY <1>2 DEF ClusterResamples
  <2> QED
    BY <1>1, <2>1
<1> HIDE DEF D, B, clusters, draw, sums, sizes, kind
<1>8. SumFunctionOnSet(sums, B) = SumFunctionOnSet(deltas, D)
  BY <1>3, <1>5, SumsOfKinds DEF D, B
<1>9. SumFunctionOnSet(sizes, B) = Cardinality(D)
  BY <1>3, <1>5, CountsOfKinds DEF D, B
<1>10. SumOf(sums) = SumOf(deltas) /\ SumOf(sizes) = Cardinality(D)
  BY <1>6, <1>8, <1>9 DEF SumOf, SumFunction, D
<1> QED
  BY <1>7, <1>10 DEF D, clusters

\* Drawing one attempt all the time gives its delta.
LEMMA OneAttemptOnly ==
  ASSUME NEW deltas, IsFiniteSet(DOMAIN deltas), NEW key \in DOMAIN deltas, deltas[key] \in Int
  PROVE  <<deltas[key] * Cardinality(DOMAIN deltas), Cardinality(DOMAIN deltas)>>
           \in AttemptResamples(deltas)
<1> DEFINE draw == [i \in DOMAIN deltas |-> key]
           drawn == [i \in DOMAIN deltas |-> deltas[draw[i]]]
<1>1. draw \in Draws(deltas)
  BY DEF Draws
<1>2. DOMAIN drawn = DOMAIN deltas /\ \A i \in DOMAIN deltas : drawn[i] = deltas[key]
  OBVIOUS
<1>3. <<SumOf(drawn), Cardinality(DOMAIN deltas)>> \in AttemptResamples(deltas)
  <2> HIDE DEF draw
  <2> QED
    BY <1>1 DEF AttemptResamples
<1> HIDE DEF draw, drawn
<1>4. SumFunctionOnSet(drawn, DOMAIN deltas) = deltas[key] * Cardinality(DOMAIN deltas)
  BY <1>2, SumOfEqual
<1> QED
  BY <1>2, <1>3, <1>4 DEF SumOf, SumFunction

\* Different numbers stay different when multiplied.
LEMMA ProductsDiffer ==
  ASSUME NEW a \in Int, NEW b \in Int, a # b, NEW n \in Nat \ {0}
  PROVE  a * n \in Int /\ b * n \in Int /\ a * n # b * n
<1>1. \A p, q \in Nat \ {0} : p * q \in Nat \ {0}
  OBVIOUS
<1>2. CASE a < b
  <2>1. (b - a) * n \in Nat \ {0}
    BY <1>1, <1>2
  <2>2. b * n = a * n + (b - a) * n
    OBVIOUS
  <2> QED
    BY <2>1, <2>2
<1>3. CASE b < a
  <2>1. (a - b) * n \in Nat \ {0}
    BY <1>1, <1>3
  <2>2. a * n = b * n + (a - b) * n
    OBVIOUS
  <2> QED
    BY <2>1, <2>2
<1> QED
  BY <1>2, <1>3

\* compare.py 405-470, for the rows of two runs.
LEMMA IntervalOfRows ==
  ASSUME NEW one, RowsGiven(one), NEW other
  PROVE  LET comparison == CompareRuns(one, other)
         IN ~comparison.refused =>
              /\ \E mean \in comparison.resamples : SameFraction(mean, comparison.estimate)
              /\ comparison.samples < 2 /\ Cardinality(Range(Deltas(one, other))) > 1 =>
                   \E m, n \in comparison.resamples : ~SameFraction(m, n)
<1> DEFINE comparison == CompareRuns(one, other)
           deltas == Deltas(one, other)
           D == DOMAIN deltas
           pairs == Cardinality(D)
           mean == <<SumOf(deltas), pairs>>
<1> SUFFICES ASSUME ~comparison.refused
             PROVE  /\ \E m \in comparison.resamples : SameFraction(m, comparison.estimate)
                    /\ comparison.samples < 2 /\ Cardinality(Range(deltas)) > 1 =>
                         \E m, n \in comparison.resamples : ~SameFraction(m, n)
  OBVIOUS
<1>1. /\ IsFiniteSet(D) /\ pairs \in Nat /\ deltas = [key \in D |-> deltas[key]]
      /\ \A key \in D : deltas[key] \in Int
      /\ IsFiniteSet(SamplesOf(deltas))
  BY DeltaFacts
<1>2. pairs # 0
  <2>1. Refused.refused
    BY DEF Refused
  <2> QED
    BY <2>1 DEF CompareRuns
<1>3. /\ comparison.estimate = mean
      /\ comparison.samples = Cardinality(DOMAIN Clusters(deltas))
      /\ comparison.resamples =
           IF comparison.samples = pairs \/ comparison.samples < 2 THEN AttemptResamples(deltas)
           ELSE ClusterResamples(Clusters(deltas))
  BY <1>2 DEF CompareRuns
<1> HIDE DEF comparison, deltas
<1>4. mean \in AttemptResamples(deltas)
  BY <1>1, EveryAttemptOnce
<1>5. mean \in ClusterResamples(Clusters(deltas))
  BY <1>1, EverySampleOnce
<1>6. mean \in comparison.resamples
  BY <1>3, <1>4, <1>5
<1>7. SumOf(deltas) \in Int
  BY <1>1, SumFacts DEF SumOf, SumFunction
<1>8. \E m \in comparison.resamples : SameFraction(m, comparison.estimate)
  <2>1. SameFraction(mean, mean)
    BY <1>1, <1>7 DEF SameFraction
  <2> QED
    BY <1>3, <1>6, <2>1
<1>9. ASSUME comparison.samples < 2, Cardinality(Range(deltas)) > 1
      PROVE  \E m, n \in comparison.resamples : ~SameFraction(m, n)
  <2>1. PICK i, j \in D : deltas[i] # deltas[j]
    <3> SUFFICES ASSUME \A i, j \in D : deltas[i] = deltas[j] PROVE FALSE
      OBVIOUS
    <3>1. D # {}
      BY <1>2, FS_EmptySet
    <3>2. PICK i \in D : TRUE
      BY <3>1
    <3>3. Range(deltas) = {deltas[i]}
      BY <3>2 DEF Range
    <3>4. Cardinality(Range(deltas)) = 1
      BY <3>3, FS_Singleton
    <3> QED
      BY <1>9, <3>4
  <2>2. comparison.resamples = AttemptResamples(deltas)
    BY <1>3, <1>9
  <2> DEFINE a == deltas[i]
             b == deltas[j]
             m == <<a * pairs, pairs>>
             n == <<b * pairs, pairs>>
  <2>3. a \in Int /\ b \in Int /\ a # b
    BY <1>1, <2>1
  <2>4. m \in comparison.resamples /\ n \in comparison.resamples
    BY <1>1, <2>2, <2>3, OneAttemptOnly
  <2> HIDE DEF a, b, pairs
  <2>5. ~((a * pairs) * pairs = (b * pairs) * pairs)
    <3>1. pairs \in Nat \ {0}
      BY <1>1, <1>2
    <3>2. a * pairs \in Int /\ b * pairs \in Int /\ a * pairs # b * pairs
      BY <2>3, <3>1, ProductsDiffer
    <3> QED
      BY <3>1, <3>2, ProductsDiffer
  <2>6. ~SameFraction(m, n)
    BY <2>5 DEF SameFraction
  <2> HIDE DEF m, n
  <2> QED
    BY <2>4, <2>6
<1> QED
  BY <1>8, <1>9

(***************************************************************************)
(* The export of a run, call by call.                                       *)
(***************************************************************************)
\* What is on the server of an export that is about to make the call of a phase.
Before(e) ==
  [resolve |-> {}, create_experiment |-> {}, create |-> {},
   batch |-> {"tags"}, body |-> {"tags", "batch"},
   calibration |-> {"tags", "batch", "body"}, finish |-> Whole(e)]

\* The calls an export is at before its run exists on the server, and after.
Unmade == {"resolve", "create_experiment", "create"}

Made == {"batch", "body", "calibration", "finish"}

\* What the server has of an export is what the calls before this one sent.
CallsInv ==
  \A e \in Exports :
    /\ pc[e] \in Unmade => status[e] = "absent"
    /\ pc[e] \in Made \union {"fail"} => status[e] = "RUNNING"
    /\ pc[e] \in Unmade \union Made => holds[e] = Before(e)[pc[e]]
    /\ pc[e] = "calibration" => e \in Calibrated

\* The invariant: types, how far each export has come, and what is promised of it.
ExportInv == ExportTypeOK /\ CallsInv /\ FinishedExportsAreWhole

\* Nothing is on the server before the first call.
LEMMA ExportInvInit == ExportInit => ExportInv
<1> SUFFICES ASSUME ExportInit PROVE ExportInv
  OBVIOUS
<1>1. ExportTypeOK
  BY DEF ExportInit, ExportTypeOK, Working, Parts
<1>2. \A e \in Exports : pc[e] = "resolve" /\ status[e] = "absent" /\ holds[e] = {}
  BY DEF ExportInit
<1>3. \A e \in Exports : Before(e)["resolve"] = {}
  BY DEF Before
<1>4. CallsInv
  BY <1>2, <1>3 DEF CallsInv, Unmade, Made
<1>5. FinishedExportsAreWhole
  BY <1>2 DEF FinishedExportsAreWhole
<1> QED
  BY <1>1, <1>4, <1>5 DEF ExportInv

\* A call leaves every variable of its export in its set (integrations/mlflow.py
\* 313-446).
LEMMA ExportTypeStep ==
  ASSUME ExportTypeOK, NEW e \in Exports, ExportStep(e)
  PROVE  ExportTypeOK'
<1> USE DEF ExportTypeOK, Working, Parts, Goto
<1>1. CASE Resolve(e)
  BY <1>1 DEF Resolve
<1>2. CASE CreateExperiment(e)
  BY <1>2 DEF CreateExperiment
<1>3. CASE CreateRun(e)
  BY <1>3 DEF CreateRun
<1>4. CASE LogBatch(e)
  BY <1>4 DEF LogBatch, Write
<1>5. CASE LogBody(e)
  BY <1>5 DEF LogBody, Write
<1>6. CASE LogCalibration(e)
  BY <1>6 DEF LogCalibration, Write
<1>7. CASE Finish(e)
  BY <1>7 DEF Finish, Terminate
<1>8. CASE Fail(e)
  BY <1>8 DEF Fail, Terminate
<1>9. CASE CallFails(e)
  BY <1>9 DEF CallFails, Raise
<1>10. CASE AnswerLost(e)
  <2>1. pc' \in [Exports -> Working \union {"returned", "raised", "killed"}]
    BY <1>10 DEF AnswerLost, Raise
  <2>2. /\ experiment' \in BOOLEAN
        /\ status' \in [Exports -> {"absent", "RUNNING", "FINISHED", "FAILED"}]
        /\ holds' \in [Exports -> SUBSET Parts]
    <3>1. CASE pc[e] = "create_experiment" /\ experiment' = TRUE /\ UNCHANGED <<status, holds>>
      BY <3>1
    <3>2. CASE /\ status' = [status EXCEPT ![e] = "RUNNING"]
               /\ holds' = [holds EXCEPT ![e] = {"tags"}]
               /\ UNCHANGED experiment
      BY <3>2
    <3>3. CASE pc[e] \in {"batch", "body", "calibration"} /\ Write(e, pc[e])
      <4>1. pc[e] \in Parts
        BY <3>3
      <4>2. holds' = [holds EXCEPT ![e] = @ \union {pc[e]}]
        BY <3>3 DEF Write
      <4>3. UNCHANGED <<experiment, status>>
        BY <3>3 DEF Write
      <4> QED
        BY <4>1, <4>2, <4>3
    <3>4. CASE pc[e] = "finish" /\ Terminate(e, "FINISHED")
      BY <3>4 DEF Terminate
    <3>5. CASE pc[e] = "fail" /\ Terminate(e, "FAILED")
      BY <3>5 DEF Terminate
    <3> QED
      BY <1>10, <3>1, <3>2, <3>3, <3>4, <3>5 DEF AnswerLost
  <2> QED
    BY <2>1, <2>2
<1>11. CASE Kill(e)
  BY <1>11 DEF Kill
<1> QED
  BY <1>1, <1>2, <1>3, <1>4, <1>5, <1>6, <1>7, <1>8, <1>9, <1>10, <1>11 DEF ExportStep

\* A step of one export leaves every other as it was.
LEMMA OtherExportsStep ==
  ASSUME ExportTypeOK, NEW e \in Exports, ExportStep(e), NEW o \in Exports, o # e
  PROVE  pc'[o] = pc[o] /\ status'[o] = status[o] /\ holds'[o] = holds[o]
  BY DEF ExportTypeOK, ExportStep, Resolve, CreateExperiment, CreateRun, LogBatch, LogBody,
         LogCalibration, Finish, Fail, CallFails, AnswerLost, Kill, Write, Terminate, Raise,
         Goto

\* What ExportInv says of one export.
OneExport(e) ==
  /\ pc[e] \in Unmade => status[e] = "absent"
  /\ pc[e] \in Made \union {"fail"} => status[e] = "RUNNING"
  /\ pc[e] \in Unmade \union Made => holds[e] = Before(e)[pc[e]]
  /\ pc[e] = "calibration" => e \in Calibrated
  /\ status[e] = "FINISHED" => holds[e] = Whole(e)
  /\ pc[e] = "returned" => status[e] = "FINISHED"
  /\ status[e] = "FAILED" => pc[e] = "raised"

\* The call that ends a run comes after every part of it was sent.
LEMMA FinishHolds ==
  ASSUME ExportInv, NEW e \in Exports, pc[e] = "finish"
  PROVE  holds[e] = Whole(e)
<1>1. holds[e] = Before(e)["finish"]
  BY DEF ExportInv, CallsInv, Made
<1>2. Before(e)["finish"] = Whole(e)
  BY DEF Before
<1> QED
  BY <1>1, <1>2

\* A call, made, failed or lost, keeps what the invariant says of its own export.
LEMMA OwnExportStep ==
  ASSUME ExportInv, NEW e \in Exports, ExportStep(e)
  PROVE  OneExport(e)'
<1> USE DEF ExportInv, ExportTypeOK, CallsInv, FinishedExportsAreWhole, OneExport, Before, Unmade,
            Made, Working, Whole, Goto
<1>1. CASE Resolve(e)
  BY <1>1 DEF Resolve
<1>2. CASE CreateExperiment(e)
  BY <1>2 DEF CreateExperiment
<1>3. CASE CreateRun(e)
  BY <1>3 DEF CreateRun
<1>4. CASE LogBatch(e)
  BY <1>4 DEF LogBatch, Write
<1>5. CASE LogBody(e)
  BY <1>5 DEF LogBody, Write
<1>6. CASE LogCalibration(e)
  BY <1>6 DEF LogCalibration, Write
<1>7. CASE Finish(e)
  <2>1. holds[e] = Whole(e)
    BY <1>7, FinishHolds DEF Finish
  <2>2. pc'[e] = "returned" /\ status'[e] = "FINISHED" /\ holds'[e] = holds[e]
    BY <1>7 DEF Finish, Terminate
  <2> QED
    BY <2>1, <2>2
<1>8. CASE Fail(e)
  BY <1>8 DEF Fail, Terminate
<1>9. CASE CallFails(e)
  BY <1>9 DEF CallFails, Raise
<1>10. CASE AnswerLost(e)
  <2>1. CASE pc[e] \in {"batch", "body", "calibration"} /\ Write(e, pc[e])
    <3>1. pc'[e] = "fail" /\ status'[e] = "RUNNING"
      BY <1>10, <2>1 DEF AnswerLost, Raise, Write
    <3> QED
      BY <3>1
  <2>2. CASE pc[e] = "finish" /\ Terminate(e, "FINISHED")
    <3>1. holds[e] = Whole(e)
      BY <2>2, FinishHolds
    <3>2. pc'[e] = "raised" /\ status'[e] = "FINISHED" /\ holds'[e] = holds[e]
      BY <1>10, <2>2 DEF AnswerLost, Raise, Terminate
    <3> QED
      BY <3>1, <3>2
  <2>3. CASE pc[e] = "fail" /\ Terminate(e, "FAILED")
    <3>1. pc'[e] = "raised" /\ status'[e] = "FAILED"
      BY <1>10, <2>3 DEF AnswerLost, Raise, Terminate
    <3> QED
      BY <3>1
  <2>4. CASE pc[e] \in {"create_experiment", "create"}
    <3>1. pc'[e] = "raised" /\ status'[e] \in {"absent", "RUNNING"}
      BY <1>10, <2>4 DEF AnswerLost, Raise, Write, Terminate
    <3> QED
      BY <3>1
  <2> QED
    BY <1>10, <2>1, <2>2, <2>3, <2>4 DEF AnswerLost
<1>11. CASE Kill(e)
  BY <1>11 DEF Kill
<1> QED
  BY <1>1, <1>2, <1>3, <1>4, <1>5, <1>6, <1>7, <1>8, <1>9, <1>10, <1>11 DEF ExportStep

\* So does every step for every export.
LEMMA ExportInvStep == ExportInv /\ [ExportNext]_exportVars => ExportInv'
<1> SUFFICES ASSUME ExportInv, [ExportNext]_exportVars PROVE ExportInv'
  OBVIOUS
<1>1. CASE UNCHANGED exportVars
  BY <1>1 DEF exportVars, ExportInv, ExportTypeOK, CallsInv, FinishedExportsAreWhole, Before, Whole
<1>2. ASSUME NEW e \in Exports, ExportStep(e) PROVE ExportInv'
  <2>1. ExportTypeOK'
    BY <1>2, ExportTypeStep DEF ExportInv
  <2>2. ASSUME NEW o \in Exports PROVE OneExport(o)'
    <3>1. CASE o = e
      BY <1>2, <3>1, OwnExportStep
    <3>2. CASE o # e
      BY <1>2, <3>2, OtherExportsStep
         DEF ExportInv, CallsInv, FinishedExportsAreWhole, OneExport, Before, Whole
    <3> QED
      BY <3>1, <3>2
  <2> QED
    BY <2>1, <2>2 DEF ExportInv, CallsInv, FinishedExportsAreWhole, OneExport
<1> QED
  BY <1>1, <1>2 DEF ExportNext

\* What an export has sent is known from the call it is at, whichever calls of
\* this one and of others fail, are lost or are never made.
THEOREM ExportInvariance == ExportSpec => []ExportInv
  BY ExportInvInit, ExportInvStep, PTL DEF ExportSpec

\* Every variable of an export stays in its set.
THEOREM ExportTypeCorrect == ExportSpec => []ExportTypeOK
<1>1. ExportInv => ExportTypeOK
  BY DEF ExportInv
<1> QED
  BY ExportInvariance, <1>1, PTL

\* For any number of exports at once, of which calls fail, are lost or are never
\* made: what the server calls finished holds everything log_eval_run writes.
THEOREM FinishedIsWhole == ExportSpec => []FinishedExportsAreWhole
<1>1. ExportInv => FinishedExportsAreWhole
  BY DEF ExportInv
<1> QED
  BY ExportInvariance, <1>1, PTL

(***************************************************************************)
(* Two runs as they grow and are exported.                                  *)
(***************************************************************************)
\* The invariant, of either run.
LEMMA RunsAreGiven == ReportInv => \A rows \in Runs : RowsGiven(rows)
  BY DEF ReportInv, Runs

\* Exchanging the arms of an experiment (stats/experiment.py).
LEMMA ArmsMirror ==
  ASSUME NEW one, RowsGiven(one), NEW other, RowsGiven(other)
  PROVE  LET there == CompareArms(one, other)
             back == CompareArms(other, one)
         IN /\ there.refused = back.refused
            /\ ~there.refused => /\ Mirrored(there.delta, back.delta)
                                 /\ there.excluded = back.excluded
                                 /\ there.p = back.p
  BY PairsMirror DEF CompareArms

\* Exchanging the arms of a study (stats/study_compare.py), malformed labels included.
LEMMA StudiesMirror ==
  ASSUME NEW one, RowsGiven(one), NEW other, RowsGiven(other)
  PROVE  LET there == CompareStudies(one, other)
             back == CompareStudies(other, one)
         IN /\ there.refused = back.refused
            /\ ~there.refused => /\ Mirrored(there.delta, back.delta)
                                 /\ there.excluded = back.excluded
                                 /\ there.p = back.p
<1> DEFINE there == CompareStudies(one, other)
           back == CompareStudies(other, one)
           bad == DOMAIN one = DOMAIN other /\ (Malformed(one) \/ Malformed(other))
           T == PairInstances(one, other, <<Labelled(one), Labelled(other)>>,
                              <<LegitimateAttempts(one), LegitimateAttempts(other)>>)
           B == PairInstances(other, one, <<Labelled(other), Labelled(one)>>,
                              <<LegitimateAttempts(other), LegitimateAttempts(one)>>)
<1>1. Refused.refused
  BY DEF Refused
<1>2. there = IF bad THEN Refused ELSE T
  BY DEF CompareStudies
<1>3. back = IF bad THEN Refused ELSE B
  BY DEF CompareStudies
<1>4. /\ T.refused = B.refused
      /\ ~T.refused => Mirrored(T.delta, B.delta) /\ T.excluded = B.excluded /\ T.p = B.p
  BY PairsMirror
<1> HIDE DEF there, back, T, B, bad
<1>5. CASE bad
  <2>1. there = Refused /\ back = Refused
    BY <1>2, <1>3, <1>5
  <2>2. there.refused /\ there.refused = back.refused
    BY <1>1, <2>1
  <2> QED
    BY <2>2 DEF there, back
<1>6. CASE ~bad
  <2>1. there = T /\ back = B
    BY <1>2, <1>3, <1>6
  <2>2. /\ there.refused = back.refused
        /\ ~there.refused => Mirrored(there.delta, back.delta)
              /\ there.excluded = back.excluded /\ there.p = back.p
    BY <1>4, <2>1
  <2> QED
    BY <2>2 DEF there, back
<1> QED
  BY <1>5, <1>6

\* Three comparisons, exchanged, of the rows the invariant speaks of.
LEMMA ExchangeKeeps == ReportInv => ExchangedRunsMirror
<1> SUFFICES ASSUME ReportInv PROVE ExchangedRunsMirror
  OBVIOUS
<1>1. RowsGiven(left) /\ RowsGiven(right)
  BY DEF ReportInv
<1> DEFINE one == CompareRuns(left, right)
           other == CompareRuns(right, left)
           a1 == CompareArms(left, right)
           a2 == CompareArms(right, left)
           s1 == CompareStudies(left, right)
           s2 == CompareStudies(right, left)
<1>2. /\ one.refused = other.refused
      /\ ~one.refused => /\ Mirrored(one.estimate, other.estimate)
                         /\ one.paired = other.paired /\ one.samples = other.samples
  BY <1>1, RunsMirror
<1>3. /\ a1.refused = a2.refused
      /\ ~a1.refused => Mirrored(a1.delta, a2.delta) /\ a1.excluded = a2.excluded /\ a1.p = a2.p
  BY <1>1, ArmsMirror
<1>4. /\ s1.refused = s2.refused
      /\ ~s1.refused => Mirrored(s1.delta, s2.delta) /\ s1.excluded = s2.excluded /\ s1.p = s2.p
  BY <1>1, StudiesMirror
<1> HIDE DEF one, other, a1, a2, s1, s2
<1>5. \A pair \in {<<a1, a2>>, <<s1, s2>>} :
        /\ pair[1].refused = pair[2].refused
        /\ ~pair[1].refused => /\ Mirrored(pair[1].delta, pair[2].delta)
                               /\ pair[1].excluded = pair[2].excluded
                               /\ pair[1].p = pair[2].p
  BY <1>3, <1>4
<1> QED
  BY <1>2, <1>5 DEF ExchangedRunsMirror, one, other, a1, a2, s1, s2

\* A study of either run counts every attempt.
LEMMA StudyKeeps == ReportInv => StudyPlacesEveryAttempt
<1> SUFFICES ASSUME ReportInv, NEW rows \in Runs, ~SummarizeStudy(rows).refused
             PROVE  LET study == SummarizeStudy(rows)
                    IN SumFunction(study.categories) + SumFunction(study.operational)
                         + SumFunction(study.grades) = Cardinality(DOMAIN rows)
  BY DEF StudyPlacesEveryAttempt
<1>1. RowsGiven(rows)
  BY RunsAreGiven
<1>2. ~Malformed(rows)
  BY DEF SummarizeStudy, Refused
<1> QED
  BY <1>1, <1>2, StudyOfRows

\* A paired instance keeps the verdict of each arm.
LEMMA VerdictKeeps == ReportInv => PairedInstancesKeepTheirVerdict
<1> SUFFICES ASSUME ReportInv, ~CompareStudies(left, right).refused
             PROVE  /\ ~SummarizeStudy(left).refused /\ ~SummarizeStudy(right).refused
                    /\ \A sample \in DOMAIN CompareStudies(left, right).outcomes :
                         CompareStudies(left, right).outcomes[sample]
                           = <<SummarizeStudy(left).tasks[sample],
                               SummarizeStudy(right).tasks[sample]>>
  BY DEF PairedInstancesKeepTheirVerdict
<1> QED
  BY VerdictsOfPairs DEF ReportInv

\* The recount of either run.
LEMMA RecountKeeps == ReportInv => RecountMovesOnlyTwoKinds
  BY RunsAreGiven, RecountOfRows DEF RecountMovesOnlyTwoKinds

\* The rows of two runs are rows of their manifest, before and after their export.
LEMMA ReportInvariance == ExportedSpec => []ReportInv
<1>1. ExportedInit => ReportInv
  BY ReportInvInit DEF ExportedInit
<1>2. ReportInv /\ [ExportedNext]_<<reportVars, exportVars>> => ReportInv'
  BY ReportInvStep DEF ExportedNext, Record, Export, reportVars
<1> QED
  BY <1>1, <1>2, PTL DEF ExportedSpec

\* For any manifest, any rows and any number of attempts, whole or cut short: the
\* report's recount (aggregate.py 9-15) counts every attempt once, and differs from the
\* runner's summary (runner.py 1001) exactly by the attempts the target reported as
\* failed and by those that were never graded.
THEOREM RecountAgrees == ExportedSpec => []RecountMovesOnlyTwoKinds
  BY ReportInvariance, RecountKeeps, PTL

\* Every attempt of a study counts once (study.py 113); an instance two arms are
\* compared on has the verdict of each arm's own summary (study_compare.py 11-19); and
\* no comparison favours the run it is given first (compare.py 405, experiment.py 43).
THEOREM InstancesAgree == ExportedSpec => []InstancesKeepTheirVerdict
<1>1. ReportInv => InstancesKeepTheirVerdict
  BY StudyKeeps, VerdictKeeps, ExchangeKeeps DEF InstancesKeepTheirVerdict
<1> QED
  BY <1>1, ReportInvariance, PTL

\* Recording a result makes no call: what runs do that are exported when they are over
\* is, to the server, what exports do (step by step, log_eval_run's calls or none).
LEMMA ExportsOfRuns == ExportedSpec => ExportSpec
<1>1. ExportedInit => ExportInit
  BY DEF ExportedInit
<1>2. [ExportedNext]_<<reportVars, exportVars>> => [ExportNext]_exportVars
  BY DEF ExportedNext, Record, Export
<1> QED
  BY <1>1, <1>2, PTL DEF ExportedSpec, ExportSpec

\* So that a run the server calls finished is whole, whatever was recorded of it.
THEOREM ExportedRunsAreWhole == ExportedSpec => []FinishedExportsAreWhole
  BY ExportsOfRuns, FinishedIsWhole, PTL

\* The estimates of either run's report, and of the two compared.
LEMMA EstimatesKeep == ReportInv => EstimatesAreOfTheirDraws
<1> SUFFICES ASSUME ReportInv PROVE EstimatesAreOfTheirDraws
  OBVIOUS
<1>1. PassAtKIsTheShareOfDraws
  BY RunsAreGiven, PassAtKOfRows DEF PassAtKIsTheShareOfDraws
<1>2. IntervalIsOfTheEstimate
  <2>1. RowsGiven(left)
    BY DEF ReportInv
  <2> QED
    BY <2>1, IntervalOfRows DEF IntervalIsOfTheEstimate
<1> QED
  BY <1>1, <1>2 DEF EstimatesAreOfTheirDraws

\* For any manifest, any rows and any number of attempts: the pass@k a report gives
\* of a sample (reliability.py 60-116) is the share, among the draws of k of its
\* attempts, of those with a pass among them, and is given for the samples with all
\* their attempts; and what the interval is drawn from (compare.py 405-470) is about
\* the estimate, and is not a single value because the attempts are of one sample.
THEOREM EstimatesAgree == ExportedSpec => []EstimatesAreOfTheirDraws
  BY ReportInvariance, EstimatesKeep, PTL

(***************************************************************************)
(* What is on the server, and what is compared there.                       *)
(***************************************************************************)
\* A field that is not swept is what it was.
LEMMA SweptFields ==
  ASSUME NEW record, NEW fields, NEW policy
  PROVE  /\ DOMAIN SweepFields(record, fields, policy) = DOMAIN record
         /\ \A f \in DOMAIN record \ fields : SweepFields(record, fields, policy)[f] = record[f]
BY DEF SweepFields

\* Redaction leaves all but the label of a row, and the identity of a run, alone.
LEMMA RedactedRun ==
  ASSUME NEW e, NEW case
  PROVE  /\ Redacted(e, case).rows
              = [slot \in DOMAIN EvalRun(e, case).rows |->
                   RedactRow(EvalRun(e, case).rows[slot], case[e].policy)]
         /\ Redacted(e, case).manifest = RedactManifest(case[e].manifest, case[e].policy)
         /\ Redacted(e, case).dataset = RedactDataset(case[e].dataset, case[e].policy)
         /\ EvalRun(e, case).manifest = case[e].manifest
         /\ EvalRun(e, case).dataset = case[e].dataset
<1> DEFINE run == EvalRun(e, case)
           policy == case[e].policy
           clean == Redacted(e, case)
<1>1. /\ DOMAIN run = {"manifest", "dataset", "rows", "documents"}
      /\ run.manifest = case[e].manifest /\ run.dataset = case[e].dataset
  BY DEF EvalRun
<1>2. clean = ApplyRedaction(run, policy)
  BY DEF Redacted
<1> HIDE DEF run, policy, clean
<1>3. clean.manifest = RedactManifest(run.manifest, policy)
  BY <1>1, <1>2 DEF ApplyRedaction
<1>4. clean.dataset = RedactDataset(run.dataset, policy)
  BY <1>1, <1>2 DEF ApplyRedaction
<1>5. clean.rows = [slot \in DOMAIN run.rows |-> RedactRow(run.rows[slot], policy)]
  BY <1>1, <1>2 DEF ApplyRedaction
<1> QED
  BY <1>1, <1>3, <1>4, <1>5 DEF run, policy, clean

\* The fields of the manifest that compare_runs compares (compare.py 110-133) are
\* exempt from the sweep (reporters/base.py).
LEMMA ManifestIdentity ==
  ASSUME NEW case \in Cases, NEW e \in Sides, NEW f \in ProvenanceFields
  PROVE  /\ f \in DOMAIN Redacted(e, case).manifest
         /\ f \in DOMAIN EvalRun(e, case).manifest
         /\ Redacted(e, case).manifest[f] = EvalRun(e, case).manifest[f]
<1> DEFINE manifest == case[e].manifest
           policy == case[e].policy
           swept == {"artifact_policy", "redaction_policy", "baseline_compatibility_rules",
                     "data_files"}
<1>1. f \in DOMAIN manifest
  BY CasesAssumption
<1>2. f \notin swept
  BY DEF ProvenanceFields
<1>3. RedactManifest(manifest, policy) = SweepFields(manifest, swept, policy)
  BY DEF RedactManifest
<1> HIDE DEF manifest, policy, swept
<1>4. f \in DOMAIN RedactManifest(manifest, policy)
      /\ RedactManifest(manifest, policy)[f] = manifest[f]
  BY <1>1, <1>2, <1>3, SweptFields
<1> QED
  BY <1>1, <1>4, RedactedRun DEF manifest, policy

\* ... and so are those of the dataset (compare.py 149-158).
LEMMA DatasetIdentity ==
  ASSUME NEW case \in Cases, NEW e \in Sides, NEW f \in DatasetFields
  PROVE  /\ f \in DOMAIN Redacted(e, case).dataset
         /\ f \in DOMAIN EvalRun(e, case).dataset
         /\ Redacted(e, case).dataset[f] = EvalRun(e, case).dataset[f]
<1> DEFINE dataset == case[e].dataset
           policy == case[e].policy
           swept == {"card_metadata", "schema_metadata", "selected_files"}
<1>1. f \in DOMAIN dataset
  BY CasesAssumption
<1>2. f \notin swept
  BY DEF DatasetFields
<1>3. RedactDataset(dataset, policy) = SweepFields(dataset, swept, policy)
  BY DEF RedactDataset
<1> HIDE DEF dataset, policy, swept
<1>4. f \in DOMAIN RedactDataset(dataset, policy)
      /\ RedactDataset(dataset, policy)[f] = dataset[f]
  BY <1>1, <1>2, <1>3, SweptFields
<1> QED
  BY <1>1, <1>4, RedactedRun DEF dataset, policy

\* So that the redacted bodies differ where the runs do ...
LEMMA RedactedMismatches ==
  ASSUME NEW case \in Cases, NEW cross
  PROVE  /\ Mismatches(Redacted("left", case), Redacted("right", case), cross)
              = Mismatches(EvalRun("left", case), EvalRun("right", case), cross)
         /\ Waived(Redacted("left", case), Redacted("right", case), cross)
              = Waived(EvalRun("left", case), EvalRun("right", case), cross)
<1> DEFINE l == EvalRun("left", case)
           r == EvalRun("right", case)
           L == Redacted("left", case)
           R == Redacted("right", case)
<1>1. \A f \in ProvenanceFields :
        /\ f \in DOMAIN L.manifest /\ f \in DOMAIN l.manifest /\ L.manifest[f] = l.manifest[f]
        /\ f \in DOMAIN R.manifest /\ f \in DOMAIN r.manifest /\ R.manifest[f] = r.manifest[f]
  BY ManifestIdentity DEF Sides
<1>2. \A f \in DatasetFields :
        /\ f \in DOMAIN L.dataset /\ f \in DOMAIN l.dataset /\ L.dataset[f] = l.dataset[f]
        /\ f \in DOMAIN R.dataset /\ f \in DOMAIN r.dataset /\ R.dataset[f] = r.dataset[f]
  BY DatasetIdentity DEF Sides
<1> HIDE DEF l, r, L, R
<1>3. Differing(L.manifest, R.manifest) \intersect ProvenanceFields
        = Differing(l.manifest, r.manifest) \intersect ProvenanceFields
  BY <1>1 DEF Differing
<1>4. Differing(L.dataset, R.dataset) \intersect DatasetFields
        = Differing(l.dataset, r.dataset) \intersect DatasetFields
  BY <1>2 DEF Differing
<1>5. Waivable \subseteq ProvenanceFields
  BY DEF Waivable, ProvenanceFields
<1>6. Differing(L.manifest, R.manifest) \intersect Waivable
        = Differing(l.manifest, r.manifest) \intersect Waivable
  BY <1>3, <1>5
<1>7. Mismatches(L, R, cross) = Mismatches(l, r, cross)
  BY <1>3, <1>4 DEF Mismatches
<1>8. Waived(L, R, cross) = Waived(l, r, cross)
  BY <1>6 DEF Waived
<1> QED
  BY <1>7, <1>8 DEF l, r, L, R

\* ... and so do the tags, or less.
LEMMA TagsRefuseLess ==
  ASSUME NEW case \in Cases, NEW cross,
         SnapshotMismatches(Downloaded("left", case).tags, Downloaded("right", case).tags, cross)
           # {}
  PROVE  Mismatches(Redacted("left", case), Redacted("right", case), cross) # {}
<1> DEFINE L == Redacted("left", case)
           R == Redacted("right", case)
           tl == Downloaded("left", case).tags
           tr == Downloaded("right", case).tags
<1>1. PICK f : f \in SnapshotMismatches(tl, tr, cross)
  OBVIOUS
<1>2. /\ f \in DOMAIN tl /\ f \in DOMAIN tr /\ tl[f] # tr[f]
      /\ f \notin (IF cross THEN Waivable ELSE {})
  BY <1>1 DEF SnapshotMismatches, Differing
<1>3. tl = Restrict(Snapshot(L), case["left"].known) /\ tr = Restrict(Snapshot(R), case["right"].known)
  BY DEF Downloaded, ProvenanceTags
<1>4. /\ f \in DatasetFields \union ProvenanceFields
      /\ Snapshot(L)[f] # Snapshot(R)[f]
  BY <1>2, <1>3, CasesAssumption DEF Restrict, Snapshot, Sides
<1>5. CASE f \in DatasetFields
  <2>1. Render(L.dataset[f]) # Render(R.dataset[f])
    BY <1>4, <1>5 DEF Snapshot
  <2>2. L.dataset[f] # R.dataset[f]
    BY <2>1
  <2>3. f \in DOMAIN L.dataset /\ f \in DOMAIN R.dataset
    BY <1>5, DatasetIdentity DEF Sides
  <2> QED
    BY <1>5, <2>2, <2>3 DEF Mismatches, Differing
<1>6. CASE f \notin DatasetFields
  <2>1. f \in ProvenanceFields /\ Render(L.manifest[f]) # Render(R.manifest[f])
    BY <1>4, <1>6 DEF Snapshot
  <2>2. L.manifest[f] # R.manifest[f]
    BY <2>1
  <2>3. f \in DOMAIN L.manifest /\ f \in DOMAIN R.manifest
    BY <2>1, ManifestIdentity DEF Sides
  <2> QED
    BY <1>2, <2>1, <2>2, <2>3 DEF Mismatches, Differing
<1> QED
  BY <1>5, <1>6

\* What compare_runs reports is a matter of the deltas.
LEMMA ComparisonOfDeltas ==
  ASSUME NEW l, NEW r, NEW ll, NEW rr, Deltas(l, r) = Deltas(ll, rr)
  PROVE  CompareRuns(l, r) = CompareRuns(ll, rr)
BY DEF CompareRuns

\* ... which are of the grades: what becomes of the labels (reporters/base.py 164-174)
\* is nothing to compare_runs.
LEMMA RedactedRows ==
  ASSUME ReportInv, NEW case
  PROVE  CompareRuns(Redacted("left", case).rows, Redacted("right", case).rows)
           = CompareRuns(EvalRun("left", case).rows, EvalRun("right", case).rows)
<1> DEFINE L == Redacted("left", case).rows
           R == Redacted("right", case).rows
<1>1. EvalRun("left", case).rows = left /\ EvalRun("right", case).rows = right
  BY DEF EvalRun
<1>2. /\ L = [slot \in DOMAIN left |-> RedactRow(left[slot], case["left"].policy)]
      /\ R = [slot \in DOMAIN right |-> RedactRow(right[slot], case["right"].policy)]
  BY <1>1, RedactedRun
<1>3. /\ \A slot \in DOMAIN left : left[slot] \in Rows
      /\ \A slot \in DOMAIN right : right[slot] \in Rows
  BY RunReportAssumption DEF ReportInv, RowsGiven
<1> HIDE DEF L, R
<1>4. DOMAIN L = DOMAIN left /\ \A slot \in DOMAIN left : L[slot].grade = left[slot].grade
  BY <1>2, <1>3 DEF RedactRow, Rows
<1>5. DOMAIN R = DOMAIN right /\ \A slot \in DOMAIN right : R[slot].grade = right[slot].grade
  BY <1>2, <1>3 DEF RedactRow, Rows
<1>6. \A slot \in DOMAIN left \intersect DOMAIN right :
        Delta(L[slot], R[slot]) = Delta(left[slot], right[slot])
  BY <1>4, <1>5 DEF Delta, IsPass
<1>7. Deltas(L, R) = Deltas(left, right)
  BY <1>4, <1>5, <1>6 DEF Deltas
<1> QED
  BY <1>1, <1>7, ComparisonOfDeltas DEF L, R

\* compare.py 313 on the server and off it: the same pairs refused, for the same
\* fields, and the same answer for the others.
LEMMA HostsAgree == ReportInv => HostCompareAgrees
<1> SUFFICES ASSUME ReportInv, NEW case \in Cases
             PROVE  CompareExports(Downloaded("left", case), Downloaded("right", case),
                                   case.crossEnvironment)
                      = IF \A e \in Sides : "body" \in holds[e]
                        THEN CompareEvalRuns(EvalRun("left", case), EvalRun("right", case),
                                             case.crossEnvironment)
                        ELSE Refused
  BY DEF HostCompareAgrees
<1> DEFINE cross == case.crossEnvironment
           l == EvalRun("left", case)
           r == EvalRun("right", case)
           L == Redacted("left", case)
           R == Redacted("right", case)
           dl == Downloaded("left", case)
           dr == Downloaded("right", case)
<1>1. /\ dl.logged = ("body" \in holds["left"]) /\ dl.body = L
      /\ dr.logged = ("body" \in holds["right"]) /\ dr.body = R
  BY DEF Downloaded
<1>2. CompareEvalRuns(L, R, cross) = CompareEvalRuns(l, r, cross)
  <2>1. CompareRuns(L.rows, R.rows) = CompareRuns(l.rows, r.rows)
    BY RedactedRows
  <2>2. Mismatches(L, R, cross) = Mismatches(l, r, cross) /\ Waived(L, R, cross) = Waived(l, r, cross)
    BY RedactedMismatches
  <2> HIDE DEF l, r, L, R, cross
  <2> QED
    BY <2>1, <2>2 DEF CompareEvalRuns
<1>3. SnapshotMismatches(dl.tags, dr.tags, cross) # {} => CompareEvalRuns(l, r, cross) = Refused
  <2>1. SUFFICES ASSUME SnapshotMismatches(dl.tags, dr.tags, cross) # {}
                 PROVE  CompareEvalRuns(L, R, cross) = Refused
    BY <1>2
  <2>2. Mismatches(L, R, cross) # {}
    BY <2>1, TagsRefuseLess
  <2> QED
    BY <2>2 DEF CompareEvalRuns
<1>4. (\A e \in Sides : "body" \in holds[e]) <=> dl.logged /\ dr.logged
  BY <1>1 DEF Sides
<1> HIDE DEF l, r, L, R, cross, dl, dr
<1>5. CompareExports(dl, dr, cross)
        = IF \A e \in Sides : "body" \in holds[e] THEN CompareEvalRuns(l, r, cross) ELSE Refused
  BY <1>1, <1>2, <1>3, <1>4 DEF CompareExports
<1> QED
  BY <1>5 DEF l, r, cross, dl, dr

\* What is done to the artifacts of one attempt.
LEMMA RedactedArtifacts ==
  ASSUME NEW case \in Cases, NEW e \in Sides, NEW slot \in DOMAIN EvalRun(e, case).rows
  PROVE  LET artifacts == case[e].document.execution.artifacts
         IN /\ EvalRun(e, case).documents[slot].execution.artifacts = artifacts
            /\ Redacted(e, case).documents[slot].execution.artifacts
                 = RestoreArtifacts(artifacts, SweepArtifacts(artifacts, case[e].policy))
<1> DEFINE policy == case[e].policy
           document == case[e].document
           run == EvalRun(e, case)
           free == {"output", "structured_output", "error", "environment_metadata",
                    "tool_calls", "trace_refs"}
           swept == SweepFields(document.execution, free, policy)
<1>1. run.documents[slot] = document /\ slot \in DOMAIN run.documents
  BY DEF EvalRun
<1>2. Redacted(e, case).documents[slot].execution = RedactExecution(document.execution, policy)
  <2>1. Redacted(e, case).documents =
          [s \in DOMAIN run.documents |->
             [sample |-> RedactSample(run.documents[s].sample, policy),
              execution |-> RedactExecution(run.documents[s].execution, policy),
              grade |-> IF run.documents[s].grade = Absent THEN Absent
                        ELSE RedactGrade(run.documents[s].grade, policy)]]
    BY DEF Redacted, ApplyRedaction, EvalRun
  <2> HIDE DEF run, document, policy
  <2>2. Redacted(e, case).documents[slot] =
             [sample |-> RedactSample(run.documents[slot].sample, policy),
              execution |-> RedactExecution(run.documents[slot].execution, policy),
              grade |-> IF run.documents[slot].grade = Absent THEN Absent
                        ELSE RedactGrade(run.documents[slot].grade, policy)]
    BY <1>1, <2>1
  <2> QED
    BY <1>1, <2>2
<1>3. "artifacts" \in DOMAIN document.execution
  BY CasesAssumption
<1>4. RedactExecution(document.execution, policy)
        = [swept EXCEPT !.artifacts = RestoreArtifacts(@, SweepArtifacts(@, policy))]
  BY DEF RedactExecution
<1> HIDE DEF document, policy, run, swept
<1>5. "artifacts" \in DOMAIN swept /\ swept.artifacts = document.execution.artifacts
  BY <1>3, SweptFields DEF swept
<1>6. RedactExecution(document.execution, policy).artifacts
        = RestoreArtifacts(swept.artifacts, SweepArtifacts(swept.artifacts, policy))
  BY <1>4, <1>5
<1> QED
  BY <1>1, <1>2, <1>5, <1>6 DEF document, policy, run

\* A swept text is nothing the policy matches.
LEMMA SweptText ==
  ASSUME NEW text, NEW policy
  PROVE  Sweep(text, policy) \notin policy.matches \ {Marker}
BY DEF Sweep

\* reporters/base.py 361-370: what is put back after the sweep are the references.
LEMMA RestoredArtifacts ==
  ASSUME NEW before, NEW policy, NEW after,
         after = RestoreArtifacts(before, SweepArtifacts(before, policy))
  PROVE  /\ \A key \in DOMAIN before \ {"spill"} :
              IF IsReference(before, key) THEN after[key] = before[key]
              ELSE after[key] \notin policy.matches \ {Marker}
         /\ IsSpillRecord(before) <=> IsSpillRecord(after)
<1> DEFINE swept == SweepArtifacts(before, policy)
<1>1. DOMAIN swept = DOMAIN before /\ DOMAIN after = DOMAIN before
  BY DEF SweepArtifacts, RestoreArtifacts
<1>2. ASSUME NEW key \in DOMAIN before \ {"spill"}
      PROVE  /\ after[key] = IF IsReference(before, key) THEN before[key] ELSE swept[key]
             /\ swept[key] = Sweep(before[key], policy)
  BY <1>2, <1>1 DEF RestoreArtifacts, SweepArtifacts
<1>3. ASSUME "spill" \in DOMAIN before
      PROVE  IsSpillRecord(before) <=> IsSpillRecord(after)
  <2> DEFINE record == before["spill"]
             clean == SweepFields(record, DOMAIN record, policy)
  <2>1. swept["spill"] = clean /\ DOMAIN clean = DOMAIN record
        /\ \A f \in DOMAIN record : clean[f] = Sweep(record[f], policy)
    BY <1>3 DEF SweepArtifacts, SweepFields
  <2>2. after["spill"] = IF IsSpillRecord(before) THEN [clean EXCEPT !.code = "spill_code"]
                         ELSE clean
    BY <1>1, <1>3, <2>1 DEF RestoreArtifacts, IsReference
  <2>3. CASE IsSpillRecord(before)
    <3>1. "code" \in DOMAIN record
      BY <2>3 DEF IsSpillRecord
    <3>2. after["spill"] = [clean EXCEPT !.code = "spill_code"]
      BY <2>2, <2>3
    <3> HIDE DEF record, clean
    <3>3. "code" \in DOMAIN after["spill"] /\ after["spill"].code = "spill_code"
      BY <2>1, <3>1, <3>2
    <3> QED
      BY <1>1, <1>3, <2>3, <3>3 DEF IsSpillRecord
  <2>4. CASE ~IsSpillRecord(before)
    <3>1. after["spill"] = clean
      BY <2>2, <2>4
    <3>2. SUFFICES ASSUME "code" \in DOMAIN record, clean.code = "spill_code" PROVE FALSE
      BY <1>1, <1>3, <2>1, <2>4, <3>1 DEF IsSpillRecord
    <3>3. record.code # "spill_code"
      BY <1>3, <2>4, <3>2 DEF IsSpillRecord
    <3>4. Sweep(record.code, policy) = "spill_code"
      BY <2>1, <3>2
    <3> HIDE DEF record, clean
    <3> QED
      BY <3>3, <3>4 DEF Sweep, Marker
  <2> QED
    BY <2>3, <2>4
<1>4. ASSUME "spill" \notin DOMAIN before
      PROVE  IsSpillRecord(before) <=> IsSpillRecord(after)
  BY <1>1, <1>4 DEF IsSpillRecord
<1> QED
  BY <1>2, <1>3, <1>4, SweptText

\* The artifacts of an exported attempt still name what is stored (reporters/base.py 373-415).
LEMMA IdentifiersAreKept == IdentifiersSurvive
<1> SUFFICES ASSUME NEW e \in Sides, NEW case \in Cases,
                    NEW slot \in DOMAIN EvalRun(e, case).rows
             PROVE  LET before == EvalRun(e, case).documents[slot].execution.artifacts
                        after == Redacted(e, case).documents[slot].execution.artifacts
                    IN /\ \A key \in DOMAIN before \ {"spill"} :
                            IF IsReference(before, key) THEN after[key] = before[key]
                            ELSE after[key] \notin case[e].policy.matches \ {Marker}
                       /\ IsSpillRecord(before) <=> IsSpillRecord(after)
  BY DEF IdentifiersSurvive
<1> QED
  BY RedactedArtifacts, RestoredArtifacts

\* Whatever two runs hold, under whichever redaction policies and by whichever version
\* they were exported, and wherever their exports stopped: the server's comparison of
\* them is their own (mlflow.py 478-512, compare.py 313), and an exported body still
\* names the outputs that were stored (reporters/base.py 373).
THEOREM ServerSaysTheSame == ExportedSpec => []ExportSaysTheSame
<1>1. ReportInv => ExportSaysTheSame
  BY HostsAgree, IdentifiersAreKept DEF ExportSaysTheSame
<1> QED
  BY <1>1, ReportInvariance, PTL

\* A result for an attempt the other run has not (compare.py 437) is in no delta.
LEMMA LoneStep ==
  [ReportNext]_reportVars =>
    [New \intersect DOMAIN left' \intersect DOMAIN right' = {} =>
       CompareRuns(left', right') = CompareRuns(left, right)]_reportVars
<1> SUFFICES ASSUME ReportNext,
                    New \intersect DOMAIN left' \intersect DOMAIN right' = {}
             PROVE  CompareRuns(left', right') = CompareRuns(left, right)
  OBVIOUS
<1>1. PICK slot \in Slots :
        \/ \E row \in LeftOutcomes : RecordLeft(slot, row)
        \/ \E row \in RightOutcomes : RecordRight(slot, row)
  BY DEF ReportNext
<1>2. ASSUME NEW row \in LeftOutcomes, RecordLeft(slot, row)
      PROVE  Deltas(left', right') = Deltas(left, right)
  <2>1. /\ slot \notin DOMAIN left /\ right' = right
        /\ DOMAIN left' = DOMAIN left \union {slot}
        /\ \A s \in DOMAIN left : left'[s] = left[s]
    <3>1. slot \notin DOMAIN left /\ right' = right /\ left' = With(left, slot, row)
      BY <1>2 DEF RecordLeft
    <3> QED
      BY <3>1 DEF With
  <2>2. slot \notin DOMAIN right
    BY <2>1 DEF New
  <2>3. DOMAIN left' \intersect DOMAIN right' = DOMAIN left \intersect DOMAIN right
    BY <2>1, <2>2
  <2> QED
    BY <2>1, <2>3 DEF Deltas
<1>3. ASSUME NEW row \in RightOutcomes, RecordRight(slot, row)
      PROVE  Deltas(left', right') = Deltas(left, right)
  <2>1. /\ slot \notin DOMAIN right /\ left' = left
        /\ DOMAIN right' = DOMAIN right \union {slot}
        /\ \A s \in DOMAIN right : right'[s] = right[s]
    <3>1. slot \notin DOMAIN right /\ left' = left /\ right' = With(right, slot, row)
      BY <1>3 DEF RecordRight
    <3> QED
      BY <3>1 DEF With
  <2>2. slot \notin DOMAIN left
    BY <2>1 DEF New
  <2>3. DOMAIN left' \intersect DOMAIN right' = DOMAIN left \intersect DOMAIN right
    BY <2>1, <2>2
  <2> QED
    BY <2>1, <2>3 DEF Deltas
<1> QED
  BY <1>1, <1>2, <1>3, ComparisonOfDeltas

\* For any two runs, however they grow: an attempt only one of them has changes
\* nothing compare_runs reports of the pair (compare.py 437).
THEOREM LoneAttempts == ExportedSpec => LoneAttemptsChangeNothing
<1>1. [ExportedNext]_<<reportVars, exportVars>> => [ReportNext]_reportVars
  BY DEF ExportedNext, Record, Export
<1> QED
  BY <1>1, LoneStep, PTL DEF ExportedSpec, LoneAttemptsChangeNothing

(***************************************************************************)
(* A calibration over time.                                                *)
(***************************************************************************)
HistoryTypeOK ==
  /\ artifact \in Artifacts({"judge"})
  /\ now \in Nat /\ added \in Nat

\* A counted sample leaves a table of counts.
LEMMA CountTyped ==
  ASSUME NEW counts \in [Counters -> Nat], NEW label \in Labels, NEW outcome \in Outcomes
  PROVE  Count(counts, label, outcome) \in [Counters -> Nat]
<1>1. CounterOf(label, outcome) \in Counters
  BY DEF CounterOf, Counters, Outcomes, Labels
<1>2. counts[CounterOf(label, outcome)] + 1 \in Nat
  BY <1>1
<1> QED
  BY <1>1, <1>2 DEF Count

\* The sums over a table are naturals.
LEMMA CountsAdd ==
  ASSUME NEW counts \in [Counters -> Nat]
  PROVE  /\ Positives(counts) \in Nat /\ Negatives(counts) \in Nat /\ Total(counts) \in Nat
         /\ Positives(counts) = counts["tp"] + counts["fn"]
         /\ Negatives(counts) = counts["tn"] + counts["fp"]
         /\ counts["tp"] \in Nat /\ counts["fn"] \in Nat
         /\ counts["tn"] \in Nat /\ counts["fp"] \in Nat
         /\ NonVerdicts(counts) \in Nat
BY DEF Positives, Negatives, NonVerdicts, Total, Counters

\* The types are kept by the labeled set and by the days.
LEMMA HistoryTypeStep == HistoryTypeOK /\ [Next]_vars => HistoryTypeOK'
<1> SUFFICES ASSUME HistoryTypeOK, [Next]_vars PROVE HistoryTypeOK'
  OBVIOUS
<1>1. ASSUME NEW label \in Labels, NEW outcome \in Outcomes, MeasureSample(label, outcome)
      PROVE  HistoryTypeOK'
  <2> DEFINE counts == Count(artifact.counts, label, outcome)
  <2>1. artifact' = [artifact EXCEPT
          !.counts = counts, !.total = IF @ = None THEN None ELSE Total(counts)]
    BY <1>1 DEF MeasureSample
  <2>2. counts \in [Counters -> Nat]
    BY CountTyped DEF HistoryTypeOK, Artifacts
  <2> HIDE DEF counts
  <2>3. Total(counts) \in Nat
    BY <2>2, CountsAdd
  <2>4. artifact' \in Artifacts({"judge"})
    BY <2>1, <2>2, <2>3 DEF HistoryTypeOK, Artifacts
  <2>5. now' \in Nat /\ added' \in Nat
    BY <1>1 DEF MeasureSample, HistoryTypeOK
  <2> QED
    BY <2>4, <2>5 DEF HistoryTypeOK
<1>2. CASE Day
  BY <1>2 DEF Day, HistoryTypeOK
<1>3. CASE UNCHANGED vars
  BY <1>3 DEF vars, HistoryTypeOK
<1> QED
  BY <1>1, <1>2, <1>3 DEF Next

\* A history begins with an artifact as it was loaded.
LEMMA HistoryTypeInit == Init => HistoryTypeOK
<1> SUFFICES ASSUME Init PROVE HistoryTypeOK
  OBVIOUS
<1>1. PICK counts \in Baselines, t \in Terms :
       artifact = [fingerprint |-> "judge", calibratedAt |-> t.calibratedAt,
                   expiresAt |-> t.expiresAt, threshold |-> t.threshold,
                   total |-> IF t.covered THEN Total(counts) ELSE None,
                   counts |-> counts]
  BY DEF Init
<1>2. counts \in [Counters -> Nat] /\ Total(counts) \in Nat
  BY HistoryAssumption, CountsAdd
<1>3. artifact \in Artifacts({"judge"})
  BY <1>1, <1>2, HistoryAssumption DEF Artifacts
<1> QED
  BY <1>3 DEF Init, HistoryTypeOK

(***************************************************************************)
(* Time and authority.                                                     *)
(***************************************************************************)
\* What bars a judge on one day bars it on every later one, once the calibration's
\* date has come (calibration.py 185-223).
LEMMA BarsStay ==
  ASSUME NEW a \in Artifacts({"judge"}), NEW day \in Nat, NEW later \in Nat, day <= later,
         a.calibratedAt # None, a.calibratedAt <= day
  PROVE  /\ ProvenBad(a, day) => ProvenBad(a, later)
         /\ Unusable(a, day) => Unusable(a, later)
<1>1. a.expiresAt \in Nat /\ a.calibratedAt \in Nat /\ MaxAge \in Nat
  BY RatesAssumption DEF Artifacts
<1>2. Expired(a, day) => Expired(a, later)
  BY <1>1 DEF Expired
<1>3. BadAge(a, day) => BadAge(a, later)
  BY <1>1 DEF BadAge
<1> QED
  BY <1>2, <1>3 DEF ProvenBad, Unusable

\* Nobody gains authority by waiting.
LEMMA RankFalls ==
  ASSUME NEW a \in Artifacts({"judge"}), NEW day \in Nat, NEW later \in Nat, day <= later,
         a.calibratedAt # None, a.calibratedAt <= day, NEW fingerprint
  PROVE  Rank(Authority(a, fingerprint, later)) <= Rank(Authority(a, fingerprint, day))
<1>1. /\ ProvenBad(a, day) => ProvenBad(a, later)
      /\ Unusable(a, day) => Unusable(a, later)
  BY BarsStay
<1> QED
  BY <1>1 DEF Authority, Rank

\* Time only takes authority away, whatever the order of the checks and whatever the
\* floors are (calibration.py 185-223, 318-359).
THEOREM AuthorityOnlyDecays == HostGateSpec => AuthorityDecays
<1>1. HostGateInit => HistoryTypeOK
  BY HistoryTypeInit DEF HostGateInit
<1>2. HistoryTypeOK /\ [HostGateNext]_<<vars, gateVars>> => HistoryTypeOK'
  BY HistoryTypeStep DEF HostGateNext
<1>3. HistoryTypeOK /\ [HostGateNext]_<<vars, gateVars>>
        => [now' > now /\ artifact.calibratedAt # None /\ artifact.calibratedAt <= now
              => Rank(Level') <= Rank(Level)]_vars
  <2> SUFFICES ASSUME HistoryTypeOK, [HostGateNext]_<<vars, gateVars>>, now' > now,
                      artifact.calibratedAt # None, artifact.calibratedAt <= now
               PROVE  Rank(Level') <= Rank(Level)
    OBVIOUS
  <2>1. now' = now \/ Day
    BY DEF HostGateNext, Next, MeasureSample, vars
  <2>2. Day
    BY <2>1 DEF HistoryTypeOK
  <2>3. artifact' = artifact /\ now' = now + 1 /\ now \in Nat /\ artifact \in Artifacts({"judge"})
    BY <2>2 DEF Day, HistoryTypeOK
  <2>4. Level' = Authority(artifact, "judge", now')
    BY <2>3 DEF Level
  <2> QED
    BY <2>3, <2>4, RankFalls DEF Level
<1> QED
  BY <1>1, <1>2, <1>3, PTL DEF HostGateSpec, AuthorityDecays

\* The floors of calibration.py 49-58 and the square of _Z_95 (stats/aggregate.py).
ProjectFloors == Scale = 20 /\ MinTNR = 19 /\ MinTPR = 17 /\ ZSquared = 38415

\* What a judge that may gate has to show, on the day it is asked.
LEMMA GatingNeeds ==
  ASSUME NEW a \in Artifacts({"judge"}) \union {None}, NEW fingerprint, NEW day \in Nat, Authority(a, fingerprint, day) = "gating"
  PROVE  /\ a # None /\ a \in Artifacts({"judge"})
         /\ fingerprint \in {None, a.fingerprint}
         /\ ~Unusable(a, day)
BY DEF Authority

\* A square root of the bound: a lower bound of 0.95 needs 73 negatives.
LEMMA WilsonNeeds73 ==
  ASSUME ProjectFloors, NEW hits \in Nat, NEW misses \in Nat, NEW n \in Nat,
         n = hits + misses, n > 0, ~WilsonBelow(hits, n, MinTNR)
  PROVE  n >= 73
<1> DEFINE excess == hits * 20 - 19 * n
<1>1. ~(hits * 20 < 19 * n) /\ ~(excess * excess * 10000 < 38415 * 19 * (20 - 19) * n)
  BY DEF WilsonBelow, Below, ProjectFloors
<1>2. excess \in Nat /\ excess <= n
  BY <1>1
<1> HIDE DEF excess
<1>3. excess * excess * 10000 >= 729885 * n
  BY <1>1, <1>2
<1>4. excess * excess <= n * n
  <2>1. excess * excess <= excess * n
    BY <1>2
  <2>2. excess * n <= n * n
    BY <1>2
  <2>3. excess * excess \in Nat /\ excess * n \in Nat /\ n * n \in Nat
    BY <1>2
  <2> QED
    BY <2>1, <2>2, <2>3
<1>5. n * n * 10000 >= 729885 * n
  BY <1>2, <1>3, <1>4
<1>6. SUFFICES ASSUME n <= 72 PROVE FALSE
  OBVIOUS
<1>7. n * n <= 72 * n
  BY <1>6
<1>8. n * n \in Nat
  OBVIOUS
<1> QED
  BY <1>5, <1>7, <1>8

\* ... and 73 of each class, all judged rightly, are enough for both floors.
LEMMA PerfectIsNotUnlucky ==
  ASSUME ProjectFloors, NEW counts \in [Counters -> Nat],
         counts["fp"] + counts["fn"] = 0, Negatives(counts) >= 73, Positives(counts) >= 73
  PROVE  ~Unlucky(counts)
<1> DEFINE n == counts["tn"]
           p == counts["tp"]
<1>1. n \in Nat /\ p \in Nat /\ Negatives(counts) = n /\ Positives(counts) = p
  BY CountsAdd
<1>2. n >= 73 /\ p >= 73
  BY <1>1
<1>3. ~WilsonBelow(n, n, MinTNR)
  <2>1. n * 20 - 19 * n = n
    BY <1>1
  <2>2. n * n >= 73 * n
    BY <1>1, <1>2
  <2>3. n * n \in Nat
    BY <1>1
  <2>4. n * n * 10000 >= 730000 * n
    BY <2>2, <2>3, <1>1
  <2>5. ~(n * n * 10000 < 38415 * 19 * (20 - 19) * n)
    BY <2>3, <2>4, <1>1
  <2>6. ~(n * 20 < 19 * n)
    BY <1>1
  <2> HIDE DEF n
  <2> QED
    BY <2>1, <2>5, <2>6 DEF WilsonBelow, Below, ProjectFloors
<1>4. ~WilsonBelow(p, p, MinTPR)
  <2>1. p * 20 - 17 * p = 3 * p
    BY <1>1
  <2>2. p * p >= 73 * p
    BY <1>1, <1>2
  <2>3. p * p \in Nat
    BY <1>1
  <2>4. (3 * p) * (3 * p) = 9 * (p * p)
    BY <1>1
  <2>5. ~((3 * p) * (3 * p) * 10000 < 38415 * 17 * (20 - 17) * p)
    BY <2>2, <2>3, <2>4, <1>1
  <2>6. ~(p * 20 < 17 * p)
    BY <1>1
  <2> HIDE DEF p
  <2> QED
    BY <2>1, <2>5, <2>6 DEF WilsonBelow, Below, ProjectFloors
<1> QED
  BY <1>1, <1>3, <1>4 DEF Unlucky

\* One calibration, whatever was counted in it.
LEMMA GatingNeeds73 ==
  ASSUME ProjectFloors, NEW a \in Artifacts({"judge"}), NEW day, ~Unusable(a, day)
  PROVE  Negatives(a.counts) >= 73
<1>1. a.counts \in [Counters -> Nat]
  BY DEF Artifacts
<1>2. Negatives(a.counts) \in Nat /\ a.counts["tn"] \in Nat /\ a.counts["fp"] \in Nat
      /\ Negatives(a.counts) = a.counts["tn"] + a.counts["fp"]
  BY <1>1, CountsAdd
<1>3. Negatives(a.counts) # 0
  BY DEF Unusable, BelowThreshold
<1>4. ~WilsonBelow(a.counts["tn"], Negatives(a.counts), MinTNR)
  BY DEF Unusable, Unlucky
<1> DEFINE n == Negatives(a.counts)
           hits == a.counts["tn"]
           misses == a.counts["fp"]
<1>5. /\ n \in Nat /\ hits \in Nat /\ misses \in Nat
      /\ n = hits + misses /\ n > 0 /\ ~WilsonBelow(hits, n, MinTNR)
  BY <1>2, <1>3, <1>4
<1> HIDE DEF n, hits, misses
<1>6. n >= 73
  BY <1>5, WilsonNeeds73
<1> QED
  BY <1>6 DEF n

\* On which days it may.
LEMMA LiveOn ==
  ASSUME NEW a, NEW day \in Nat, ~Unusable(a, day),
         a.calibratedAt \in Nat \union {None}, a.expiresAt \in Nat, MaxAge \in Nat
  PROVE  /\ a.calibratedAt # None
         /\ day \in a.calibratedAt..(a.calibratedAt + MaxAge)
         /\ day < a.expiresAt
<1>1. ~BadAge(a, day) /\ ~Expired(a, day)
  BY DEF Unusable
<1> DEFINE first == a.calibratedAt
<1>2. first # None /\ ~(first > day) /\ ~(day - first > MaxAge)
  BY <1>1 DEF BadAge
<1>3. ~(a.expiresAt <= day)
  BY <1>1 DEF Expired
<1> QED
  BY <1>2, <1>3

\* A judge with what it was wrapped with.
Wrapped == [artifact : Artifacts({"judge"}) \union {None}, fingerprint : Fingerprints]

\* What was asked or written as counting stands on the calibration in hand.
Stands(day) ==
  gate # None /\ day \in Nat /\ Authority(Evidence, gate.fingerprint, day) = "gating"

\* The invariant of a wrapped judge: what is being asked and what was written last.
GateInv ==
  /\ gate # None => gate \in Wrapped
  /\ gate = None => asked = None /\ published = {}
  /\ asked # None =>
       asked.level \in {"advisory", "gating"} /\ (asked.level = "gating" => Stands(asked.day))
  /\ \A entry \in published : entry.suffix = "" /\ entry.valued => Stands(entry.day)

\* A row is asked for on the calibration in hand (integrations/mlflow.py 714-723).
LEMMA AskKeeps == HistoryTypeOK /\ GateInv /\ Ask /\ UNCHANGED vars => GateInv'
<1> SUFFICES ASSUME HistoryTypeOK, GateInv, Ask, UNCHANGED vars PROVE GateInv'
  OBVIOUS
<1> DEFINE level == Authority(Evidence, gate.fingerprint, now)
<1>1. gate' = gate /\ gate # None /\ gate \in Wrapped /\ now \in Nat
  BY DEF Ask, GateInv, HistoryTypeOK
<1>2. \A day : Stands(day)' <=> Stands(day)
  BY <1>1 DEF Stands, Evidence
<1>3. level \in {"advisory", "gating", "unavailable"}
  BY DEF Authority
<1>4. level = "gating" => Stands(now)
  BY <1>1 DEF Stands
<1> HIDE DEF level
<1>5. CASE level = "unavailable"
  <2>1. asked' = None /\ published' = {Written("mlflow", "judge", "", FALSE, now)}
    BY <1>5 DEF Ask, level
  <2> DEFINE row == Written("mlflow", "judge", "", FALSE, now)
  <2>2. ~row.valued
    BY DEF Written
  <2> HIDE DEF row
  <2>3. \A entry \in published' : ~entry.valued
    BY <2>1, <2>2 DEF row
  <2> QED
    BY <2>1, <2>3, <1>1 DEF GateInv
<1>6. CASE level # "unavailable"
  <2>1. asked' = [level |-> level, day |-> now] /\ published' = {}
    BY <1>6 DEF Ask, level
  <2>2. asked'.level = level /\ asked'.day = now
    BY <2>1
  <2> QED
    BY <2>1, <2>2, <1>1, <1>2, <1>3, <1>4, <1>6 DEF GateInv
<1> QED
  BY <1>5, <1>6

\* ... and its answer is published on the authority that was read then.
LEMMA AnswerKeeps ==
  ASSUME NEW answer, HistoryTypeOK, GateInv, Answer(answer), UNCHANGED vars
  PROVE  GateInv'
<1>1. gate' = gate /\ gate # None /\ gate \in Wrapped /\ asked' = None /\ asked # None
  BY DEF Answer, GateInv
<1>2. \A day : Stands(day)' <=> Stands(day)
  BY <1>1 DEF Stands, Evidence
<1>3. \A entry \in published' : entry.suffix = Suffix(asked.level) /\ entry.day = asked.day
  BY DEF Answer, AttachAuthority, Written
<1>4. asked.level = "gating" => Stands(asked.day)
  BY <1>1 DEF GateInv
<1>5. \A entry \in published' : entry.suffix = "" => Stands(entry.day)
  BY <1>3, <1>4 DEF Suffix
<1> QED
  BY <1>1, <1>2, <1>5 DEF GateInv

\* langfuse.py 376-385 reads the authority and writes in one step.
LEMMA ScoreKeeps == HistoryTypeOK /\ GateInv /\ Score /\ UNCHANGED vars => GateInv'
<1> SUFFICES ASSUME HistoryTypeOK, GateInv, Score, UNCHANGED vars PROVE GateInv'
  OBVIOUS
<1> DEFINE level == Authority(Evidence, gate.fingerprint, now)
<1>1. /\ gate' = gate /\ gate # None /\ gate \in Wrapped /\ now \in Nat
      /\ asked' = None /\ asked = None
  BY DEF Score, GateInv, HistoryTypeOK
<1>2. \A day : Stands(day)' <=> Stands(day)
  BY <1>1 DEF Stands, Evidence
<1>3. level = "gating" => Stands(now)
  BY <1>1 DEF Stands
<1>4. \A entry \in published' : entry.suffix = "" /\ entry.valued => entry.day = now /\ level = "gating"
  <2>1. published' = {IF level = "unavailable"
                      THEN Written("langfuse", "judge", "unavailable", FALSE, now)
                      ELSE Written("langfuse", "judge", Suffix(level), TRUE, now)}
    BY DEF Score
  <2> HIDE DEF level
  <2> SUFFICES ASSUME NEW entry \in published', entry.suffix = "", entry.valued
               PROVE  entry.day = now /\ level = "gating"
    OBVIOUS
  <2>2. CASE level = "unavailable"
    <3>1. entry = Written("langfuse", "judge", "unavailable", FALSE, now)
      BY <2>1, <2>2
    <3>2. entry.suffix = "unavailable"
      BY <3>1 DEF Written
    <3> QED
      BY <3>2
  <2>3. CASE level # "unavailable"
    <3>1. entry = Written("langfuse", "judge", Suffix(level), TRUE, now)
      BY <2>1, <2>3
    <3>2. entry.suffix = Suffix(level) /\ entry.day = now
      BY <3>1 DEF Written
    <3> QED
      BY <3>2 DEF Suffix
  <2> QED
    BY <2>2, <2>3
<1> HIDE DEF level
<1>5. \A entry \in published' : entry.suffix = "" /\ entry.valued => Stands(entry.day)
  BY <1>3, <1>4
<1> QED
  BY <1>1, <1>2, <1>5 DEF GateInv

\* A judge is wrapped once, before anything was asked.
LEMMA WrapKeeps ==
  ASSUME NEW calibration \in {artifact, None}, NEW fingerprint \in Fingerprints,
         HistoryTypeOK, GateInv, Wrap(calibration, fingerprint), UNCHANGED vars
  PROVE  GateInv'
<1>1. gate' \in Wrapped
  BY DEF Wrap, Wrapped, HistoryTypeOK
<1>2. asked' = None /\ published' = {}
  BY DEF Wrap, GateInv
<1> QED
  BY <1>1, <1>2 DEF GateInv

\* Labels and days leave what was wrapped, asked and written as it is.
LEMMA GateInvStep ==
  HistoryTypeOK /\ GateInv /\ [HostGateNext]_<<vars, gateVars>> => GateInv'
<1> SUFFICES ASSUME HistoryTypeOK, GateInv, [HostGateNext]_<<vars, gateVars>> PROVE GateInv'
  OBVIOUS
<1>1. CASE UNCHANGED gateVars
  <2>1. \A day : Stands(day)' <=> Stands(day)
    BY <1>1 DEF Stands, Evidence, gateVars
  <2> QED
    BY <1>1, <2>1 DEF GateInv, gateVars
<1>2. CASE GateStep /\ UNCHANGED vars
  BY <1>2, AskKeeps, AnswerKeeps, ScoreKeeps, WrapKeeps DEF GateStep
<1> QED
  BY <1>1, <1>2 DEF HostGateNext

\* docs/adr/0024 167-168, for any labeled set that grows in any order: with the floors
\* of calibration.py 49-58 nothing less than 73 negatives gates, and a judge never wrong
\* on 73 of each class is not held back.
THEOREM SeventyThree == ProjectFloors => (HostGateSpec => []SeventyThreeNegatives)
<1> SUFFICES ASSUME ProjectFloors PROVE HostGateSpec => []SeventyThreeNegatives
  OBVIOUS
<1>1. HostGateInit => HistoryTypeOK
  BY HistoryTypeInit DEF HostGateInit
<1>2. HistoryTypeOK /\ [HostGateNext]_<<vars, gateVars>> => HistoryTypeOK'
  BY HistoryTypeStep DEF HostGateNext
<1>3. HistoryTypeOK => SeventyThreeNegatives
  <2> SUFFICES ASSUME HistoryTypeOK PROVE SeventyThreeNegatives
    OBVIOUS
  <2>1. artifact \in Artifacts({"judge"}) /\ artifact.counts \in [Counters -> Nat] /\ now \in Nat
    BY DEF HistoryTypeOK, Artifacts
  <2>2. Level = "gating" => Negatives(artifact.counts) >= 73
    <3>1. Level = "gating" => ~Unusable(artifact, now)
      BY <2>1, GatingNeeds DEF Level
    <3> QED
      BY <2>1, <3>1, GatingNeeds73
  <2>3. artifact.counts["fp"] + artifact.counts["fn"] = 0
          /\ Negatives(artifact.counts) >= 73 /\ Positives(artifact.counts) >= 73
          => ~Unlucky(artifact.counts)
    BY <2>1, PerfectIsNotUnlucky
  <2> QED
    BY <2>2, <2>3 DEF SeventyThreeNegatives
<1> QED
  BY <1>1, <1>2, <1>3, PTL DEF HostGateSpec

\* With those floors, whatever judges answer and however long they take: a value that
\* counts on a host was asked for on a day when the calibration in hand was of this
\* judge, neither expired nor too old, and measured on 73 negatives or more
\* (integrations/mlflow.py 714-723, langfuse.py 376-385).
THEOREM GatingNames == ProjectFloors => (HostGateSpec => []GatingNameNeedsLiveEvidence)
<1> SUFFICES ASSUME ProjectFloors PROVE HostGateSpec => []GatingNameNeedsLiveEvidence
  OBVIOUS
<1>1. HostGateInit => HistoryTypeOK /\ GateInv
  BY HistoryTypeInit DEF HostGateInit, GateInit, GateInv
<1>2. HistoryTypeOK /\ [HostGateNext]_<<vars, gateVars>> => HistoryTypeOK'
  BY HistoryTypeStep DEF HostGateNext
<1>3. HistoryTypeOK /\ GateInv /\ [HostGateNext]_<<vars, gateVars>> => GateInv'
  BY GateInvStep
<1>4. GateInv => GatingNameNeedsLiveEvidence
  <2> SUFFICES ASSUME GateInv, NEW entry \in published, entry.suffix = "", entry.valued
               PROVE  /\ Evidence # None
                      /\ gate.fingerprint \in {None, Evidence.fingerprint}
                      /\ Evidence.calibratedAt # None
                      /\ entry.day \in Evidence.calibratedAt..(Evidence.calibratedAt + MaxAge)
                      /\ entry.day < Evidence.expiresAt
                      /\ Negatives(Evidence.counts) >= 73
    BY DEF GatingNameNeedsLiveEvidence
  <2>1. Stands(entry.day)
    BY DEF GateInv
  <2>2. Evidence \in Artifacts({"judge"}) \union {None} /\ entry.day \in Nat
    BY <2>1 DEF Stands, GateInv, Evidence, Wrapped
  <2>3. /\ Evidence # None /\ Evidence \in Artifacts({"judge"})
        /\ gate.fingerprint \in {None, Evidence.fingerprint}
        /\ ~Unusable(Evidence, entry.day)
    BY <2>1, <2>2, GatingNeeds DEF Stands
  <2>4. /\ Evidence.calibratedAt \in Nat \union {None} /\ Evidence.expiresAt \in Nat
        /\ MaxAge \in Nat
    BY <2>3, RatesAssumption DEF Artifacts
  <2>5. /\ Evidence.calibratedAt # None
        /\ entry.day \in Evidence.calibratedAt..(Evidence.calibratedAt + MaxAge)
        /\ entry.day < Evidence.expiresAt
    BY <2>2, <2>3, <2>4, LiveOn
  <2>6. Negatives(Evidence.counts) >= 73
    BY <2>3, GatingNeeds73
  <2> QED
    BY <2>3, <2>5, <2>6
<1> QED
  BY <1>1, <1>2, <1>3, <1>4, PTL DEF HostGateSpec
=============================================================================
