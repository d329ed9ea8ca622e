------------------------ MODULE EmissionWeights_proofs ------------------------
(***************************************************************************)
(* What compute_emission_weights guarantees for any agents, scores, salts  *)
(* and contributors: it pays the whole emission, to agents that qualified, *)
(* ahead of whom nobody earns less, and it never punishes a better score.  *)
(***************************************************************************)
EXTENDS EmissionWeights, FiniteSetTheorems, FunctionTheorems, WellFoundedInduction, TLAPS

-----------------------------------------------------------------------------
(* Induction over the subsets of a finite set                               *)

\* Any family of subsets of a finite set has a smallest member.
LEMMA MinimalSubset ==
  ASSUME NEW S, IsFiniteSet(S), NEW F \in SUBSET (SUBSET S), F # {}
  PROVE  \E T \in F : \A U \in F : U \subseteq T => U = T
<1> DEFINE R == StrictSubsetOrdering(S)
<1>1. SUBSET S = FiniteSubsetsOf(S)
  BY FS_FiniteSubsetsOfFinite
<1>2. IsWellFoundedOn(R, SUBSET S)
  BY <1>1, FS_StrictSubsetOrderingWellFounded
<1> HIDE DEF R
<1>3. PICK T \in F : \A U \in F : ~(<<U, T>> \in R)
  BY <1>2, WFMin
<1>4. \A U \in F : U \subseteq T => U = T
  BY <1>3 DEF R, StrictSubsetOrdering
<1>5. QED
  BY <1>4

\* A family that has the empty set, and every set that it has all but one element
\* of, whichever that is, has every subset.
LEMMA SubsetInduction ==
  ASSUME NEW S, IsFiniteSet(S), NEW F, {} \in F,
         \A T \in SUBSET S : T # {} /\ (\A x \in T : T \ {x} \in F) => T \in F
  PROVE  \A T \in SUBSET S : T \in F
<1> DEFINE Rest == {T \in SUBSET S : T \notin F}
<1>1. Rest \in SUBSET (SUBSET S)
  OBVIOUS
<1>2. ASSUME Rest # {} PROVE FALSE
  <2> HIDE DEF Rest
  <2>1. PICK T \in Rest : \A U \in Rest : U \subseteq T => U = T
    BY <1>1, <1>2, MinimalSubset
  <2>2. T \in SUBSET S /\ T \notin F /\ T # {}
    BY DEF Rest
  <2>3. ASSUME NEW x \in T PROVE T \ {x} \in F
    <3>1. T \ {x} \notin Rest
      BY <2>1
    <3>2. QED
      BY <2>2, <3>1 DEF Rest
  <2>4. QED
    BY <2>2, <2>3
<1>3. QED
  BY <1>2

-----------------------------------------------------------------------------
(* Sums over finite sets                                                    *)

Sum(f, S) == SumFunctionOnSet(f, S)
Pick(S) == CHOOSE x \in S : TRUE

\* The function on subsets that a sum is read from.
Summing(f, S, g) ==
  g = [s \in SUBSET S |-> IF s = {} THEN 0 ELSE f[Pick(s)] + g[s \ {Pick(s)}]]

\* A set that is not empty has the element that is picked.
LEMMA Picked == ASSUME NEW S, S # {} PROVE Pick(S) \in S
BY DEF Pick

\* The sum as the library defines it.
LEMMA SumUnfolded == ASSUME NEW f, NEW S PROVE Sum(f, S) = (CHOOSE g : Summing(f, S, g))[S]
BY SMT DEF Sum, SumFunctionOnSet, FoldFunctionOnSet, MapThenFoldSet, Summing, Pick

\* What such a function is on a subset.
LEMMA SummingValue ==
  ASSUME NEW f, NEW S, NEW g, Summing(f, S, g), NEW T \in SUBSET S
  PROVE  g[T] = IF T = {} THEN 0 ELSE f[Pick(T)] + g[T \ {Pick(T)}]
<1> DEFINE G == [s \in SUBSET S |-> IF s = {} THEN 0 ELSE f[Pick(s)] + g[s \ {Pick(s)}]]
<1>1. g = G
  BY DEF Summing
<1>2. G[T] = IF T = {} THEN 0 ELSE f[Pick(T)] + g[T \ {Pick(T)}]
  OBVIOUS
<1> HIDE DEF G
<1>3. QED
  BY <1>1, <1>2

\* Two such functions agree where both are defined.
LEMMA SummingUnique ==
  ASSUME NEW f, NEW S, IsFiniteSet(S), NEW g, Summing(f, S, g),
         NEW V \in SUBSET S, NEW k, Summing(f, V, k)
  PROVE  \A T \in SUBSET V : g[T] = k[T]
<1> DEFINE F == {T \in SUBSET V : g[T] = k[T]}
<1>1. IsFiniteSet(V)
  BY FS_Subset
<1>2. {} \in F
  <2>1. g[{}] = 0 /\ k[{}] = 0
    BY SummingValue
  <2>2. QED
    BY <2>1
<1>3. ASSUME NEW T \in SUBSET V, T # {}, \A x \in T : T \ {x} \in F PROVE T \in F
  <2>1. g[T] = f[Pick(T)] + g[T \ {Pick(T)}] /\ k[T] = f[Pick(T)] + k[T \ {Pick(T)}]
    BY <1>3, SummingValue
  <2>2. T \ {Pick(T)} \in F
    BY <1>3, Picked
  <2>3. QED
    BY <2>1, <2>2
<1>4. \A T \in SUBSET V : T \in F
  <2> HIDE DEF F
  <2>1. QED
    BY <1>1, <1>2, <1>3, SubsetInduction
<1>5. QED
  BY <1>4

\* Such a function exists: it is put together from those of the smaller sets.
LEMMA SummingExists ==
  ASSUME NEW f, NEW S, IsFiniteSet(S)
  PROVE  \E g : Summing(f, S, g)
<1> DEFINE Rest == {T \in SUBSET S : ~\E g : Summing(f, T, g)}
<1> DEFINE G(T) == CHOOSE g : Summing(f, T, g)
<1>1. SUFFICES ASSUME Rest # {} PROVE FALSE
  <2>1. S \in SUBSET S
    OBVIOUS
  <2>2. QED
    BY <2>1
<1>2. PICK T \in Rest : \A U \in Rest : U \subseteq T => U = T
  <2>1. Rest \in SUBSET (SUBSET S)
    OBVIOUS
  <2> HIDE DEF Rest
  <2>2. QED
    BY <1>1, <2>1, MinimalSubset
<1>3. \A U \in SUBSET T : U # T => Summing(f, U, G(U))
  <2> SUFFICES ASSUME NEW U \in SUBSET T, U # T PROVE Summing(f, U, G(U))
    OBVIOUS
  <2>1. U \in SUBSET S /\ U \notin Rest
    BY <1>2
  <2>2. \E g : Summing(f, U, g)
    BY <2>1
  <2>3. QED
    BY <2>2
<1> HIDE DEF G
<1> DEFINE g == [s \in SUBSET T |-> IF s = {} THEN 0 ELSE f[Pick(s)] + G(s \ {Pick(s)})[s \ {Pick(s)}]]
<1>4. ASSUME NEW U \in SUBSET T, U # T PROVE g[U] = G(U)[U]
  <2>1. Summing(f, U, G(U)) /\ IsFiniteSet(U)
    BY <1>3, <1>4, FS_Subset
  <2>2. CASE U = {}
    <3>1. G(U)[U] = 0
      BY <2>1, <2>2, SummingValue
    <3>2. QED
      BY <2>2, <3>1
  <2>3. CASE U # {}
    <3> DEFINE W == U \ {Pick(U)}
    <3>1. W \in SUBSET U /\ W # U /\ W \in SUBSET T /\ W # T
      BY <1>4, <2>3, Picked
    <3>2. G(U)[U] = f[Pick(U)] + G(U)[W]
      BY <2>1, <2>3, SummingValue
    <3>3. Summing(f, W, G(W))
      BY <1>3, <3>1
    <3>4. g[U] = f[Pick(U)] + G(W)[W]
      BY <2>3
    <3> HIDE DEF W, g
    <3>5. G(U)[W] = G(W)[W]
      <4>1. \A k : Summing(f, W, k) => G(U)[W] = k[W]
        BY <2>1, <3>1, SummingUnique
      <4>2. QED
        BY <3>3, <4>1
    <3>6. QED
      BY <3>2, <3>4, <3>5
  <2>4. QED
    BY <2>2, <2>3
<1>5. Summing(f, T, g)
  <2>1. ASSUME NEW s \in SUBSET T, s # {}
        PROVE  g[s] = f[Pick(s)] + g[s \ {Pick(s)}]
    <3>1. s \ {Pick(s)} \in SUBSET T /\ s \ {Pick(s)} # T
      BY <2>1, Picked
    <3>2. g[s \ {Pick(s)}] = G(s \ {Pick(s)})[s \ {Pick(s)}]
      BY <1>4, <3>1
    <3>3. g[s] = f[Pick(s)] + G(s \ {Pick(s)})[s \ {Pick(s)}]
      BY <2>1
    <3> HIDE DEF g
    <3>4. QED
      BY <3>2, <3>3
  <2>2. g[{}] = 0
    OBVIOUS
  <2>3. g = [s \in SUBSET T |-> g[s]]
    OBVIOUS
  <2> HIDE DEF g
  <2>4. [s \in SUBSET T |-> g[s]]
          = [s \in SUBSET T |-> IF s = {} THEN 0 ELSE f[Pick(s)] + g[s \ {Pick(s)}]]
    BY <2>1, <2>2
  <2>5. QED
    BY <2>3, <2>4 DEF Summing
<1> HIDE DEF g
<1>6. QED
  BY <1>2, <1>5

\* A sum over nothing is zero; any other is one term and the sum without it.
LEMMA SumPicked ==
  ASSUME NEW f, NEW S, IsFiniteSet(S)
  PROVE  Sum(f, S) = IF S = {} THEN 0 ELSE f[Pick(S)] + Sum(f, S \ {Pick(S)})
<1> DEFINE g == CHOOSE g : Summing(f, S, g)
<1> DEFINE W == S \ {Pick(S)}
<1> DEFINE k == CHOOSE k : Summing(f, W, k)
<1>1. Summing(f, S, g) /\ Sum(f, S) = g[S]
  BY SummingExists, SumUnfolded
<1>2. IsFiniteSet(W) /\ W \in SUBSET S
  BY FS_Subset
<1> HIDE DEF W
<1>3. Summing(f, W, k) /\ Sum(f, W) = k[W]
  BY <1>2, SummingExists, SumUnfolded
<1> HIDE DEF g, k
<1>4. g[W] = k[W]
  BY <1>1, <1>2, <1>3, SummingUnique
<1>5. g[S] = IF S = {} THEN 0 ELSE f[Pick(S)] + g[W]
  BY <1>1, SummingValue DEF W
<1>6. QED
  BY <1>1, <1>3, <1>4, <1>5 DEF W

Counts(f, S) == \A x \in S : f[x] \in Nat

\* A sum of naturals is a natural.
LEMMA SumType ==
  ASSUME NEW f, NEW S, IsFiniteSet(S), Counts(f, S)
  PROVE  Sum(f, S) \in Nat
<1> DEFINE F == {T \in SUBSET S : Sum(f, T) \in Nat}
<1>1. {} \in F
  BY SumPicked, FS_EmptySet
<1>2. ASSUME NEW T \in SUBSET S, T # {}, \A x \in T : T \ {x} \in F PROVE T \in F
  <2>1. Sum(f, T) = f[Pick(T)] + Sum(f, T \ {Pick(T)})
    BY <1>2, SumPicked, FS_Subset
  <2>2. Pick(T) \in T /\ f[Pick(T)] \in Nat /\ Sum(f, T \ {Pick(T)}) \in Nat
    BY <1>2, Picked DEF Counts
  <2>3. QED
    BY <2>1, <2>2
<1>3. \A T \in SUBSET S : T \in F
  <2> HIDE DEF F
  <2>1. QED
    BY <1>1, <1>2, SubsetInduction
<1>4. QED
  BY <1>3

\* Any term may be taken out of a sum, not only the picked one.
LEMMA SumWithout ==
  ASSUME NEW f, NEW S, IsFiniteSet(S), Counts(f, S), NEW x \in S
  PROVE  Sum(f, S) = f[x] + Sum(f, S \ {x})
<1> DEFINE F == {T \in SUBSET S : \A y \in T : Sum(f, T) = f[y] + Sum(f, T \ {y})}
<1>1. {} \in F
  OBVIOUS
<1>2. ASSUME NEW T \in SUBSET S, T # {}, \A y \in T : T \ {y} \in F PROVE T \in F
  <2> SUFFICES ASSUME NEW y \in T PROVE Sum(f, T) = f[y] + Sum(f, T \ {y})
    OBVIOUS
  <2> DEFINE p == Pick(T)
  <2>1. Sum(f, T) = f[p] + Sum(f, T \ {p}) /\ p \in T
    BY <1>2, SumPicked, FS_Subset, Picked
  <2> HIDE DEF p
  <2>2. CASE y = p
    BY <2>1, <2>2
  <2>3. CASE y # p
    <3>1. Sum(f, T \ {p}) = f[y] + Sum(f, (T \ {p}) \ {y})
      BY <1>2, <2>1, <2>3
    <3>2. Sum(f, T \ {y}) = f[p] + Sum(f, (T \ {y}) \ {p})
      BY <1>2, <2>1, <2>3
    <3>3. (T \ {p}) \ {y} = (T \ {y}) \ {p}
      OBVIOUS
    <3>4. f[y] \in Nat /\ f[p] \in Nat /\ Sum(f, (T \ {p}) \ {y}) \in Nat
      <4>1. (T \ {p}) \ {y} \in SUBSET S
        OBVIOUS
      <4>2. IsFiniteSet((T \ {p}) \ {y}) /\ Counts(f, (T \ {p}) \ {y})
        BY <4>1, FS_Subset DEF Counts
      <4>3. QED
        BY <2>1, <4>2, SumType DEF Counts
    <3>5. Sum(f, T \ {y}) = f[p] + Sum(f, (T \ {p}) \ {y})
      BY ONLY <3>2, <3>3, Zenon
    <3>6. Sum(f, T) = f[p] + (f[y] + Sum(f, (T \ {p}) \ {y}))
      BY ONLY <2>1, <3>1, Zenon
    <3>7. f[p] + (f[y] + Sum(f, (T \ {p}) \ {y})) = f[y] + (f[p] + Sum(f, (T \ {p}) \ {y}))
      BY ONLY <3>4, SMT
    <3>8. QED
      BY ONLY <3>5, <3>6, <3>7, Zenon
  <2>4. QED
    BY <2>2, <2>3
<1>3. \A T \in SUBSET S : T \in F
  <2> HIDE DEF F
  <2>1. QED
    BY <1>1, <1>2, SubsetInduction
<1>4. S \in SUBSET S
  OBVIOUS
<1>5. QED
  BY <1>3, <1>4

\* A sum over nothing is zero.
LEMMA SumEmpty == ASSUME NEW f PROVE Sum(f, {}) = 0
BY SumPicked, FS_EmptySet

\* A set and one element more has the sum of the set and that term.
LEMMA SumMore ==
  ASSUME NEW f, NEW S, IsFiniteSet(S), NEW x, x \notin S, Counts(f, S \cup {x})
  PROVE  Sum(f, S \cup {x}) = f[x] + Sum(f, S) /\ f[x] \in Nat /\ Sum(f, S) \in Nat
<1>1. IsFiniteSet(S \cup {x}) /\ (S \cup {x}) \ {x} = S /\ x \in S \cup {x}
  BY FS_AddElement
<1>2. Sum(f, S \cup {x}) = f[x] + Sum(f, S)
  BY <1>1, SumWithout
<1>3. Counts(f, S) /\ f[x] \in Nat
  BY DEF Counts
<1>4. QED
  BY <1>2, <1>3, SumType

\* The form in which the lemmas below use induction: a set that has the family's
\* smaller set and one element more.
LEMMA TermByTerm ==
  ASSUME NEW S, IsFiniteSet(S), NEW F, {} \in F,
         \A T \in SUBSET S : \A x \in S \ T : IsFiniteSet(T) /\ T \in F => T \cup {x} \in F
  PROVE  S \in F
<1>1. ASSUME NEW T \in SUBSET S, T # {}, \A x \in T : T \ {x} \in F PROVE T \in F
  <2>1. PICK x \in T : TRUE
    BY <1>1
  <2>2. T \ {x} \in SUBSET S /\ x \in S \ (T \ {x}) /\ T \ {x} \in F /\ (T \ {x}) \cup {x} = T
    BY <1>1, <2>1
  <2>3. IsFiniteSet(T \ {x})
    BY <2>2, FS_Subset
  <2>4. QED
    BY <2>2, <2>3
<1>2. S \in SUBSET S
  OBVIOUS
<1>3. QED
  BY <1>1, <1>2, SubsetInduction

\* Terms that are no greater sum up to no more.
LEMMA SumMonotone ==
  ASSUME NEW f, NEW g, NEW S, IsFiniteSet(S), Counts(f, S), Counts(g, S),
         \A x \in S : f[x] <= g[x]
  PROVE  Sum(f, S) <= Sum(g, S)
<1> DEFINE F == {T \in SUBSET S : Sum(f, T) <= Sum(g, T)}
<1>1. {} \in F
  BY SumEmpty
<1>2. ASSUME NEW T \in SUBSET S, NEW x \in S \ T, IsFiniteSet(T), T \in F PROVE T \cup {x} \in F
  <2>1. Counts(f, T \cup {x}) /\ Counts(g, T \cup {x})
    BY DEF Counts
  <2>2. Sum(f, T \cup {x}) = f[x] + Sum(f, T) /\ f[x] \in Nat /\ Sum(f, T) \in Nat
    BY <1>2, <2>1, SumMore
  <2>3. Sum(g, T \cup {x}) = g[x] + Sum(g, T) /\ g[x] \in Nat /\ Sum(g, T) \in Nat
    BY <1>2, <2>1, SumMore
  <2>4. Sum(f, T) <= Sum(g, T) /\ f[x] <= g[x]
    BY <1>2
  <2>5. Sum(f, T \cup {x}) <= Sum(g, T \cup {x})
    BY <2>2, <2>3, <2>4
  <2>6. QED
    BY <2>5
<1>3. S \in F
  <2> HIDE DEF F
  <2>1. QED
    BY <1>1, <1>2, TermByTerm
<1>4. QED
  BY <1>3

\* Equal terms sum up to the same.
LEMMA SumSame ==
  ASSUME NEW f, NEW g, NEW S, IsFiniteSet(S), Counts(f, S), \A x \in S : f[x] = g[x]
  PROVE  Sum(f, S) = Sum(g, S)
<1>1. Counts(g, S)
  BY DEF Counts
<1>2. \A x \in S : f[x] <= g[x] /\ g[x] <= f[x]
  BY DEF Counts
<1>3. Sum(f, S) <= Sum(g, S) /\ Sum(g, S) <= Sum(f, S)
  BY <1>1, <1>2, SumMonotone
<1>4. Sum(f, S) \in Nat /\ Sum(g, S) \in Nat
  BY <1>1, SumType
<1>5. QED
  BY <1>3, <1>4

\* The sum of the sums of two terms.
LEMMA SumPlus ==
  ASSUME NEW f, NEW g, NEW h, NEW S, IsFiniteSet(S), Counts(f, S), Counts(g, S),
         \A x \in S : h[x] = f[x] + g[x]
  PROVE  Sum(h, S) = Sum(f, S) + Sum(g, S)
<1> DEFINE F == {T \in SUBSET S : Sum(h, T) = Sum(f, T) + Sum(g, T)}
<1>1. {} \in F
  BY SumEmpty
<1>2. ASSUME NEW T \in SUBSET S, NEW x \in S \ T, IsFiniteSet(T), T \in F PROVE T \cup {x} \in F
  <2>1. Counts(f, T \cup {x}) /\ Counts(g, T \cup {x}) /\ Counts(h, T \cup {x})
    BY DEF Counts
  <2>2. Sum(f, T \cup {x}) = f[x] + Sum(f, T) /\ f[x] \in Nat /\ Sum(f, T) \in Nat
    BY <1>2, <2>1, SumMore
  <2>3. Sum(g, T \cup {x}) = g[x] + Sum(g, T) /\ g[x] \in Nat /\ Sum(g, T) \in Nat
    BY <1>2, <2>1, SumMore
  <2>4. Sum(h, T \cup {x}) = h[x] + Sum(h, T)
    BY <1>2, <2>1, SumMore
  <2>5. Sum(h, T) = Sum(f, T) + Sum(g, T) /\ h[x] = f[x] + g[x]
    BY <1>2
  <2>6. Sum(h, T \cup {x}) = Sum(f, T \cup {x}) + Sum(g, T \cup {x})
    BY <2>2, <2>3, <2>4, <2>5
  <2>7. QED
    BY <2>6
<1>3. S \in F
  <2> HIDE DEF F
  <2>1. QED
    BY <1>1, <1>2, TermByTerm
<1>4. QED
  BY <1>3

\* The sum of the multiples is the multiple of the sum.
LEMMA SumTimes ==
  ASSUME NEW c \in Nat, NEW f, NEW h, NEW S, IsFiniteSet(S), Counts(f, S),
         \A x \in S : h[x] = c * f[x]
  PROVE  Sum(h, S) = c * Sum(f, S)
<1> DEFINE F == {T \in SUBSET S : Sum(h, T) = c * Sum(f, T)}
<1>1. {} \in F
  BY SumEmpty
<1>2. ASSUME NEW T \in SUBSET S, NEW x \in S \ T, IsFiniteSet(T), T \in F PROVE T \cup {x} \in F
  <2>1. Counts(f, T \cup {x}) /\ Counts(h, T \cup {x})
    BY DEF Counts
  <2>2. Sum(f, T \cup {x}) = f[x] + Sum(f, T) /\ f[x] \in Nat /\ Sum(f, T) \in Nat
    BY <1>2, <2>1, SumMore
  <2>3. Sum(h, T \cup {x}) = h[x] + Sum(h, T)
    BY <1>2, <2>1, SumMore
  <2>4. Sum(h, T) = c * Sum(f, T) /\ h[x] = c * f[x]
    BY <1>2
  <2>5. \A a, b \in Nat : c * (a + b) = c * a + c * b
    OBVIOUS
  <2>6. Sum(h, T \cup {x}) = c * Sum(f, T \cup {x})
    BY <2>2, <2>3, <2>4, <2>5
  <2>7. QED
    BY <2>6
<1>3. S \in F
  <2> HIDE DEF F
  <2>1. QED
    BY <1>1, <1>2, TermByTerm
<1>4. QED
  BY <1>3

\* Equal terms sum up to their number times the term.
LEMMA SumConstant ==
  ASSUME NEW c \in Nat, NEW f, NEW S, IsFiniteSet(S), \A x \in S : f[x] = c
  PROVE  Sum(f, S) = c * Cardinality(S)
<1> DEFINE F == {T \in SUBSET S : Sum(f, T) = c * Cardinality(T)}
<1>1. {} \in F
  BY SumEmpty, FS_EmptySet
<1>2. ASSUME NEW T \in SUBSET S, NEW x \in S \ T, IsFiniteSet(T), T \in F PROVE T \cup {x} \in F
  <2>1. Counts(f, T \cup {x})
    BY DEF Counts
  <2>2. Sum(f, T \cup {x}) = c + Sum(f, T)
    BY <1>2, <2>1, SumMore
  <2>3. Cardinality(T \cup {x}) = Cardinality(T) + 1 /\ Cardinality(T) \in Nat
    BY <1>2, FS_AddElement, FS_CardinalityType
  <2>4. Sum(f, T) = c * Cardinality(T)
    BY <1>2
  <2>5. \A b \in Nat : c * (b + 1) = c + c * b
    OBVIOUS
  <2>6. Sum(f, T \cup {x}) = c * Cardinality(T \cup {x})
    BY <2>2, <2>3, <2>4, <2>5
  <2>7. QED
    BY <2>6
<1>3. S \in F
  <2> HIDE DEF F
  <2>1. QED
    BY <1>1, <1>2, TermByTerm
<1>4. QED
  BY <1>3

\* A sum that is not zero has a term that is not, and no term is above the sum.
LEMMA SumTerm ==
  ASSUME NEW f, NEW S, IsFiniteSet(S), Counts(f, S)
  PROVE  /\ \A x \in S : f[x] <= Sum(f, S)
         /\ Sum(f, S) > 0 => \E x \in S : f[x] > 0
<1>1. ASSUME NEW x \in S PROVE f[x] <= Sum(f, S)
  <2>1. IsFiniteSet(S \ {x}) /\ Counts(f, S \ {x}) /\ f[x] \in Nat
    BY FS_Subset DEF Counts
  <2>2. Sum(f, S \ {x}) \in Nat /\ Sum(f, S) = f[x] + Sum(f, S \ {x})
    BY <2>1, SumType, SumWithout
  <2>3. QED
    BY <2>1, <2>2
<1>2. ASSUME \A x \in S : ~(f[x] > 0) PROVE Sum(f, S) = 0
  <2>1. \A x \in S : f[x] = 0
    BY <1>2 DEF Counts
  <2>2. Sum(f, S) = 0 * Cardinality(S) /\ Cardinality(S) \in Nat
    BY <2>1, SumConstant, FS_CardinalityType
  <2>3. QED
    BY <2>2
<1>3. QED
  BY <1>1, <1>2

\* A sum over two sets that have nothing in common is the sums over each.
LEMMA SumApart ==
  ASSUME NEW f, NEW A, IsFiniteSet(A), NEW S, IsFiniteSet(S), A \cap S = {}, Counts(f, A \cup S)
  PROVE  Sum(f, A \cup S) = Sum(f, A) + Sum(f, S)
<1> DEFINE F == {T \in SUBSET S : Sum(f, A \cup T) = Sum(f, A) + Sum(f, T)}
<1>0. Sum(f, A) \in Nat
  BY SumType DEF Counts
<1>1. {} \in F
  <2>1. A \cup {} = A
    OBVIOUS
  <2>2. Sum(f, A) = Sum(f, A) + 0
    BY <1>0
  <2>3. QED
    BY <2>1, <2>2, SumEmpty
<1>2. ASSUME NEW T \in SUBSET S, NEW x \in S \ T, IsFiniteSet(T), T \in F PROVE T \cup {x} \in F
  <2>1. Counts(f, T \cup {x}) /\ Counts(f, (A \cup T) \cup {x}) /\ x \notin A \cup T
    BY DEF Counts
  <2>2. Sum(f, T \cup {x}) = f[x] + Sum(f, T) /\ f[x] \in Nat /\ Sum(f, T) \in Nat
    BY <1>2, <2>1, SumMore
  <2>3. IsFiniteSet(A \cup T)
    BY <1>2, FS_Union
  <2>4. Sum(f, (A \cup T) \cup {x}) = f[x] + Sum(f, A \cup T)
    BY <2>1, <2>3, SumMore
  <2>5. (A \cup T) \cup {x} = A \cup (T \cup {x})
    OBVIOUS
  <2>6. Sum(f, A \cup T) = Sum(f, A) + Sum(f, T)
    BY <1>2
  <2>7. Sum(f, A \cup (T \cup {x})) = f[x] + (Sum(f, A) + Sum(f, T))
    BY ONLY <2>4, <2>5, <2>6, Zenon
  <2>8. f[x] + (Sum(f, A) + Sum(f, T)) = Sum(f, A) + (f[x] + Sum(f, T))
    BY ONLY <1>0, <2>2, SMT
  <2>9. Sum(f, A \cup (T \cup {x})) = Sum(f, A) + Sum(f, T \cup {x})
    BY ONLY <2>2, <2>7, <2>8, Zenon
  <2>10. QED
    BY <2>9
<1>3. S \in F
  <2> HIDE DEF F
  <2>1. QED
    BY <1>1, <1>2, TermByTerm
<1>4. QED
  BY <1>3

\* Only the terms that are not zero count.
LEMMA SumSupport ==
  ASSUME NEW f, NEW S, IsFiniteSet(S), NEW A \in SUBSET S, Counts(f, A),
         \A x \in S \ A : f[x] = 0
  PROVE  Sum(f, S) = Sum(f, A)
<1>1. IsFiniteSet(A) /\ IsFiniteSet(S \ A) /\ A \cup (S \ A) = S /\ A \cap (S \ A) = {}
  BY FS_Subset
<1>2. Counts(f, S)
  BY DEF Counts
<1>3. Sum(f, S) = Sum(f, A) + Sum(f, S \ A)
  BY <1>1, <1>2, SumApart
<1>4. Sum(f, S \ A) = 0
  <2>1. Sum(f, S \ A) = 0 * Cardinality(S \ A) /\ Cardinality(S \ A) \in Nat
    BY <1>1, SumConstant, FS_CardinalityType
  <2>2. QED
    BY <2>1
<1>5. QED
  BY <1>1, <1>3, <1>4, SumType

Image(p, U) == {p[x] : x \in U}

\* Terms may be summed under other names.
LEMMA SumRenamed ==
  ASSUME NEW f, NEW g, NEW S, IsFiniteSet(S), NEW T, NEW p \in Bijection(S, T),
         Counts(f, S), \A x \in S : f[x] = g[p[x]]
  PROVE  Sum(f, S) = Sum(g, T)
<1> DEFINE F == {U \in SUBSET S : Sum(f, U) = Sum(g, Image(p, U))}
<1>1. {} \in F
  <2>1. Image(p, {}) = {}
    BY DEF Image
  <2>2. QED
    BY <2>1, SumEmpty
<1>2. ASSUME NEW U \in SUBSET S, NEW x \in S \ U, IsFiniteSet(U), U \in F PROVE U \cup {x} \in F
  <2>1. Image(p, U \cup {x}) = Image(p, U) \cup {p[x]}
    BY DEF Image
  <2>2. p[x] \notin Image(p, U)
    BY DEF Image, Bijection, Injection, IsInjective
  <2>3. IsFiniteSet(Image(p, U))
    <3> DEFINE q == [y \in U |-> p[y]]
    <3>1. q \in Surjection(U, Image(p, U))
      BY DEF Image, Surjection
    <3>2. QED
      BY <1>2, <3>1, FS_Surjection
  <2>4. Counts(g, Image(p, U) \cup {p[x]}) /\ Counts(f, U \cup {x})
    BY DEF Image, Counts
  <2>5. Sum(g, Image(p, U) \cup {p[x]}) = g[p[x]] + Sum(g, Image(p, U))
    BY <2>2, <2>3, <2>4, SumMore
  <2>6. Sum(f, U \cup {x}) = f[x] + Sum(f, U)
    BY <1>2, <2>4, SumMore
  <2>7. f[x] = g[p[x]] /\ Sum(f, U) = Sum(g, Image(p, U))
    BY <1>2
  <2>8. Sum(f, U \cup {x}) = Sum(g, Image(p, U \cup {x}))
    BY ONLY <2>1, <2>5, <2>6, <2>7, Zenon
  <2>9. QED
    BY <2>8
<1>3. S \in F
  <2> HIDE DEF F
  <2>1. QED
    BY <1>1, <1>2, TermByTerm
<1>4. Image(p, S) = T
  BY DEF Image, Bijection, Surjection, Injection
<1>5. QED
  BY <1>3, <1>4

\* A table summed by columns is the table summed by rows.
LEMMA SumExchanged ==
  ASSUME NEW m, NEW Q, IsFiniteSet(Q), NEW H, IsFiniteSet(H), \A t \in Q : Counts(m[t], H),
         NEW rows, \A t \in Q : rows[t] = Sum(m[t], H),
         NEW col, \A h \in H : \A t \in Q : col[h][t] = m[t][h],
         NEW cols, \A h \in H : cols[h] = Sum(col[h], Q)
  PROVE  Sum(cols, H) = Sum(rows, Q)
<1> DEFINE C(T) == [h \in H |-> Sum(col[h], T)]
<1> DEFINE F == {T \in SUBSET Q : Sum(C(T), H) = Sum(rows, T)}
<1>0. Counts(rows, Q) /\ \A h \in H : Counts(col[h], Q)
  <2>1. ASSUME NEW t \in Q PROVE rows[t] \in Nat
    BY SumType
  <2>2. ASSUME NEW h \in H PROVE Counts(col[h], Q)
    BY DEF Counts
  <2>3. QED
    BY <2>1, <2>2 DEF Counts
<1>1. {} \in F
  <2>1. \A h \in H : C({})[h] = 0
    BY SumEmpty
  <2> HIDE DEF C
  <2>2. Sum(C({}), H) = 0 * Cardinality(H)
    BY <2>1, SumConstant
  <2>3. Sum(C({}), H) = Sum(rows, {})
    BY <2>2, SumEmpty, FS_CardinalityType
  <2>4. QED
    BY <2>3
<1>2. ASSUME NEW T \in SUBSET Q, NEW x \in Q \ T, IsFiniteSet(T), T \in F PROVE T \cup {x} \in F
  <2>1. ASSUME NEW h \in H
        PROVE  /\ C(T \cup {x})[h] = m[x][h] + C(T)[h]
               /\ C(T)[h] \in Nat
    <3>1. Counts(col[h], T \cup {x}) /\ col[h][x] = m[x][h]
      BY <1>0 DEF Counts
    <3>2. Sum(col[h], T \cup {x}) = m[x][h] + Sum(col[h], T) /\ Sum(col[h], T) \in Nat
      BY <1>2, <3>1, SumMore
    <3>3. QED
      BY <3>2
  <2> HIDE DEF C
  <2>2. Counts(m[x], H) /\ Counts(C(T), H)
    BY <2>1 DEF Counts
  <2>3. Sum(C(T \cup {x}), H) = Sum(m[x], H) + Sum(C(T), H)
    BY <2>1, <2>2, SumPlus
  <2>4. Counts(rows, T \cup {x})
    BY <1>0 DEF Counts
  <2>5. Sum(rows, T \cup {x}) = rows[x] + Sum(rows, T)
    BY <1>2, <2>4, SumMore
  <2>6. rows[x] = Sum(m[x], H) /\ Sum(C(T), H) = Sum(rows, T)
    BY <1>2
  <2>7. Sum(C(T \cup {x}), H) = Sum(rows, T \cup {x})
    BY ONLY <2>3, <2>5, <2>6, Zenon
  <2>8. QED
    BY <2>7
<1>3. Q \in F
  <2> HIDE DEF F
  <2>1. QED
    BY <1>1, <1>2, TermByTerm
<1>4. \A h \in H : cols[h] = C(Q)[h] /\ cols[h] \in Nat
  <2>1. ASSUME NEW h \in H PROVE cols[h] = Sum(col[h], Q) /\ Sum(col[h], Q) \in Nat
    BY <1>0, SumType
  <2>2. QED
    BY <2>1
<1>5. Sum(C(Q), H) = Sum(rows, Q)
  BY <1>3
<1> HIDE DEF C
<1>6. QED
  BY <1>4, <1>5, SumSame DEF Counts

-----------------------------------------------------------------------------
(* The tables of the code                                                   *)

\* The tracks and what each of them weighs.
LEMMA TrackTable ==
  /\ Tracks = {"repositories", "packages", "mcp_servers", "skills"}
  /\ TRACK_EMISSION_WEIGHTS["repositories"] = 12 /\ TRACK_EMISSION_WEIGHTS["packages"] = 10
  /\ TRACK_EMISSION_WEIGHTS["mcp_servers"] = 9 /\ TRACK_EMISSION_WEIGHTS["skills"] = 9
  /\ Counts(TRACK_EMISSION_WEIGHTS, Tracks)
  /\ \A t \in Tracks : TRACK_EMISSION_WEIGHTS[t] \in 9..12 /\ TRACK_THRESHOLDS[t] \in 20..50
BY DEF Tracks, TRACK_EMISSION_WEIGHTS, TRACK_THRESHOLDS, Counts

\* There are four tracks, and they weigh forty together.
LEMMA TrackSums ==
  /\ IsFiniteSet(Tracks) /\ Cardinality(Tracks) = 4
  /\ Sum(TRACK_EMISSION_WEIGHTS, Tracks) = 40
<1> DEFINE W == TRACK_EMISSION_WEIGHTS
<1> DEFINE A == {"repositories"}
<1> DEFINE B == A \cup {"packages"}
<1> DEFINE C == B \cup {"mcp_servers"}
<1>1. Tracks = C \cup {"skills"} /\ Counts(W, Tracks)
  BY TrackTable
<1>2. Counts(W, A) /\ Counts(W, B) /\ Counts(W, C)
  BY <1>1 DEF Counts
<1>3. "packages" \notin A /\ "mcp_servers" \notin B /\ "skills" \notin C /\ A = {} \cup {"repositories"}
  OBVIOUS
<1>4. W["repositories"] = 12 /\ W["packages"] = 10 /\ W["mcp_servers"] = 9 /\ W["skills"] = 9
  BY TrackTable
<1> HIDE DEF W
<1>5. IsFiniteSet(A) /\ Cardinality(A) = 1 /\ Sum(W, A) = 12
  <2>1. Sum(W, A) = W["repositories"] + Sum(W, {})
    BY <1>2, <1>3, SumMore, FS_EmptySet
  <2>2. IsFiniteSet(A) /\ Cardinality(A) = 1
    BY FS_Singleton
  <2> HIDE DEF A
  <2>3. QED
    BY <1>4, <2>1, <2>2, SumEmpty
<1> HIDE DEF A
<1>6. IsFiniteSet(B) /\ Cardinality(B) = 2 /\ Sum(W, B) = 22
  <2>1. Sum(W, B) = W["packages"] + Sum(W, A)
    BY <1>2, <1>3, <1>5, SumMore
  <2>2. QED
    BY <1>3, <1>4, <1>5, <2>1, FS_AddElement
<1> HIDE DEF B
<1>7. IsFiniteSet(C) /\ Cardinality(C) = 3 /\ Sum(W, C) = 31
  <2>1. Sum(W, C) = W["mcp_servers"] + Sum(W, B)
    BY <1>2, <1>3, <1>6, SumMore
  <2>2. QED
    BY <1>3, <1>4, <1>6, <2>1, FS_AddElement
<1> HIDE DEF C
<1>8. IsFiniteSet(Tracks) /\ Cardinality(Tracks) = 4 /\ Sum(W, Tracks) = 40
  <2>1. Sum(W, Tracks) = W["skills"] + Sum(W, C)
    BY <1>1, <1>3, <1>7, SumMore
  <2>2. QED
    BY <1>1, <1>3, <1>4, <1>7, <2>1, FS_AddElement
<1>9. QED
  BY <1>8 DEF W

\* What the places are worth: no place more than one before it.
LEMMA SplitTable ==
  /\ \A n \in 1..5 : TOP_K_SPLIT[n] \in 8..40
  /\ \A n, m \in 1..5 : n <= m => TOP_K_SPLIT[n] >= TOP_K_SPLIT[m]
<1>1. \A n \in 1..5 : n = 1 \/ n = 2 \/ n = 3 \/ n = 4 \/ n = 5
  OBVIOUS
<1>2. QED
  BY <1>1 DEF TOP_K_SPLIT

\* The sums of the leading splits, each of which divides what it is divided into.
LEMMA SplitSums ==
  \A n \in 1..5 : SplitSum(n) \in Nat \ {0} /\ SplitUnit % SplitSum(n) = 0
<1> DEFINE f == TOP_K_SPLIT
<1>1. f[1] = 40 /\ f[2] = 25 /\ f[3] = 15 /\ f[4] = 12 /\ f[5] = 8
  BY DEF TOP_K_SPLIT
<1>2. \A n \in 1..5 : n = 1 \/ n = 2 \/ n = 3 \/ n = 4 \/ n = 5
  OBVIOUS
<1> HIDE DEF f
<1>3. \A n \in 0..4 : Sum(f, 1..(n+1)) = f[n+1] + Sum(f, 1..n)
  <2> SUFFICES ASSUME NEW n \in 0..4 PROVE Sum(f, 1..(n+1)) = f[n+1] + Sum(f, 1..n)
    OBVIOUS
  <2>1. (1..n) \cup {n+1} = 1..(n+1) /\ n+1 \notin 1..n
    OBVIOUS
  <2>2. Counts(f, 1..(n+1))
    <3>1. \A k \in 1..(n+1) : k \in 1..5
      OBVIOUS
    <3>2. \A k \in 1..5 : f[k] \in Nat
      BY <1>1, <1>2
    <3>3. QED
      BY <3>1, <3>2 DEF Counts
  <2>3. IsFiniteSet(1..n)
    BY FS_Interval
  <2>4. QED
    BY <2>1, <2>2, <2>3, SumMore
<1>4. Sum(f, 1..0) = 0
  <2>1. 1..0 = {}
    OBVIOUS
  <2>2. QED
    BY <2>1, SumEmpty
<1>5. /\ Sum(f, 1..1) = 40 /\ Sum(f, 1..2) = 65 /\ Sum(f, 1..3) = 80
      /\ Sum(f, 1..4) = 92 /\ Sum(f, 1..5) = 100
  <2>1. Sum(f, 1..1) = f[1] + Sum(f, 1..0)
    BY <1>3, 0 \in 0..4, 0 + 1 = 1
  <2>2. Sum(f, 1..2) = f[2] + Sum(f, 1..1)
    BY <1>3, 1 \in 0..4, 1 + 1 = 2
  <2>3. Sum(f, 1..3) = f[3] + Sum(f, 1..2)
    BY <1>3, 2 \in 0..4, 2 + 1 = 3
  <2>4. Sum(f, 1..4) = f[4] + Sum(f, 1..3)
    BY <1>3, 3 \in 0..4, 3 + 1 = 4
  <2>5. Sum(f, 1..5) = f[5] + Sum(f, 1..4)
    BY <1>3, 4 \in 0..4, 4 + 1 = 5
  <2>6. QED
    BY <1>1, <1>4, <2>1, <2>2, <2>3, <2>4, <2>5
<1>6. \A u \in Nat : /\ (119600 * u) % 40 = 0 /\ (119600 * u) % 65 = 0 /\ (119600 * u) % 80 = 0
                     /\ (119600 * u) % 92 = 0 /\ (119600 * u) % 100 = 0
  OBVIOUS
<1>7. \A n \in 1..5 : SplitSum(n) = Sum(f, 1..n)
  BY DEF SplitSum, Sum, f
<1>8. ASSUME NEW n \in 1..5 PROVE SplitSum(n) \in Nat \ {0} /\ SplitUnit % SplitSum(n) = 0
  <2>1. SplitSum(n) \in {40, 65, 80, 92, 100}
    BY <1>2, <1>5, <1>7
  <2>2. SplitUnit = 119600 * Unit /\ Unit \in Nat
    BY UnitAssumption DEF SplitUnit
  <2>3. QED
    BY <1>6, <2>1, <2>2
<1>9. QED
  BY <1>8

-----------------------------------------------------------------------------
(* The ranking of a track                                                   *)

Scored(s) == \A t \in Tracks : \A h \in Entrants[t] : s[t][h] \in 0..100

\* The agents that are ranked are hotkeys, finitely many.
LEMMA PositiveFinite ==
  ASSUME NEW s, NEW t \in Tracks
  PROVE  /\ Positive(s, t) \in SUBSET Hotkeys /\ Positive(s, t) \subseteq Entrants[t]
         /\ IsFiniteSet(Positive(s, t)) /\ Cardinality(Positive(s, t)) \in Nat
<1>1. Positive(s, t) \in SUBSET Hotkeys /\ Positive(s, t) \subseteq Entrants[t]
  BY ConstantsAssumption DEF Positive
<1>2. QED
  BY <1>1, ConstantsAssumption, FS_Subset, FS_CardinalityType

\* Score and salt put the ranked agents of a track in a strict total order.
LEMMA BeforeOrder ==
  ASSUME NEW s, Scored(s), NEW o \in Salts, NEW t \in Tracks
  PROVE  /\ \A h \in Positive(s, t) : ~Before(s, o, t, h, h)
         /\ \A h, k \in Positive(s, t) : /\ h # k => Before(s, o, t, h, k) \/ Before(s, o, t, k, h)
                                         /\ Before(s, o, t, h, k) => ~Before(s, o, t, k, h)
         /\ \A h, k, l \in Positive(s, t) :
              Before(s, o, t, h, k) /\ Before(s, o, t, k, l) => Before(s, o, t, h, l)
<1>1. \A h \in Positive(s, t) : s[t][h] \in Int /\ o[t][h] \in Int
  <2>1. o[t] \in [Hotkeys -> Nat]
    BY ConstantsAssumption
  <2>2. QED
    BY <2>1, PositiveFinite DEF Scored
<1>2. \A h, k \in Positive(s, t) : o[t][h] = o[t][k] => h = k
  BY ConstantsAssumption, PositiveFinite
<1>3. QED
  BY <1>1, <1>2 DEF Before

Ahead(s, o, t, h) == {k \in Positive(s, t) : Before(s, o, t, k, h)}

\* What a place is, and that it tells who is before whom.
LEMMA PlaceValue ==
  ASSUME NEW s, Scored(s), NEW o \in Salts, NEW t \in Tracks
  PROVE  /\ DOMAIN Place(s, o, t) = Positive(s, t)
         /\ \A h \in Positive(s, t) : /\ Place(s, o, t)[h] = 1 + Cardinality(Ahead(s, o, t, h))
                                      /\ Place(s, o, t)[h] \in 1..Cardinality(Positive(s, t))
         /\ \A h, k \in Positive(s, t) :
              Before(s, o, t, h, k) <=> Place(s, o, t)[h] < Place(s, o, t)[k]
<1> DEFINE P == Positive(s, t)
<1> DEFINE place == Place(s, o, t)
<1>1. place = [h \in P |-> 1 + Cardinality(Ahead(s, o, t, h))]
  BY DEF Place, Ahead
<1>2. IsFiniteSet(P) /\ Cardinality(P) \in Nat
  BY PositiveFinite
<1>3. ASSUME NEW h \in P
      PROVE  /\ Ahead(s, o, t, h) \in SUBSET P /\ h \notin Ahead(s, o, t, h)
             /\ IsFiniteSet(Ahead(s, o, t, h)) /\ Cardinality(Ahead(s, o, t, h)) \in Nat
             /\ Cardinality(Ahead(s, o, t, h) \cup {h}) = Cardinality(Ahead(s, o, t, h)) + 1
             /\ IsFiniteSet(Ahead(s, o, t, h) \cup {h})
  <2>1. Ahead(s, o, t, h) \in SUBSET P /\ h \notin Ahead(s, o, t, h)
    BY BeforeOrder DEF Ahead
  <2>2. IsFiniteSet(Ahead(s, o, t, h)) /\ Cardinality(Ahead(s, o, t, h)) \in Nat
    BY <1>2, <2>1, FS_Subset, FS_CardinalityType
  <2>3. QED
    BY <2>1, <2>2, FS_AddElement
<1>4. ASSUME NEW h \in P
      PROVE  place[h] = 1 + Cardinality(Ahead(s, o, t, h)) /\ place[h] \in 1..Cardinality(P)
  <2>1. Ahead(s, o, t, h) \cup {h} \in SUBSET P
    BY <1>3
  <2>2. Cardinality(Ahead(s, o, t, h) \cup {h}) <= Cardinality(P)
    BY <1>2, <2>1, FS_Subset
  <2>3. place[h] = 1 + Cardinality(Ahead(s, o, t, h))
    BY <1>1
  <2> HIDE DEF P, place
  <2>4. QED
    BY <1>2, <1>3, <2>2, <2>3
<1>5. ASSUME NEW h \in P, NEW k \in P, Before(s, o, t, h, k) PROVE place[h] < place[k]
  <2>1. Ahead(s, o, t, h) \cup {h} \subseteq Ahead(s, o, t, k)
    BY <1>5, BeforeOrder DEF Ahead
  <2>2. Cardinality(Ahead(s, o, t, h) \cup {h}) <= Cardinality(Ahead(s, o, t, k))
    BY <1>3, <2>1, FS_Subset
  <2> HIDE DEF P, place
  <2>3. /\ Cardinality(Ahead(s, o, t, h)) \in Nat /\ Cardinality(Ahead(s, o, t, k)) \in Nat
        /\ Cardinality(Ahead(s, o, t, h)) + 1 <= Cardinality(Ahead(s, o, t, k))
    BY <1>3, <2>2
  <2>4. place[h] = 1 + Cardinality(Ahead(s, o, t, h)) /\ place[k] = 1 + Cardinality(Ahead(s, o, t, k))
    BY <1>4
  <2>5. QED
    BY <2>3, <2>4
<1>6. ASSUME NEW h \in P, NEW k \in P, place[h] < place[k] PROVE Before(s, o, t, h, k)
  <2>1. CASE h = k
    BY <1>4, <1>6, <2>1
  <2>2. CASE Before(s, o, t, k, h)
    BY <1>4, <1>5, <1>6, <2>2
  <2>3. QED
    BY <2>1, <2>2, BeforeOrder
<1>7. DOMAIN place = P
  BY <1>1
<1>8. QED
  BY <1>4, <1>5, <1>6, <1>7

\* Every place is taken once.
LEMMA PlaceBijection ==
  ASSUME NEW s, Scored(s), NEW o \in Salts, NEW t \in Tracks
  PROVE  Place(s, o, t) \in Bijection(Positive(s, t), 1..Cardinality(Positive(s, t)))
<1> DEFINE P == Positive(s, t)
<1> DEFINE place == Place(s, o, t)
<1>1. IsFiniteSet(P) /\ Cardinality(P) \in Nat
  BY PositiveFinite
<1>2. place \in [P -> 1..Cardinality(P)]
  <2>1. place = [h \in P |-> place[h]]
    BY DEF Place
  <2> HIDE DEF P, place
  <2>2. \A h \in P : place[h] \in 1..Cardinality(P)
    BY PlaceValue DEF P, place
  <2>3. QED
    BY <2>1, <2>2
<1>3. \A h, k \in P : place[h] = place[k] => h = k
  <2> SUFFICES ASSUME NEW h \in P, NEW k \in P, place[h] = place[k], h # k PROVE FALSE
    OBVIOUS
  <2>1. place[h] < place[k] \/ place[k] < place[h]
    BY BeforeOrder, PlaceValue
  <2>2. place[h] \in Int /\ place[k] \in Int
    BY PlaceValue
  <2>3. QED
    BY <2>1, <2>2
<1> HIDE DEF P, place
<1>4. place \in Injection(P, 1..Cardinality(P))
  BY <1>2, <1>3 DEF Injection, IsInjective
<1>5. IsFiniteSet(1..Cardinality(P)) /\ Cardinality(1..Cardinality(P)) = Cardinality(P)
  <2>1. /\ IsFiniteSet(1..Cardinality(P))
        /\ Cardinality(1..Cardinality(P)) = IF 1 > Cardinality(P) THEN 0 ELSE Cardinality(P) - 1 + 1
    BY <1>1, FS_Interval
  <2>2. QED
    BY <1>1, <2>1
<1>6. place \in Surjection(P, 1..Cardinality(P))
  BY <1>4, <1>5, FS_Injection
<1>7. QED
  BY <1>4, <1>6 DEF Bijection, P, place

\* The agents a track pays take its first places, five at most.
LEMMA TopPlaces ==
  ASSUME NEW s, Scored(s), NEW o \in Salts, NEW t \in Qualified(s)
  PROVE  LET place == Place(s, o, t)
             top == Top(place)
             n == Cardinality(top)
         IN  /\ top \in SUBSET Positive(s, t) /\ n \in 1..5
             /\ n = IF Cardinality(Positive(s, t)) <= 5 THEN Cardinality(Positive(s, t)) ELSE 5
             /\ [h \in top |-> place[h]] \in Bijection(top, 1..n)
<1> DEFINE P == Positive(s, t)
<1> DEFINE place == Place(s, o, t)
<1> DEFINE top == Top(place)
<1> DEFINE m == IF Cardinality(P) <= 5 THEN Cardinality(P) ELSE 5
<1> DEFINE p == [h \in top |-> place[h]]
<1>0. t \in Tracks /\ P # {} /\ IsFiniteSet(P) /\ Cardinality(P) \in Nat
  BY PositiveFinite DEF Qualified
<1>1. place \in Bijection(P, 1..Cardinality(P))
  BY <1>0, PlaceBijection
<1>2. Cardinality(P) # 0
  BY <1>0, FS_EmptySet
<1> HIDE DEF P
<1>3. m \in 1..5 /\ m \in Nat /\ \A i \in 1..Cardinality(P) : i <= 5 <=> i \in 1..m
  BY <1>0, <1>2
<1> HIDE DEF m, place
<1>4. top = {h \in P : place[h] <= 5} /\ place \in [P -> 1..Cardinality(P)]
  BY <1>1 DEF Top, TOP_K, Bijection, Injection
<1> HIDE DEF top
<1>5. p \in [top -> 1..m] /\ \A h \in top : p[h] = place[h]
  BY <1>3, <1>4
<1>6. p \in Injection(top, 1..m)
  <2>1. \A h, k \in P : place[h] = place[k] => h = k
    BY <1>1, <1>4 DEF Bijection, Injection, IsInjective
  <2>2. \A h, k \in top : p[h] = p[k] => h = k
    BY <1>4, <1>5, <2>1
  <2> HIDE DEF p
  <2>3. QED
    BY <1>5, <2>2 DEF Injection, IsInjective
<1>7. p \in Surjection(top, 1..m)
  <2>1. ASSUME NEW i \in 1..m PROVE \E h \in top : p[h] = i
    <3>1. i \in 1..Cardinality(P) /\ i <= 5
      BY <1>0, <2>1 DEF m
    <3>2. PICK h \in P : place[h] = i
      BY <1>1, <3>1 DEF Bijection, Surjection
    <3>3. QED
      BY <1>4, <1>5, <3>1, <3>2
  <2> HIDE DEF p
  <2>2. QED
    BY <1>5, <2>1 DEF Surjection
<1>8. p \in Bijection(top, 1..m)
  BY <1>6, <1>7 DEF Bijection
<1>9. IsFiniteSet(top)
  BY <1>0, <1>4, FS_Subset
<1> HIDE DEF p
<1>10. Cardinality(top) = m
  <2>1. ExistsBijection(top, 1..m)
    BY <1>8 DEF ExistsBijection
  <2>2. Cardinality(1..m) = Cardinality(top)
    BY <1>9, <2>1, FS_Bijection
  <2>3. Cardinality(1..m) = IF 1 > m THEN 0 ELSE m - 1 + 1
    BY <1>3, FS_Interval
  <2>4. QED
    BY <1>3, <2>2, <2>3
<1>11. top \in SUBSET P
  BY <1>4
<1>12. QED
  BY <1>3, <1>8, <1>10, <1>11 DEF p, m, P, top, place

-----------------------------------------------------------------------------
(* What a track pays                                                        *)

Multiple(y, x, a) == y = x * a
Quotient(y, d) == y \div d
Remainder(a, d) == a % d

\* What a number divides it divides a multiple of, without a rest.
LEMMA Divides ==
  ASSUME NEW a \in Nat, NEW d \in Nat, d # 0, Remainder(a, d) = 0,
         NEW x \in Nat, NEW y, Multiple(y, x, a)
  PROVE  \E q \in Nat : Multiple(a, q, d) /\ Multiple(Quotient(y, d), x, q)
<1> DEFINE q == a \div d
<1>1. q \in Nat /\ q * d = a
  BY DEF Remainder
<1> HIDE DEF q
<1>2. y = (x * q) * d /\ x * q \in Nat
  BY <1>1 DEF Multiple
<1>3. \A z \in Nat : (z * d) \div d = z
  OBVIOUS
<1>4. y \div d = x * q
  BY <1>2, <1>3
<1>5. QED
  BY <1>1, <1>4 DEF Multiple, Quotient

\* There are one to four qualified tracks, and they share the idle ones' weight
\* without a rest.
LEMMA IdleShared ==
  ASSUME NEW s, Qualified(s) # {}
  PROVE  /\ IsFiniteSet(Qualified(s)) /\ Cardinality(Qualified(s)) \in 1..4
         /\ Idle(s) = 40 - Sum(TRACK_EMISSION_WEIGHTS, Qualified(s))
         /\ Sum(TRACK_EMISSION_WEIGHTS, Qualified(s)) \in 1..40
         /\ Bonus(s) \in Nat /\ Bonus(s) * Cardinality(Qualified(s)) = 12 * Idle(s)
<1> DEFINE W == TRACK_EMISSION_WEIGHTS
<1> DEFINE Q == Qualified(s)
<1> DEFINE c == Cardinality(Q)
<1>1. Q \in SUBSET Tracks /\ Tracks \ Q \in SUBSET Tracks /\ Q \cup (Tracks \ Q) = Tracks
  BY DEF Qualified
<1>2. IsFiniteSet(Q) /\ IsFiniteSet(Tracks \ Q) /\ c \in 1..4
  <2>1. IsFiniteSet(Q) /\ IsFiniteSet(Tracks \ Q) /\ c <= 4
    BY <1>1, TrackSums, FS_Subset
  <2>2. c \in Nat /\ c # 0
    BY <2>1, FS_CardinalityType, FS_EmptySet
  <2> HIDE DEF c
  <2>3. QED
    BY <2>1, <2>2
<1>3. Counts(W, Tracks) /\ Counts(W, Q) /\ Counts(W, Tracks \ Q) /\ Sum(W, Tracks) = 40
  BY <1>1, TrackTable, TrackSums DEF Counts
<1>4. Idle(s) = Sum(W, Tracks \ Q)
  BY DEF Idle, Sum
<1>5. PICK t \in Q : t \in Tracks /\ W[t] \in 9..12
  BY <1>1, TrackTable
<1> HIDE DEF Q, c, W
<1>6. Q \cap (Tracks \ Q) = {}
  OBVIOUS
<1>7. Sum(W, Q \cup (Tracks \ Q)) = Sum(W, Q) + Sum(W, Tracks \ Q)
  BY <1>1, <1>2, <1>3, <1>6, SumApart
<1>8. Sum(W, Q) \in Nat /\ Sum(W, Tracks \ Q) \in Nat /\ W[t] <= Sum(W, Q)
  BY <1>2, <1>3, SumType, SumTerm
<1>9. Idle(s) \in Nat /\ Idle(s) = 40 - Sum(W, Q) /\ Sum(W, Q) \in 1..40
  BY <1>1, <1>3, <1>4, <1>5, <1>7, <1>8
<1>10. Bonus(s) = (12 * Idle(s)) \div c
  BY DEF Bonus, c, Q
<1>11. Bonus(s) \in Nat /\ Bonus(s) * c = 12 * Idle(s)
  <2>1. \A i \in Nat : \A d \in 1..4 : (12 * i) \div d \in Nat /\ ((12 * i) \div d) * d = 12 * i
    OBVIOUS
  <2>2. QED
    BY <1>2, <1>9, <1>10, <2>1
<1>12. QED
  BY <1>2, <1>9, <1>11 DEF c, Q, W

\* The unit and the whole are naturals.
LEMMA WholeType == SplitUnit \in Nat \ {0} /\ Whole = 480 * SplitUnit /\ Whole \in Nat \ {0}
<1>1. SplitUnit \in Nat \ {0}
  BY UnitAssumption DEF SplitUnit
<1>2. QED
  BY <1>1 DEF Whole

Paid(s, o, t) == Top(Place(s, o, t))
Part(s, o, t) == Share(s, t) \div SplitSum(Cardinality(Paid(s, o, t)))

\* A qualified track pays its whole share, to its first agents.
LEMMA TrackPays ==
  ASSUME NEW s, Scored(s), NEW o \in Salts, NEW t \in Qualified(s)
  PROVE  /\ Share(s, t) \in Nat /\ Part(s, o, t) \in Nat
         /\ Part(s, o, t) * SplitSum(Cardinality(Paid(s, o, t))) = Share(s, t)
         /\ \A h \in Hotkeys : Pays(s, o, t)[h] =
              IF h \in Paid(s, o, t) THEN Part(s, o, t) * TOP_K_SPLIT[Place(s, o, t)[h]] ELSE 0
         /\ Counts(Pays(s, o, t), Hotkeys)
         /\ Sum(Pays(s, o, t), Hotkeys) = Share(s, t)
<1> DEFINE place == Place(s, o, t)
<1> DEFINE top == Top(place)
<1> DEFINE n == Cardinality(top)
<1> DEFINE part == Part(s, o, t)
<1> DEFINE pays == Pays(s, o, t)
<1> DEFINE p == [h \in top |-> place[h]]
<1> DEFINE g == [i \in 1..n |-> part * TOP_K_SPLIT[i]]
<1>1. t \in Tracks /\ top \in SUBSET Hotkeys /\ n \in 1..5 /\ p \in Bijection(top, 1..n)
  BY TopPlaces, PositiveFinite DEF Qualified
<1>2. TRACK_EMISSION_WEIGHTS[t] \in Nat /\ Bonus(s) \in Nat
  BY <1>1, TrackTable, IdleShared
<1>3. Share(s, t) = (12 * TRACK_EMISSION_WEIGHTS[t] + Bonus(s)) * SplitUnit
  BY DEF Share
<1>4. part = Share(s, t) \div SplitSum(n)
  BY DEF Part, Paid
<1>5. \A h \in Hotkeys : pays[h] = IF h \in top THEN part * TOP_K_SPLIT[place[h]] ELSE 0
  BY DEF Pays, Part, Paid
<1>6. \A h \in top : p[h] = place[h] /\ place[h] \in 1..n
  BY <1>1 DEF Bijection, Injection
<1> HIDE DEF n, part, pays
<1>7. Share(s, t) \in Nat /\ part \in Nat /\ part * SplitSum(n) = Share(s, t)
  <2>1. SplitSum(n) \in Nat \ {0} /\ SplitUnit % SplitSum(n) = 0
    BY <1>1, SplitSums
  <2> DEFINE x == 12 * TRACK_EMISSION_WEIGHTS[t] + Bonus(s)
  <2>2. x \in Nat /\ Share(s, t) = x * SplitUnit /\ SplitUnit \in Nat
    BY <1>2, <1>3, WholeType
  <2> HIDE DEF x
  <2>3. PICK q \in Nat : SplitUnit = q * SplitSum(n) /\ part = x * q
    <3>1. SplitSum(n) \in Nat /\ SplitSum(n) # 0 /\ Remainder(SplitUnit, SplitSum(n)) = 0
      BY <2>1 DEF Remainder
    <3>2. Multiple(Share(s, t), x, SplitUnit)
      BY <2>2 DEF Multiple
    <3>3. \E q \in Nat : /\ Multiple(SplitUnit, q, SplitSum(n))
                         /\ Multiple(Quotient(Share(s, t), SplitSum(n)), x, q)
      BY ONLY <2>2, <3>1, <3>2, Divides, Zenon
    <3>4. QED
      BY <1>4, <3>3 DEF Multiple, Quotient
  <2>4. Share(s, t) \in Nat /\ part \in Nat
    BY <2>2, <2>3, WholeType
  <2>5. (x * q) * SplitSum(n) = x * (q * SplitSum(n))
    BY <2>1, <2>2, <2>3
  <2>6. QED
    BY <2>2, <2>3, <2>4, <2>5
<1>8. \A i \in 1..n : TOP_K_SPLIT[i] \in Nat /\ g[i] = part * TOP_K_SPLIT[i] /\ g[i] \in Nat
  <2>1. ASSUME NEW i \in 1..n PROVE TOP_K_SPLIT[i] \in Nat
    <3>1. n \in 1..5
      BY <1>1
    <3>2. i \in 1..5
      BY <3>1
    <3>3. TOP_K_SPLIT[i] \in 8..40
      BY <3>2, SplitTable
    <3>4. QED
      BY <3>3
  <2>2. \A a, b \in Nat : a * b \in Nat
    OBVIOUS
  <2>3. QED
    BY <1>7, <2>1, <2>2
<1> HIDE DEF g
<1>9. \A h \in top : pays[h] = g[p[h]] /\ pays[h] \in Nat
  BY <1>1, <1>5, <1>6, <1>8
<1>10. Counts(pays, Hotkeys) /\ Counts(pays, top) /\ \A h \in Hotkeys \ top : pays[h] = 0
  BY <1>1, <1>5, <1>9 DEF Counts
<1> HIDE DEF p, top
<1>11. Sum(pays, Hotkeys) = Sum(pays, top)
  BY <1>1, <1>10, ConstantsAssumption, SumSupport
<1>12. Sum(pays, top) = Sum(g, 1..n)
  <2>1. IsFiniteSet(top)
    BY <1>1, ConstantsAssumption, FS_Subset
  <2>2. QED
    BY <1>1, <1>9, <1>10, <2>1, SumRenamed
<1>13. Sum(g, 1..n) = part * SplitSum(n)
  <2>1. IsFiniteSet(1..n) /\ Counts(TOP_K_SPLIT, 1..n)
    BY <1>1, <1>8, FS_Interval DEF Counts
  <2>2. Sum(g, 1..n) = part * Sum(TOP_K_SPLIT, 1..n)
    <3>1. part \in Nat /\ \A i \in 1..n : g[i] = part * TOP_K_SPLIT[i]
      BY <1>7, <1>8
    <3> DEFINE f == TOP_K_SPLIT
    <3> DEFINE I == 1..n
    <3>2. IsFiniteSet(I) /\ Counts(f, I) /\ \A i \in I : g[i] = part * f[i]
      BY <2>1, <3>1
    <3> HIDE DEF f, I
    <3>3. Sum(g, I) = part * Sum(f, I)
      BY <3>1, <3>2, SumTimes
    <3>4. QED
      BY <3>3 DEF f, I
  <2>3. QED
    BY <2>2 DEF Sum, SplitSum
<1>14. Sum(pays, Hotkeys) = Share(s, t)
  BY <1>7, <1>11, <1>12, <1>13
<1>15. QED
  BY <1>5, <1>7, <1>10, <1>14 DEF n, top, part, pays, Paid

-----------------------------------------------------------------------------
(* What all tracks pay, and the vector                                      *)

Earned(s, o, h) == [t \in Qualified(s) |-> Pays(s, o, t)[h]]

\* A hotkey's performance is what the qualified tracks pay it.
LEMMA PerformanceValue ==
  ASSUME NEW s, Scored(s), NEW o \in Salts
  PROVE  /\ IsFiniteSet(Qualified(s))
         /\ \A h \in Hotkeys : /\ Counts(Earned(s, o, h), Qualified(s))
                               /\ Performance(s, o)[h] = Sum(Earned(s, o, h), Qualified(s))
                               /\ Performance(s, o)[h] \in Nat
<1>1. Qualified(s) \in SUBSET Tracks
  BY DEF Qualified
<1>2. IsFiniteSet(Qualified(s))
  BY <1>1, TrackSums, FS_Subset
<1>3. ASSUME NEW h \in Hotkeys PROVE Counts(Earned(s, o, h), Qualified(s))
  BY TrackPays DEF Earned, Counts
<1>4. ASSUME NEW h \in Hotkeys PROVE Performance(s, o)[h] = Sum(Earned(s, o, h), Qualified(s))
  <2> DEFINE pays == [t \in Qualified(s) |-> Pays(s, o, t)]
  <2>1. [t \in Qualified(s) |-> pays[t][h]] = Earned(s, o, h)
    BY DEF Earned
  <2>2. Performance(s, o)[h] = SumFunctionOnSet([t \in Qualified(s) |-> pays[t][h]], Qualified(s))
    BY DEF Performance
  <2>3. QED
    BY <2>1, <2>2 DEF Sum
<1>5. QED
  BY <1>2, <1>3, <1>4, SumType

\* The shares of the qualified tracks are the whole emission.
LEMMA SharesSum ==
  ASSUME NEW s, Qualified(s) # {}, NEW rows, \A t \in Qualified(s) : rows[t] = Share(s, t)
  PROVE  Sum(rows, Qualified(s)) = Whole
<1> DEFINE W == TRACK_EMISSION_WEIGHTS
<1> DEFINE Q == Qualified(s)
<1> DEFINE c == Cardinality(Q)
<1> DEFINE B == Bonus(s)
<1> DEFINE U == SplitUnit
<1> DEFINE a == 12 * U
<1> DEFINE b == B * U
<1> DEFINE f == [t \in Q |-> a * W[t]]
<1> DEFINE g == [t \in Q |-> b]
<1>1. Q \in SUBSET Tracks /\ \A t \in Q : W[t] \in Nat
  BY TrackTable DEF Qualified
<1>2. IsFiniteSet(Q) /\ c \in 1..4 /\ Sum(W, Q) \in 1..40 /\ B \in Nat /\ B * c = 12 * (40 - Sum(W, Q))
  BY IdleShared
<1>3. U \in Nat /\ Whole = 480 * U
  BY WholeType
<1>4. \A t \in Q : rows[t] = (12 * W[t] + B) * U
  BY DEF Share
<1> HIDE DEF Q, c, B, U, W
<1>5. a \in Nat /\ b \in Nat
  BY <1>2, <1>3
<1>6. \A t \in Q : rows[t] = a * W[t] + b
  <2>1. \A w \in Nat : (12 * w + B) * U = (12 * U) * w + B * U
    BY <1>2, <1>3
  <2>2. QED
    BY <1>1, <1>4, <2>1
<1> HIDE DEF a, b
<1>7. \A t \in Q : f[t] = a * W[t] /\ g[t] = b /\ f[t] \in Nat /\ g[t] \in Nat
  <2>1. \A i, k \in Nat : i * k \in Nat
    OBVIOUS
  <2>2. QED
    BY <1>1, <1>5, <2>1
<1> HIDE DEF f, g
<1>8. Counts(W, Q) /\ Counts(f, Q) /\ Counts(g, Q)
  BY <1>1, <1>7 DEF Counts
<1>9. Sum(f, Q) = a * Sum(W, Q)
  BY <1>2, <1>5, <1>7, <1>8, SumTimes
<1>10. Sum(g, Q) = b * c
  BY <1>2, <1>5, <1>7, SumConstant DEF c
<1>11. Sum(rows, Q) = Sum(f, Q) + Sum(g, Q)
  <2>1. \A t \in Q : rows[t] = f[t] + g[t]
    BY <1>6, <1>7
  <2>2. QED
    BY <1>2, <1>8, <2>1, SumPlus
<1>12. a * Sum(W, Q) + b * c = 480 * U
  <2> DEFINE w == Sum(W, Q)
  <2>1. w \in Nat /\ c \in Nat /\ B * c = 12 * (40 - w)
    BY <1>2
  <2> HIDE DEF w
  <2>2. b * c = (B * c) * U
    BY <1>2, <1>3, <2>1 DEF b
  <2>3. b * c = (12 * (40 - w)) * U
    BY <2>1, <2>2
  <2>4. (12 * U) * w + (12 * (40 - w)) * U = 480 * U
    BY <1>3, <2>1
  <2>5. QED
    BY <2>3, <2>4 DEF w, a
<1>13. QED
  BY <1>3, <1>9, <1>10, <1>11, <1>12 DEF Q

\* The performances sum up to the whole emission, if anybody qualifies.
LEMMA PerformanceSum ==
  ASSUME NEW s, Scored(s), NEW o \in Salts
  PROVE  Sum(Performance(s, o), Hotkeys) = IF Qualified(s) = {} THEN 0 ELSE Whole
<1> DEFINE Q == Qualified(s)
<1> DEFINE P == Performance(s, o)
<1> DEFINE m == [t \in Q |-> Pays(s, o, t)]
<1> DEFINE rows == [t \in Q |-> Share(s, t)]
<1> DEFINE col == [h \in Hotkeys |-> Earned(s, o, h)]
<1>1. IsFiniteSet(Q) /\ IsFiniteSet(Hotkeys)
  BY PerformanceValue, ConstantsAssumption
<1>2. \A t \in Q : Counts(m[t], Hotkeys) /\ rows[t] = Sum(m[t], Hotkeys)
  BY TrackPays
<1>3. \A h \in Hotkeys : P[h] = Sum(col[h], Q) /\ \A t \in Q : col[h][t] = m[t][h]
  BY PerformanceValue DEF Earned
<1>4. \A t \in Q : rows[t] = Share(s, t)
  OBVIOUS
<1> HIDE DEF P, m, rows, col
<1>5. CASE Q = {}
  <2>1. ASSUME NEW h \in Hotkeys PROVE P[h] = 0
    <3>1. P[h] = Sum(Earned(s, o, h), Q)
      BY PerformanceValue DEF P
    <3>2. QED
      BY <1>5, <3>1, SumEmpty
  <2>2. Sum(P, Hotkeys) = 0 * Cardinality(Hotkeys) /\ Cardinality(Hotkeys) \in Nat
    BY <1>1, <2>1, SumConstant, FS_CardinalityType
  <2>3. Sum(P, Hotkeys) = 0
    BY <2>2
  <2>4. QED
    BY <1>5, <2>3 DEF P
<1>6. CASE Q # {}
  <2>1. Sum(rows, Q) = Whole
    BY <1>4, <1>6, SharesSum
  <2> HIDE DEF Q
  <2>2. Sum(P, Hotkeys) = Sum(rows, Q)
    BY <1>1, <1>2, <1>3, SumExchanged
  <2>3. QED
    BY <1>6, <2>1, <2>2 DEF Q, P
<1>7. QED
  BY <1>5, <1>6

\* A hotkey that has a performance has qualified somewhere.
LEMMA PerformersActive ==
  ASSUME NEW s, Scored(s), NEW o \in Salts, NEW h \in Hotkeys, Performance(s, o)[h] > 0
  PROVE  h \in Active(s)
<1> DEFINE f == Earned(s, o, h)
<1>1. IsFiniteSet(Qualified(s)) /\ Counts(f, Qualified(s)) /\ Sum(f, Qualified(s)) > 0
  BY PerformanceValue
<1> HIDE DEF f
<1>2. PICK t \in Qualified(s) : f[t] > 0
  BY <1>1, SumTerm
<1>3. f[t] = Pays(s, o, t)[h]
  BY DEF f, Earned
<1>4. h \in Paid(s, o, t)
  BY <1>2, <1>3, TrackPays
<1>5. h \in Positive(s, t) /\ t \in Tracks
  BY <1>4, TopPlaces DEF Paid, Qualified
<1>6. QED
  BY <1>5 DEF Active

Bounty(s, c, h) ==
  IF h \in Eligible(s, c) THEN Whole \div Cardinality(Eligible(s, c)) ELSE 0

\* The contributors that qualified share the whole without a rest.
LEMMA BountySum ==
  ASSUME NEW s, NEW c, c \subseteq Authors, Eligible(s, c) # {}
  PROVE  /\ IsFiniteSet(Eligible(s, c)) /\ Cardinality(Eligible(s, c)) \in 1..Cardinality(Authors)
         /\ Eligible(s, c) \subseteq Hotkeys /\ Eligible(s, c) \subseteq Active(s)
         /\ \A h \in Hotkeys : Bounty(s, c, h) \in Nat
         /\ Sum([h \in Hotkeys |-> Bounty(s, c, h)], Hotkeys) = Whole
<1> DEFINE e == Eligible(s, c)
<1> DEFINE d == Cardinality(e)
<1> DEFINE b == Whole \div d
<1> DEFINE f == [h \in Hotkeys |-> Bounty(s, c, h)]
<1>1. e \in SUBSET Authors /\ Authors \in SUBSET Hotkeys /\ e \subseteq Active(s)
  BY ConstantsAssumption DEF Eligible
<1>2. IsFiniteSet(e) /\ IsFiniteSet(Authors) /\ IsFiniteSet(Hotkeys)
  BY <1>1, ConstantsAssumption, FS_Subset
<1>3. d \in 1..Cardinality(Authors)
  <2>1. d \in Nat /\ Cardinality(Authors) \in Nat /\ d <= Cardinality(Authors) /\ d # 0
    BY <1>1, <1>2, FS_Subset, FS_CardinalityType, FS_EmptySet
  <2> HIDE DEF d
  <2>2. QED
    BY <2>1
<1>4. d \in Nat \ {0} /\ Whole % d = 0 /\ Whole \in Nat
  <2>1. Whole % d = 0 /\ Whole \in Nat
    BY <1>3, UnitAssumption, WholeType
  <2>2. Cardinality(Authors) \in Nat
    BY <1>2, FS_CardinalityType
  <2> HIDE DEF d
  <2>3. QED
    BY <1>3, <2>1, <2>2
<1>5. \A h \in Hotkeys : f[h] = (IF h \in e THEN b ELSE 0) /\ f[h] = Bounty(s, c, h)
  BY DEF Bounty
<1> HIDE DEF d, e
<1>6. b \in Nat /\ b * d = Whole
  BY <1>4
<1> HIDE DEF b, f
<1>7. Sum(f, Hotkeys) = Sum(f, e)
  <2>1. Counts(f, e) /\ \A h \in Hotkeys \ e : f[h] = 0
    BY <1>1, <1>5, <1>6 DEF Counts
  <2>2. QED
    BY <1>1, <1>2, <2>1, SumSupport
<1>8. Sum(f, e) = b * d
  <2>1. \A h \in e : f[h] = b
    BY <1>1, <1>5
  <2>2. QED
    BY <1>2, <1>6, <2>1, SumConstant DEF d
<1>9. Sum(f, Hotkeys) = Whole
  BY <1>6, <1>7, <1>8
<1>10. \A h \in Hotkeys : Bounty(s, c, h) \in Nat
  BY <1>5, <1>6
<1>11. e \subseteq Hotkeys
  BY <1>1
<1>12. QED
  BY <1>1, <1>2, <1>3, <1>9, <1>10, <1>11 DEF e, d, f

\* The vector, weight by weight.
LEMMA WeightValue ==
  ASSUME NEW s, NEW o, NEW c, NEW h \in Hotkeys
  PROVE  compute_emission_weights(s, c, o)[h] =
           IF Eligible(s, c) = {} THEN 20 * Performance(s, o)[h]
           ELSE 19 * Performance(s, o)[h] + Bounty(s, c, h)
BY DEF compute_emission_weights, Bounty

\* The weights are naturals, sum up to the whole emission if anybody qualifies,
\* and go to nobody else.
LEMMA EmissionSum ==
  ASSUME NEW s, Scored(s), NEW o \in Salts, NEW c, c \subseteq Authors
  PROVE  LET w == compute_emission_weights(s, c, o)
         IN  /\ Counts(w, Hotkeys)
             /\ Sum(w, Hotkeys) = IF Active(s) = {} THEN 0 ELSE 20 * Whole
             /\ \A h \in Hotkeys : w[h] > 0 => h \in Active(s)
<1> DEFINE w == compute_emission_weights(s, c, o)
<1> DEFINE P == Performance(s, o)
<1> DEFINE e == Eligible(s, c)
<1> DEFINE f == [h \in Hotkeys |-> Bounty(s, c, h)]
<1> DEFINE g == [h \in Hotkeys |-> 19 * P[h]]
<1>1. IsFiniteSet(Hotkeys) /\ \A h \in Hotkeys : P[h] \in Nat /\ (P[h] > 0 => h \in Active(s))
  BY ConstantsAssumption, PerformanceValue, PerformersActive
<1>2. Sum(P, Hotkeys) = IF Qualified(s) = {} THEN 0 ELSE Whole
  BY PerformanceSum
<1>3. Qualified(s) = {} <=> Active(s) = {}
  BY DEF Qualified, Active
<1>4. Whole \in Nat
  BY WholeType
<1> HIDE DEF P
<1>5. CASE e = {}
  <2>1. \A h \in Hotkeys : w[h] = 20 * P[h]
    BY <1>5, WeightValue DEF P
  <2> HIDE DEF w
  <2>2. Counts(w, Hotkeys) /\ Counts(P, Hotkeys)
    BY <1>1, <2>1 DEF Counts
  <2>3. Sum(w, Hotkeys) = 20 * Sum(P, Hotkeys)
    BY <1>1, <2>1, <2>2, SumTimes
  <2>4. Sum(w, Hotkeys) = IF Active(s) = {} THEN 0 ELSE 20 * Whole
    BY <1>2, <1>3, <1>4, <2>3
  <2>5. \A h \in Hotkeys : w[h] > 0 => h \in Active(s)
    BY <1>1, <2>1
  <2>6. QED
    BY <2>2, <2>4, <2>5 DEF w
<1>6. CASE e # {}
  <2>1. Sum(f, Hotkeys) = Whole /\ e \subseteq Active(s) /\ \A h \in Hotkeys : Bounty(s, c, h) \in Nat
    BY <1>6, BountySum
  <2>2. \A h \in Hotkeys : w[h] = 19 * P[h] + Bounty(s, c, h)
    BY <1>6, WeightValue DEF P
  <2>3. \A h \in Hotkeys : Bounty(s, c, h) > 0 => h \in e
    BY DEF Bounty
  <2> HIDE DEF w, e
  <2>4. \A h \in Hotkeys : f[h] = Bounty(s, c, h) /\ g[h] = 19 * P[h]
    OBVIOUS
  <2> HIDE DEF f, g
  <2>5. Counts(w, Hotkeys) /\ Counts(P, Hotkeys) /\ Counts(f, Hotkeys) /\ Counts(g, Hotkeys)
    BY <1>1, <2>1, <2>2, <2>4 DEF Counts
  <2>6. Sum(w, Hotkeys) = Sum(g, Hotkeys) + Sum(f, Hotkeys)
    BY <1>1, <2>2, <2>4, <2>5, SumPlus
  <2>7. Sum(g, Hotkeys) = 19 * Sum(P, Hotkeys)
    BY <1>1, <2>4, <2>5, SumTimes
  <2>8. Active(s) # {}
    BY <1>6, <2>1
  <2>9. Sum(w, Hotkeys) = 20 * Whole
    BY <1>2, <1>3, <1>4, <2>1, <2>6, <2>7, <2>8
  <2>10. \A h \in Hotkeys : w[h] > 0 => h \in Active(s)
    BY <1>1, <2>1, <2>2, <2>3
  <2>11. QED
    BY <2>5, <2>8, <2>9, <2>10 DEF w
<1>7. QED
  BY <1>5, <1>6

-----------------------------------------------------------------------------
(* The invariant                                                            *)

AllPercents == UNION {Percents[t] : t \in Tracks}
Rows == [Tracks -> [Hotkeys -> AllPercents \cup {NoScore}]]

\* What every vote leaves: scores of the entrants, and the vector they make.
VoteInv ==
  /\ scores \in Rows
  /\ \A t \in Tracks, h \in Hotkeys :
       scores[t][h] \in IF h \in Entrants[t] THEN Percents[t] ELSE {NoScore}
  /\ contributors \subseteq Authors /\ order \in Salts
  /\ weights = compute_emission_weights(scores, contributors, order)

\* The first vector is made of first scores, without contributors.
LEMMA VoteInit == Init => VoteInv
<1> SUFFICES ASSUME Init PROVE VoteInv
  OBVIOUS
<1>1. PICK p \in [Tracks -> UNION {Percents[t] : t \in Tracks}] :
        /\ \A t \in Tracks : p[t] \in Percents[t]
        /\ scores = [t \in Tracks |-> [h \in Hotkeys |-> IF h \in Entrants[t] THEN p[t] ELSE NoScore]]
  BY DEF Init
<1>2. scores \in Rows
  <2>1. \A t \in Tracks : p[t] \in AllPercents
    BY <1>1 DEF AllPercents
  <2>2. QED
    BY <1>1, <2>1 DEF Rows
<1>3. \A t \in Tracks, h \in Hotkeys :
        scores[t][h] \in IF h \in Entrants[t] THEN Percents[t] ELSE {NoScore}
  BY <1>1
<1>4. QED
  BY <1>2, <1>3 DEF Init, VoteInv

\* Each vote is computed from what holds when it is cast.
LEMMA VoteStep == ASSUME VoteInv, [Next]_vars PROVE VoteInv'
<1>1. ASSUME NEW t \in Tracks, NEW h \in Entrants[t], Rescored(t, h) PROVE VoteInv'
  <2>1. PICK p \in Percents[t] : scores' = [scores EXCEPT ![t][h] = p]
    BY <1>1 DEF Rescored
  <2>2. h \in Hotkeys /\ p \in AllPercents
    BY ConstantsAssumption DEF AllPercents
  <2>3. scores \in [Tracks -> [Hotkeys -> AllPercents \cup {NoScore}]]
    BY DEF VoteInv, Rows
  <2>4. scores' \in Rows
    BY <2>1, <2>2, <2>3 DEF Rows
  <2>5. ASSUME NEW u \in Tracks, NEW k \in Hotkeys
        PROVE  scores'[u][k] \in IF k \in Entrants[u] THEN Percents[u] ELSE {NoScore}
    <3>1. scores'[u][k] = IF u = t /\ k = h THEN p ELSE scores[u][k]
      BY <2>1, <2>2, <2>3
    <3>2. QED
      BY <3>1 DEF VoteInv
  <2>6. QED
    BY <1>1, <2>4, <2>5 DEF Rescored, Voted, VoteInv
<1>2. CASE ContributorsChange
  BY <1>2 DEF ContributorsChange, Voted, VoteInv
<1>3. CASE SaltChanges
  BY <1>3 DEF SaltChanges, Voted, VoteInv
<1>4. CASE UNCHANGED vars
  BY <1>4 DEF vars, VoteInv
<1>5. QED
  BY <1>1, <1>2, <1>3, <1>4 DEF Next

\* Every entrant's score is a percentage.
LEMMA VoteScored == ASSUME VoteInv PROVE Scored(scores)
<1>1. \A t \in Tracks : Percents[t] \in SUBSET (0..100) /\ Entrants[t] \subseteq Hotkeys
  BY ConstantsAssumption
<1>2. QED
  BY <1>1 DEF VoteInv, Scored

\* What the vector is worth in a state of the system.
LEMMA VoteSum ==
  ASSUME VoteInv
  PROVE  /\ IsFiniteSet(Hotkeys) /\ Counts(weights, Hotkeys)
         /\ Sum(weights, Hotkeys) = IF Active(scores) = {} THEN 0 ELSE 20 * Whole
         /\ OnlyActiveEarn
<1>1. /\ Scored(scores) /\ order \in Salts /\ contributors \subseteq Authors
      /\ weights = compute_emission_weights(scores, contributors, order)
  BY VoteScored DEF VoteInv
<1>2. QED
  BY <1>1, EmissionSum, ConstantsAssumption DEF OnlyActiveEarn

\* No weight is above the whole emission.
LEMMA VoteType == ASSUME VoteInv PROVE TypeOK
<1>1. ASSUME NEW h \in Hotkeys PROVE weights[h] \in 0..20 * Whole
  <2>1. weights[h] \in Nat /\ weights[h] <= Sum(weights, Hotkeys)
    BY VoteSum, SumTerm DEF Counts
  <2>2. Sum(weights, Hotkeys) \in Nat /\ Sum(weights, Hotkeys) <= 20 * Whole /\ Whole \in Nat
    BY VoteSum, WholeType
  <2>3. QED
    BY <2>1, <2>2
<1>2. QED
  BY <1>1 DEF VoteInv, TypeOK

\* compute_emission_weights and the votes keep the types: scores stay percentages
\* of entrants, and no weight exceeds the whole emission.
THEOREM TypeCorrect == Spec => []TypeOK
<1>1. Init => VoteInv
  BY VoteInit
<1>2. VoteInv /\ [Next]_vars => VoteInv'
  BY VoteStep
<1>3. VoteInv => TypeOK
  BY VoteType
<1>4. QED
  BY <1>1, <1>2, <1>3, PTL DEF Spec

\* However many agents, tracks and contributors there are, the vector is worth
\* the whole emission as soon as one agent qualifies, and nothing before that.
THEOREM WholePaid == Spec => []WholeEmissionPaid
<1>1. Init => VoteInv
  BY VoteInit
<1>2. VoteInv /\ [Next]_vars => VoteInv'
  BY VoteStep
<1>3. VoteInv => WholeEmissionPaid
  BY VoteSum DEF WholeEmissionPaid, Total, Sum
<1>4. QED
  BY <1>1, <1>2, <1>3, PTL DEF Spec

\* Nobody who has not qualified in some track gets a weight, not even as a
\* contributor.
THEOREM ActiveEarn == Spec => []OnlyActiveEarn
<1>1. Init => VoteInv
  BY VoteInit
<1>2. VoteInv /\ [Next]_vars => VoteInv'
  BY VoteStep
<1>3. VoteInv => OnlyActiveEarn
  BY VoteSum
<1>4. QED
  BY <1>1, <1>2, <1>3, PTL DEF Spec

\* A track pays nobody less than an agent it ranks behind.
LEMMA AheadPaysNoLess ==
  ASSUME NEW s, Scored(s), NEW o \in Salts, NEW t \in Qualified(s), NEW h \in Hotkeys, NEW k \in Hotkeys,
         k \in Positive(s, t) => h \in Positive(s, t) /\ Before(s, o, t, h, k)
  PROVE  Pays(s, o, t)[k] <= Pays(s, o, t)[h]
<1> DEFINE place == Place(s, o, t)
<1> DEFINE top == Paid(s, o, t)
<1> DEFINE part == Part(s, o, t)
<1> DEFINE f == TOP_K_SPLIT
<1>1. /\ part \in Nat /\ Pays(s, o, t)[h] \in Nat
      /\ \A l \in Hotkeys : Pays(s, o, t)[l] = IF l \in top THEN part * f[place[l]] ELSE 0
  BY TrackPays DEF Counts
<1>2. CASE k \notin top
  BY <1>1, <1>2
<1>3. CASE k \in top
  <2>1. t \in Tracks /\ top = {l \in Positive(s, t) : place[l] <= 5}
    BY PlaceValue DEF Paid, Top, TOP_K, Qualified
  <2>2. h \in Positive(s, t) /\ k \in Positive(s, t) /\ place[h] < place[k] /\ place[k] <= 5
    BY <1>3, <2>1, PlaceValue
  <2>3. Cardinality(Positive(s, t)) \in Nat
    BY <2>1, PositiveFinite
  <2>4. place[h] \in 1..5 /\ place[k] \in 1..5 /\ place[h] <= place[k]
    BY <2>1, <2>2, <2>3, PlaceValue
  <2>5. h \in top
    BY <2>1, <2>2, <2>4
  <2>6. f[place[h]] \in Nat /\ f[place[k]] \in Nat /\ f[place[k]] <= f[place[h]]
    BY <2>4, SplitTable
  <2> HIDE DEF part, f, place, top
  <2>7. part * f[place[k]] <= part * f[place[h]]
    <3>1. \A a, b \in Nat : a <= b => part * a <= part * b
      BY <1>1
    <3>2. QED
      BY <2>6, <3>1
  <2>8. QED
    BY <1>1, <1>3, <2>5, <2>7
<1>4. QED
  BY <1>2, <1>3

\* Ahead everywhere, an agent earns no less.
LEMMA AheadEarns == ASSUME VoteInv PROVE AheadEarnsNoLess
<1> DEFINE s == scores
<1> DEFINE o == order
<1> DEFINE e == Eligible(scores, contributors)
<1> SUFFICES ASSUME NEW h \in Hotkeys, NEW k \in Hotkeys,
                    \A t \in Tracks : k \in Positive(s, t) => h \in Entrants[t] /\ s[t][h] > s[t][k],
                    k \in contributors => h \in contributors
             PROVE  weights[h] >= weights[k]
  BY DEF AheadEarnsNoLess
<1>1. Scored(s) /\ o \in Salts /\ contributors \subseteq Authors
  BY VoteScored DEF VoteInv
<1>2. ASSUME NEW t \in Tracks, k \in Positive(s, t) PROVE h \in Positive(s, t) /\ Before(s, o, t, h, k)
  <2>1. h \in Entrants[t] /\ k \in Entrants[t] /\ s[t][h] \in Int /\ s[t][k] \in Int
    BY <1>1, <1>2, PositiveFinite DEF Scored
  <2>2. TRACK_THRESHOLDS[t] \in Int
    BY TrackTable
  <2>3. QED
    BY <1>2, <2>1, <2>2 DEF Positive, Before
<1>3. Performance(s, o)[k] <= Performance(s, o)[h]
  <2>1. \A t \in Qualified(s) : Earned(s, o, k)[t] <= Earned(s, o, h)[t]
    BY <1>1, <1>2, AheadPaysNoLess DEF Earned, Qualified
  <2>2. QED
    BY <1>1, <2>1, PerformanceValue, SumMonotone
<1>4. k \in e => h \in e
  BY <1>2 DEF Eligible, Active
<1>5. Performance(s, o)[k] \in Nat /\ Performance(s, o)[h] \in Nat
  BY <1>1, PerformanceValue
<1>6. /\ weights[h] = IF e = {} THEN 20 * Performance(s, o)[h] ELSE 19 * Performance(s, o)[h] + Bounty(s, contributors, h)
      /\ weights[k] = IF e = {} THEN 20 * Performance(s, o)[k] ELSE 19 * Performance(s, o)[k] + Bounty(s, contributors, k)
  BY WeightValue DEF VoteInv
<1> HIDE DEF e
<1>7. CASE e = {}
  BY <1>3, <1>5, <1>6, <1>7
<1>8. CASE e # {}
  <2>1. /\ Bounty(s, contributors, h) \in Nat /\ Bounty(s, contributors, k) \in Nat
        /\ Bounty(s, contributors, k) <= Bounty(s, contributors, h)
    <3>1. Bounty(s, contributors, h) \in Nat /\ Bounty(s, contributors, k) \in Nat
      BY <1>1, <1>8, BountySum DEF e
    <3>2. Bounty(s, contributors, k) = Bounty(s, contributors, h) \/ Bounty(s, contributors, k) = 0
      BY <1>4 DEF Bounty, e
    <3>3. QED
      BY <3>1, <3>2
  <2>2. QED
    BY <1>3, <1>5, <1>6, <1>8, <2>1
<1>9. QED
  BY <1>7, <1>8

\* The ranking by score is what the vector follows: an agent ahead in every track
\* where another one qualifies never earns less, whatever the salts.
THEOREM AheadEarning == Spec => []AheadEarnsNoLess
<1>1. Init => VoteInv
  BY VoteInit
<1>2. VoteInv /\ [Next]_vars => VoteInv'
  BY VoteStep
<1>3. VoteInv => AheadEarnsNoLess
  BY AheadEarns
<1>4. QED
  BY <1>1, <1>2, <1>3, PTL DEF Spec

-----------------------------------------------------------------------------
(* A better score                                                           *)

\* What a better score of h does to the rankings: h may join one, and is before
\* whomever it was before; the others stay and keep their order.
Raised(s, s2, o, h) ==
  \A u \in Tracks :
    /\ Positive(s, u) \subseteq Positive(s2, u) /\ Positive(s2, u) \subseteq Positive(s, u) \cup {h}
    /\ \A j, k \in Positive(s, u) : k # h /\ Before(s, o, u, j, k) => Before(s2, o, u, j, k)

\* A score that is raised does that.
LEMMA ScoreRaised ==
  ASSUME NEW s, Scored(s), NEW s2, Scored(s2), NEW o \in Salts, NEW t \in Tracks, NEW h \in Entrants[t],
         s2[t][h] > s[t][h],
         \A u \in Tracks : \A k \in Entrants[u] : u # t \/ k # h => s2[u][k] = s[u][k]
  PROVE  Raised(s, s2, o, h)
<1> SUFFICES ASSUME NEW u \in Tracks
             PROVE  /\ Positive(s, u) \subseteq Positive(s2, u)
                    /\ Positive(s2, u) \subseteq Positive(s, u) \cup {h}
                    /\ \A j, k \in Positive(s, u) :
                         k # h /\ Before(s, o, u, j, k) => Before(s2, o, u, j, k)
  BY DEF Raised
<1>1. \A k \in Entrants[u] : s[u][k] \in Int /\ s2[u][k] \in Int
  BY DEF Scored
<1>2. \A k \in Entrants[u] : s2[u][k] >= s[u][k] /\ (k # h => s2[u][k] = s[u][k])
  <2> SUFFICES ASSUME NEW k \in Entrants[u]
               PROVE  s2[u][k] >= s[u][k] /\ (k # h => s2[u][k] = s[u][k])
    OBVIOUS
  <2>1. CASE u = t /\ k = h
    BY <1>1, <2>1
  <2>2. CASE u # t \/ k # h
    BY <1>1, <2>2
  <2>3. QED
    BY <2>1, <2>2
<1>3. TRACK_THRESHOLDS[u] \in Int
  BY TrackTable
<1>4. \A k \in Positive(s, u) : k \in Positive(s2, u)
  BY <1>1, <1>2, <1>3 DEF Positive
<1>5. \A k \in Positive(s2, u) : k = h \/ k \in Positive(s, u)
  BY <1>2 DEF Positive
<1>6. ASSUME NEW j \in Positive(s, u), NEW k \in Positive(s, u), k # h, Before(s, o, u, j, k)
      PROVE  Before(s2, o, u, j, k)
  <2>1. j \in Entrants[u] /\ k \in Entrants[u]
    BY PositiveFinite
  <2>2. s2[u][k] = s[u][k] /\ s2[u][j] >= s[u][j]
    BY <1>2, <1>6, <2>1
  <2>3. s[u][j] \in Int /\ s2[u][j] \in Int /\ s[u][k] \in Int
    BY <1>1, <2>1
  <2>4. QED
    BY <1>6, <2>2, <2>3 DEF Before
<1>7. QED
  BY <1>4, <1>5, <1>6

\* The more tracks qualify, the less of a bonus each of them gets.
LEMMA BonusFalls ==
  ASSUME NEW s, NEW s2, Qualified(s) # {}, Qualified(s) \subseteq Qualified(s2)
  PROVE  Bonus(s2) <= Bonus(s) /\ Bonus(s) \in Nat /\ Bonus(s2) \in Nat
<1> DEFINE W == TRACK_EMISSION_WEIGHTS
<1> DEFINE Q == Qualified(s)
<1> DEFINE Q2 == Qualified(s2)
<1> DEFINE c == Cardinality(Q)
<1> DEFINE c2 == Cardinality(Q2)
<1> DEFINE B == Bonus(s)
<1> DEFINE B2 == Bonus(s2)
<1> DEFINE x == Sum(W, Q)
<1> DEFINE x2 == Sum(W, Q2)
<1>1. IsFiniteSet(Q) /\ c \in 1..4 /\ x \in 1..40 /\ B \in Nat /\ B * c = 12 * (40 - x)
  BY IdleShared
<1>2. Qualified(s2) # {}
  OBVIOUS
<1>3. IsFiniteSet(Q2) /\ c2 \in 1..4 /\ x2 \in 1..40 /\ B2 \in Nat /\ B2 * c2 = 12 * (40 - x2)
  BY <1>2, IdleShared
<1>4. Counts(W, Q) /\ Counts(W, Q2 \ Q)
  BY TrackTable DEF Counts, Qualified
<1>5. Q \cup (Q2 \ Q) = Q2 /\ Q \cap (Q2 \ Q) = {} /\ IsFiniteSet(Q2 \ Q)
  BY <1>3, FS_Subset
<1>6. c <= c2
  BY <1>3, FS_Subset
<1> HIDE DEF Q, Q2, W
<1>7. x <= x2
  <2>1. Counts(W, Q \cup (Q2 \ Q))
    BY <1>4 DEF Counts
  <2>2. Sum(W, Q \cup (Q2 \ Q)) = Sum(W, Q) + Sum(W, Q2 \ Q)
    BY <1>1, <1>5, <2>1, SumApart
  <2>3. Sum(W, Q2 \ Q) \in Nat
    BY <1>4, <1>5, SumType
  <2>4. x2 = x + Sum(W, Q2 \ Q)
    BY <1>5, <2>2
  <2> HIDE DEF x, x2
  <2>5. QED
    BY <1>1, <2>3, <2>4
<1> HIDE DEF c, c2, x, x2, B, B2
<1>8. B2 <= B
  <2>1. B2 * c2 <= B * c
    BY <1>1, <1>3, <1>7
  <2>2. \A i, j \in Nat : \A m, n \in 1..4 : m <= n /\ j * n <= i * m => j <= i
    OBVIOUS
  <2>3. QED
    BY <1>1, <1>3, <1>6, <2>1, <2>2
<1>9. QED
  BY <1>1, <1>3, <1>8 DEF B, B2

\* The more agents are paid, the more of the splits they have.
LEMMA SplitSumGrows ==
  ASSUME NEW n \in 1..5, NEW m \in 1..5, n <= m
  PROVE  SplitSum(n) <= SplitSum(m)
<1> DEFINE f == TOP_K_SPLIT
<1>1. 1..n \subseteq 1..m /\ (1..n) \cup ((1..m) \ (1..n)) = 1..m
      /\ (1..n) \cap ((1..m) \ (1..n)) = {}
  OBVIOUS
<1>2. \A i \in 1..m : f[i] \in Nat
  <2>1. \A i \in 1..m : i \in 1..5
    OBVIOUS
  <2>2. QED
    BY <2>1, SplitTable
<1>3. IsFiniteSet(1..n) /\ IsFiniteSet((1..m) \ (1..n))
  <2>1. IsFiniteSet(1..n) /\ IsFiniteSet(1..m)
    BY FS_Interval
  <2>2. (1..m) \ (1..n) \in SUBSET (1..m)
    OBVIOUS
  <2>3. QED
    BY <2>1, <2>2, FS_Subset
<1> HIDE DEF f
<1>4. Counts(f, 1..n) /\ Counts(f, (1..m) \ (1..n)) /\ Counts(f, (1..n) \cup ((1..m) \ (1..n)))
  BY <1>1, <1>2 DEF Counts
<1>5. Sum(f, (1..n) \cup ((1..m) \ (1..n))) = Sum(f, 1..n) + Sum(f, (1..m) \ (1..n))
  BY <1>1, <1>3, <1>4, SumApart
<1>6. Sum(f, 1..n) \in Nat /\ Sum(f, (1..m) \ (1..n)) \in Nat
  BY <1>3, <1>4, SumType
<1>7. SplitSum(n) = Sum(f, 1..n) /\ SplitSum(m) = Sum(f, 1..m)
  BY DEF SplitSum, Sum, f
<1>8. Sum(f, 1..m) = Sum(f, 1..n) + Sum(f, (1..m) \ (1..n))
  BY ONLY <1>1, <1>5, Zenon
<1>9. QED
  BY <1>6, <1>7, <1>8

\* Of a smaller share that is split further each part is smaller.
LEMMA PartFalls ==
  ASSUME NEW a \in Nat, NEW b \in Nat, NEW d \in Nat \ {0}, NEW e \in Nat \ {0}, d <= e, b * e <= a * d
  PROVE  b <= a
<1>1. a * d <= a * e
  OBVIOUS
<1>2. b * e <= a * e
  BY <1>1
<1>3. b > a => b * e >= a * e + e
  OBVIOUS
<1>4. QED
  BY <1>2, <1>3

\* A track that pays already pays nobody else more for it.
LEMMA RaisePays ==
  ASSUME NEW s, Scored(s), NEW s2, Scored(s2), NEW o \in Salts, NEW h, Raised(s, s2, o, h),
         NEW u \in Qualified(s), NEW k \in Hotkeys, k # h
  PROVE  Pays(s2, o, u)[k] <= Pays(s, o, u)[k]
<1> DEFINE f == TOP_K_SPLIT
<1> DEFINE place == Place(s, o, u)
<1> DEFINE place2 == Place(s2, o, u)
<1> DEFINE n == Cardinality(Paid(s, o, u))
<1> DEFINE n2 == Cardinality(Paid(s2, o, u))
<1> DEFINE part == Part(s, o, u)
<1> DEFINE part2 == Part(s2, o, u)
<1>1. /\ u \in Tracks /\ Qualified(s) # {} /\ Qualified(s) \subseteq Qualified(s2) /\ u \in Qualified(s2)
      /\ Positive(s, u) \subseteq Positive(s2, u) /\ Positive(s2, u) \subseteq Positive(s, u) \cup {h}
  BY DEF Qualified, Raised
<1>2. Share(s2, u) <= Share(s, u)
  <2> DEFINE w == TRACK_EMISSION_WEIGHTS[u]
  <2>1. Bonus(s2) <= Bonus(s) /\ Bonus(s) \in Nat /\ Bonus(s2) \in Nat /\ w \in Nat /\ SplitUnit \in Nat
    BY <1>1, BonusFalls, TrackTable, WholeType
  <2> HIDE DEF w
  <2>2. \A b, b2, U \in Nat : b2 <= b => (12 * w + b2) * U <= (12 * w + b) * U
    BY <2>1
  <2>3. QED
    BY <2>1, <2>2 DEF Share, w
<1>3. n \in 1..5 /\ n2 \in 1..5 /\ n <= n2
  <2>1. IsFiniteSet(Positive(s2, u)) /\ Cardinality(Positive(s, u)) \in Nat /\ Cardinality(Positive(s2, u)) \in Nat
    BY <1>1, PositiveFinite
  <2>2. Cardinality(Positive(s, u)) <= Cardinality(Positive(s2, u))
    BY <1>1, <2>1, FS_Subset
  <2>3. n \in 1..5 /\ n = IF Cardinality(Positive(s, u)) <= 5 THEN Cardinality(Positive(s, u)) ELSE 5
    BY TopPlaces DEF Paid
  <2>4. n2 \in 1..5 /\ n2 = IF Cardinality(Positive(s2, u)) <= 5 THEN Cardinality(Positive(s2, u)) ELSE 5
    BY <1>1, TopPlaces DEF Paid
  <2>5. QED
    BY <2>1, <2>2, <2>3, <2>4
<1>4. /\ part \in Nat /\ part * SplitSum(n) = Share(s, u) /\ Pays(s, o, u)[k] \in Nat
      /\ Pays(s, o, u)[k] = IF k \in Paid(s, o, u) THEN part * f[place[k]] ELSE 0
  BY TrackPays DEF Counts
<1>5. /\ part2 \in Nat /\ part2 * SplitSum(n2) = Share(s2, u)
      /\ Pays(s2, o, u)[k] = IF k \in Paid(s2, o, u) THEN part2 * f[place2[k]] ELSE 0
  BY <1>1, TrackPays DEF Counts
<1> HIDE DEF n, n2, part, part2
<1>6. part2 <= part
  <2>1. /\ SplitSum(n) \in Nat \ {0} /\ SplitSum(n2) \in Nat \ {0} /\ SplitSum(n) <= SplitSum(n2)
    BY <1>3, SplitSums, SplitSumGrows
  <2>2. part2 * SplitSum(n2) <= part * SplitSum(n)
    BY <1>2, <1>4, <1>5
  <2>3. QED
    BY <1>4, <1>5, <2>1, <2>2, PartFalls
<1>7. CASE k \notin Paid(s2, o, u)
  BY <1>4, <1>5, <1>7
<1>8. CASE k \in Paid(s2, o, u)
  <2>1. k \in Positive(s2, u) /\ place2[k] <= 5 /\ k \in Positive(s, u)
    BY <1>1, <1>8, PlaceValue DEF Paid, Top, TOP_K
  <2>2. /\ place[k] = 1 + Cardinality(Ahead(s, o, u, k)) /\ place2[k] = 1 + Cardinality(Ahead(s2, o, u, k))
        /\ place[k] \in 1..Cardinality(Positive(s, u)) /\ place2[k] \in 1..Cardinality(Positive(s2, u))
    BY <1>1, <2>1, PlaceValue
  <2>3. Ahead(s, o, u, k) \subseteq Ahead(s2, o, u, k)
    BY <1>1, <2>1 DEF Ahead, Raised
  <2>4. IsFiniteSet(Ahead(s2, o, u, k))
    BY <1>1, PositiveFinite, FS_Subset DEF Ahead
  <2>5. /\ Cardinality(Ahead(s, o, u, k)) <= Cardinality(Ahead(s2, o, u, k))
        /\ Cardinality(Ahead(s, o, u, k)) \in Nat /\ Cardinality(Ahead(s2, o, u, k)) \in Nat
    BY <2>3, <2>4, FS_Subset, FS_CardinalityType
  <2> HIDE DEF place, place2
  <2>6. place[k] \in 1..5 /\ place2[k] \in 1..5 /\ place[k] <= place2[k]
    BY <2>1, <2>2, <2>5
  <2>7. k \in Paid(s, o, u)
    BY <1>1, <2>1, <2>6, PlaceValue DEF Paid, Top, TOP_K, place
  <2>8. f[place[k]] \in Nat /\ f[place2[k]] \in Nat /\ f[place2[k]] <= f[place[k]]
    BY <2>6, SplitTable
  <2> HIDE DEF f
  <2>9. part2 * f[place2[k]] <= part * f[place[k]]
    <3>1. \A a, b, c, d \in Nat : a <= c /\ b <= d => a * b <= c * b /\ c * b <= c * d
      OBVIOUS
    <3>2. /\ part2 * f[place2[k]] <= part * f[place2[k]] /\ part * f[place2[k]] <= part * f[place[k]]
      BY <1>4, <1>5, <1>6, <2>8, <3>1
    <3>3. QED
      BY <1>4, <1>5, <2>8, <3>2
  <2>10. QED
    BY <1>4, <1>5, <1>8, <2>7, <2>9
<1>9. QED
  BY <1>7, <1>8

\* Nobody else performs better for it.
LEMMA RaisePerforms ==
  ASSUME NEW s, Scored(s), NEW s2, Scored(s2), NEW o \in Salts, NEW h, Raised(s, s2, o, h),
         NEW k \in Hotkeys, k # h
  PROVE  Performance(s2, o)[k] <= Performance(s, o)[k]
<1> DEFINE Q == Qualified(s)
<1> DEFINE Q2 == Qualified(s2)
<1> DEFINE f == Earned(s, o, k)
<1> DEFINE f2 == Earned(s2, o, k)
<1>1. IsFiniteSet(Q) /\ Counts(f, Q) /\ Performance(s, o)[k] = Sum(f, Q)
  BY PerformanceValue
<1>2. IsFiniteSet(Q2) /\ Counts(f2, Q2) /\ Performance(s2, o)[k] = Sum(f2, Q2)
  BY PerformanceValue
<1>3. Q \in SUBSET Q2
  BY DEF Qualified, Raised
<1>4. \A u \in Q : f2[u] <= f[u]
  BY <1>3, RaisePays DEF Earned
<1>5. \A u \in Q2 \ Q : f2[u] = 0
  <2> SUFFICES ASSUME NEW u \in Q2 \ Q PROVE f2[u] = 0
    OBVIOUS
  <2>1. u \in Tracks /\ u \in Qualified(s2) /\ k \notin Positive(s2, u)
    BY DEF Qualified, Raised
  <2>2. k \notin Paid(s2, o, u)
    BY <2>1, TopPlaces DEF Paid
  <2>3. Pays(s2, o, u)[k] = 0
    BY <2>1, <2>2, TrackPays
  <2>4. QED
    BY <2>3 DEF Earned
<1> HIDE DEF Q, Q2, f, f2
<1>6. Counts(f2, Q)
  BY <1>2, <1>3 DEF Counts
<1>7. Sum(f2, Q2) = Sum(f2, Q)
  BY <1>2, <1>3, <1>5, <1>6, SumSupport
<1>8. Sum(f2, Q) <= Sum(f, Q)
  BY <1>1, <1>4, <1>6, SumMonotone
<1>9. QED
  BY <1>1, <1>2, <1>7, <1>8

\* Nobody else's contribution pays more for it.
LEMMA RaiseBounty ==
  ASSUME NEW s, NEW s2, NEW o \in Salts, NEW h, Raised(s, s2, o, h),
         NEW c \in SUBSET Authors, Eligible(s, c) # {}, NEW k \in Hotkeys \ {h}
  PROVE  /\ Eligible(s2, c) # {} /\ Bounty(s2, c, k) <= Bounty(s, c, k)
         /\ Bounty(s, c, k) \in Nat /\ Bounty(s2, c, k) \in Nat
<1> DEFINE e == Eligible(s, c)
<1> DEFINE e2 == Eligible(s2, c)
<1> DEFINE d == Cardinality(e)
<1> DEFINE d2 == Cardinality(e2)
<1>1. Active(s) \subseteq Active(s2) /\ Active(s2) \subseteq Active(s) \cup {h}
  BY DEF Active, Raised
<1>2. e \subseteq e2 /\ e2 \subseteq e \cup {h} /\ e2 # {}
  BY <1>1 DEF Eligible
<1>3. IsFiniteSet(e) /\ d \in 1..Cardinality(Authors) /\ Bounty(s, c, k) \in Nat
  BY BountySum
<1>4. IsFiniteSet(e2) /\ d2 \in 1..Cardinality(Authors) /\ Bounty(s2, c, k) \in Nat
  BY <1>2, BountySum
<1>5. d <= d2 /\ d \in Nat /\ d2 \in Nat
  BY <1>2, <1>3, <1>4, FS_Subset, FS_CardinalityType
<1>6. Whole \in Nat /\ Whole % d = 0 /\ Whole % d2 = 0 /\ d # 0 /\ d2 # 0
  BY <1>3, <1>4, UnitAssumption, WholeType
<1>7. /\ Bounty(s, c, k) = IF k \in e THEN Whole \div d ELSE 0
      /\ Bounty(s2, c, k) = IF k \in e2 THEN Whole \div d2 ELSE 0
  BY DEF Bounty
<1> HIDE DEF e, e2, d, d2
<1>8. Whole \div d2 <= Whole \div d
  <2> DEFINE q == Whole \div d
  <2> DEFINE q2 == Whole \div d2
  <2>1. q \in Nat /\ q2 \in Nat /\ q * d = Whole /\ q2 * d2 = Whole
    BY <1>5, <1>6
  <2> HIDE DEF q, q2
  <2>2. q2 <= q
    BY <1>5, <1>6, <2>1, PartFalls
  <2>3. QED
    BY <2>2 DEF q, q2
<1>9. k \in e2 => k \in e
  BY <1>2
<1>10. Bounty(s2, c, k) <= Bounty(s, c, k)
  BY <1>3, <1>4, <1>7, <1>8, <1>9
<1>11. QED
  BY <1>2, <1>3, <1>4, <1>10 DEF e2

\* A better score takes from the others, if anything, and so gives to its agent:
\* what is paid in all does not change, or nothing was paid before.
LEMMA RaiseEarns ==
  ASSUME NEW s, Scored(s), NEW s2, Scored(s2), NEW o \in Salts, NEW c, c \subseteq Authors,
         NEW h \in Hotkeys, Raised(s, s2, o, h)
  PROVE  LET w == compute_emission_weights(s, c, o)
             w2 == compute_emission_weights(s2, c, o)
         IN  w2[h] >= w[h] /\ \A k \in Hotkeys \ {h} : w2[k] <= w[k]
<1> DEFINE w == compute_emission_weights(s, c, o)
<1> DEFINE w2 == compute_emission_weights(s2, c, o)
<1>1. /\ Counts(w, Hotkeys) /\ Sum(w, Hotkeys) = IF Active(s) = {} THEN 0 ELSE 20 * Whole
      /\ \A k \in Hotkeys : w[k] > 0 => k \in Active(s)
  BY EmissionSum
<1>2. Counts(w2, Hotkeys) /\ Sum(w2, Hotkeys) = IF Active(s2) = {} THEN 0 ELSE 20 * Whole
  BY EmissionSum
<1>3. ASSUME NEW k \in Hotkeys \ {h} PROVE w2[k] <= w[k]
  <2>1. /\ Performance(s2, o)[k] <= Performance(s, o)[k]
        /\ Performance(s, o)[k] \in Nat /\ Performance(s2, o)[k] \in Nat
    BY RaisePerforms, PerformanceValue
  <2>2. /\ w[k] = IF Eligible(s, c) = {} THEN 20 * Performance(s, o)[k]
                  ELSE 19 * Performance(s, o)[k] + Bounty(s, c, k)
        /\ w2[k] = IF Eligible(s2, c) = {} THEN 20 * Performance(s2, o)[k]
                   ELSE 19 * Performance(s2, o)[k] + Bounty(s2, c, k)
    BY WeightValue
  <2> HIDE DEF w, w2
  <2>3. CASE Eligible(s, c) # {}
    <3>1. /\ Eligible(s2, c) # {} /\ Bounty(s2, c, k) <= Bounty(s, c, k)
          /\ Bounty(s, c, k) \in Nat /\ Bounty(s2, c, k) \in Nat
      <4>1. c \in SUBSET Authors
        OBVIOUS
      <4>2. QED
        BY <2>3, <4>1, RaiseBounty, Zenon
    <3>2. QED
      BY <2>1, <2>2, <2>3, <3>1
  <2>4. CASE Eligible(s, c) = {} /\ Eligible(s2, c) = {}
    BY <2>1, <2>2, <2>4
  <2>5. CASE Eligible(s, c) = {} /\ Eligible(s2, c) # {}
    <3>1. k \notin Eligible(s2, c)
      BY <2>5 DEF Eligible, Active, Raised
    <3>2. Bounty(s2, c, k) = 0
      BY <3>1 DEF Bounty
    <3>3. QED
      BY <2>1, <2>2, <2>5, <3>2
  <2>6. QED
    BY <2>3, <2>4, <2>5
<1> HIDE DEF w, w2
<1>4. w2[h] >= w[h]
  <2>1. w[h] \in Nat /\ w2[h] \in Nat
    BY <1>1, <1>2 DEF Counts
  <2>2. CASE Active(s) = {}
    BY <1>1, <2>1, <2>2
  <2>3. CASE Active(s) # {}
    <3> DEFINE R == Hotkeys \ {h}
    <3>1. Active(s2) # {}
      BY <2>3 DEF Active, Raised
    <3>2. IsFiniteSet(Hotkeys) /\ IsFiniteSet(R)
      BY ConstantsAssumption, FS_Subset
    <3>3. Sum(w, Hotkeys) = w[h] + Sum(w, R) /\ Sum(w2, Hotkeys) = w2[h] + Sum(w2, R)
      BY <1>1, <1>2, <3>2, SumWithout
    <3>4. Counts(w, R) /\ Counts(w2, R)
      BY <1>1, <1>2 DEF Counts
    <3>5. \A k \in R : w2[k] <= w[k]
      BY <1>3
    <3> HIDE DEF R
    <3>6. Sum(w2, R) <= Sum(w, R) /\ Sum(w, R) \in Nat /\ Sum(w2, R) \in Nat
      BY <3>2, <3>4, <3>5, SumMonotone, SumType
    <3>7. Sum(w, Hotkeys) = Sum(w2, Hotkeys)
      BY <1>1, <1>2, <2>3, <3>1
    <3>8. QED
      BY <2>1, <3>3, <3>6, <3>7
  <2>4. QED
    BY <2>2, <2>3
<1>5. QED
  BY <1>3, <1>4 DEF w, w2

\* A vote after a better score is no worse for its agent and no better for others.
LEMMA RaiseStep ==
  ASSUME VoteInv, VoteInv', NEW t \in Tracks, NEW h \in Entrants[t],
         scores'[t][h] > scores[t][h], OnlyRescored(t, h)
  PROVE  weights'[h] >= weights[h] /\ \A k \in Hotkeys \ {h} : weights'[k] <= weights[k]
<1>1. Scored(scores) /\ Scored(scores')
  <2>1. \A u \in Tracks : Percents[u] \in SUBSET (0..100) /\ Entrants[u] \subseteq Hotkeys
    BY ConstantsAssumption
  <2>2. QED
    BY <2>1 DEF VoteInv, Scored
<1>2. /\ order \in Salts /\ order' = order /\ contributors \subseteq Authors
      /\ contributors' = contributors /\ h \in Hotkeys
  BY ConstantsAssumption DEF VoteInv, OnlyRescored
<1>3. \A u \in Tracks : \A k \in Entrants[u] : u # t \/ k # h => scores'[u][k] = scores[u][k]
  <2>1. scores \in [Tracks -> [Hotkeys -> AllPercents \cup {NoScore}]]
    BY DEF VoteInv, Rows
  <2>2. \A u \in Tracks : Entrants[u] \subseteq Hotkeys
    BY ConstantsAssumption
  <2>3. PICK p : p = scores'[t][h]
    OBVIOUS
  <2>4. scores' = [scores EXCEPT ![t][h] = p]
    BY <2>3 DEF OnlyRescored
  <2>5. QED
    BY <2>1, <2>2, <2>4
<1>4. Raised(scores, scores', order, h)
  BY <1>1, <1>2, <1>3, ScoreRaised
<1>5. /\ weights = compute_emission_weights(scores, contributors, order)
      /\ weights' = compute_emission_weights(scores', contributors, order)
  BY <1>2 DEF VoteInv
<1>6. QED
  BY <1>1, <1>2, <1>4, <1>5, RaiseEarns

\* compute_emission_weights never punishes a better score, nor rewards another
\* agent for it, also where it opens a track or makes a contributor active.
THEOREM RaisePaysOff == Spec => RaiseNeverCosts
<1>1. Init => VoteInv
  BY VoteInit
<1>2. VoteInv /\ [Next]_vars => VoteInv'
  BY VoteStep
<1> DEFINE A == \A t \in Tracks : \A h \in Entrants[t] :
                  scores'[t][h] > scores[t][h] /\ OnlyRescored(t, h) =>
                    /\ weights'[h] >= weights[h]
                    /\ \A k \in Hotkeys \ {h} : weights'[k] <= weights[k]
<1>3. VoteInv /\ VoteInv' => A
  BY RaiseStep
<1>4. VoteInv /\ VoteInv' => [A]_vars
  BY <1>3
<1>5. QED
  BY <1>1, <1>2, <1>4, PTL DEF Spec, RaiseNeverCosts

=============================================================================
