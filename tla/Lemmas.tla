------------------------------- MODULE Lemmas -------------------------------
(***************************************************************************)
(* What the proofs share.  Induction and recursion, stated with sets and   *)
(* functions instead of predicates and operators, which the provers cannot *)
(* instantiate; what follows from them for the sums and the folds of the   *)
(* community modules; and what keeps a pool of connections to its size.    *)
(***************************************************************************)
EXTENDS WellFoundedInduction, FiniteSetTheorems, SequencesExt, Integers, TLAPS

-------------------------------------------------------------------------------
(* Induction.                                                              *)

\* Every set of numbers has a least element.
LEMMA LeastNumber ==
  ASSUME NEW S \in SUBSET Nat, S # {}
  PROVE  \E n \in S : \A m \in S : ~ m < n
<1>. DEFINE R == OpToRel(<, Nat)
<1>1. IsWellFoundedOn(R, Nat)
  BY NatLessThanWellFounded
<1>2. \A m, n \in Nat : <<m, n>> \in R <=> m < n
  BY DEF OpToRel
<1>3. S \subseteq Nat OBVIOUS
<1>. HIDE DEF R
<1>4. \E n \in S : \A m \in S : ~ <<m, n>> \in R
  BY <1>1, <1>3, WFMin
<1>. QED BY <1>2, <1>4

\* Induction: the set of the numbers for which something holds takes the place of
\* the predicate, which the provers cannot instantiate.
LEMMA NatSetInduction ==
  ASSUME NEW S, 0 \in S, \A n \in Nat : n \in S => n + 1 \in S
  PROVE  Nat \subseteq S
<1>1. SUFFICES ASSUME Nat \ S # {} PROVE FALSE
  OBVIOUS
<1>2. PICK n \in Nat \ S : \A m \in Nat \ S : ~ m < n
  BY <1>1, LeastNumber
<1>3. n - 1 \in Nat /\ n - 1 < n
  BY <1>2
<1>4. n - 1 \in S
  BY <1>2, <1>3
<1>. QED BY <1>2, <1>3, <1>4

\* Induction over the subsets of a finite set.
LEMMA SubsetInduction ==
  ASSUME NEW S, IsFiniteSet(S), NEW F, {} \in F,
         \A T \in SUBSET S : T # {} /\ (\A x \in T : T \ {x} \in F) => T \in F
  PROVE  S \in F
<1>. DEFINE Up == {n \in Nat : \A T \in SUBSET S : Cardinality(T) = n => T \in F}
<1>0. \A T \in SUBSET S : IsFiniteSet(T) /\ Cardinality(T) \in Nat /\ (Cardinality(T) = 0 <=> T = {})
  BY FS_Subset, FS_CardinalityType, FS_EmptySet
<1>1. 0 \in Up
  BY <1>0
<1>2. ASSUME NEW n \in Nat, n \in Up PROVE n + 1 \in Up
  <2>1. ASSUME NEW T \in SUBSET S, Cardinality(T) = n + 1 PROVE T \in F
    <3>1. T # {} /\ IsFiniteSet(T)
      BY <2>1, <1>0
    <3>2. ASSUME NEW x \in T PROVE T \ {x} \in F
      <4>0. Cardinality(T \ {x}) = Cardinality(T) - 1
        BY <3>1, FS_RemoveElement
      <4>1. Cardinality(T \ {x}) = n
        BY <2>1, <4>0
      <4>2. T \ {x} \in SUBSET S
        OBVIOUS
      <4>. QED BY <1>2, <4>1, <4>2
    <3>. QED BY <3>1, <3>2
  <2>. QED BY <2>1
<1>3. Nat \subseteq Up
  <2>. HIDE DEF Up
  <2>. QED BY <1>1, <1>2, NatSetInduction
<1>. QED BY <1>0, <1>3

-------------------------------------------------------------------------------
(* Recursion.                                                              *)

\* pick chooses an element of every subset of S but the empty one.
Picks(pick, S) == \A s \in SUBSET S : s # {} => pick[s] \in s

\* f is defined by recursion over the subsets of S, the element that pick chooses
\* first; and the same for the subsets with no more than n elements.
SolvesTo(f, S, pick, base, step, n) ==
  \A s \in SUBSET S : Cardinality(s) <= n =>
    f[s] = IF s = {} THEN base ELSE step[pick[s]][f[s \ {pick[s]}]]

Solves(f, S, pick, base, step) ==
  \A s \in SUBSET S : f[s] = IF s = {} THEN base ELSE step[pick[s]][f[s \ {pick[s]}]]

\* A recursion over the subsets of a finite set has a solution.
LEMMA RecursionOnSets ==
  ASSUME NEW S, IsFiniteSet(S), NEW V, NEW base \in V, NEW step \in [S -> [V -> V]],
         NEW pick, Picks(pick, S)
  PROVE  \E f \in [SUBSET S -> V] : Solves(f, S, pick, base, step)
<1>. DEFINE Up == {n \in Nat : \E f \in [SUBSET S -> V] : SolvesTo(f, S, pick, base, step, n)}
<1>0. \A s \in SUBSET S : IsFiniteSet(s) /\ Cardinality(s) \in Nat /\ (Cardinality(s) = 0 <=> s = {})
  BY FS_Subset, FS_CardinalityType, FS_EmptySet
<1>1. 0 \in Up
  <2>1. [s \in SUBSET S |-> base] \in [SUBSET S -> V]
    OBVIOUS
  <2>2. \A s \in SUBSET S : Cardinality(s) <= 0 => s = {}
    BY <1>0
  <2>3. SolvesTo([s \in SUBSET S |-> base], S, pick, base, step, 0)
    BY <2>2 DEF SolvesTo
  <2>. QED BY <2>1, <2>3
<1>2. ASSUME NEW n \in Nat, n \in Up PROVE n + 1 \in Up
  <2>1. PICK f \in [SUBSET S -> V] : SolvesTo(f, S, pick, base, step, n)
    BY <1>2
  <2>. DEFINE Next(s) == step[pick[s]][f[s \ {pick[s]}]]
              h == [s \in SUBSET S |-> IF s = {} \/ Cardinality(s) <= n THEN f[s] ELSE Next(s)]
  <2>2. ASSUME NEW s \in SUBSET S, s # {}
        PROVE  /\ pick[s] \in S /\ s \ {pick[s]} \in SUBSET S
               /\ Cardinality(s \ {pick[s]}) = Cardinality(s) - 1
    BY <2>2, <1>0, FS_RemoveElement DEF Picks
  <2>3. ASSUME NEW s \in SUBSET S, s # {} PROVE Next(s) \in V
    <3>1. pick[s] \in S /\ f[s \ {pick[s]}] \in V
      BY <2>1, <2>2, <2>3
    <3>2. step[pick[s]] \in [V -> V]
      BY <3>1
    <3>. QED BY <3>1, <3>2
  <2>4. h \in [SUBSET S -> V]
    <3>. HIDE DEF Next
    <3>. QED BY <2>1, <2>3
  <2>5. ASSUME NEW s \in SUBSET S, Cardinality(s) <= n + 1
        PROVE  h[s] = IF s = {} THEN base ELSE step[pick[s]][h[s \ {pick[s]}]]
    <3>0. Cardinality({}) <= n
      BY FS_EmptySet
    <3>1. CASE s = {}
      <4>1. h[s] = f[s]
        BY <3>1
      <4>. QED BY <3>1, <2>1, <3>0, <4>1 DEF SolvesTo
    <3>2. CASE s # {}
      <4>1. Cardinality(s \ {pick[s]}) <= n /\ s \ {pick[s]} \in SUBSET S
        BY <3>2, <2>2, <2>5, <1>0
      <4>2. h[s \ {pick[s]}] = f[s \ {pick[s]}]
        BY <4>1
      <4>3. h[s] = Next(s)
        BY <3>2, <2>1 DEF SolvesTo
      <4>. QED BY <3>2, <4>2, <4>3
    <3>. QED BY <3>1, <3>2
  <2>6. SolvesTo(h, S, pick, base, step, n + 1)
    <3>. HIDE DEF h
    <3>. QED BY <2>5 DEF SolvesTo
  <2>. HIDE DEF h
  <2>. QED BY <2>4, <2>6
<1>3. Nat \subseteq Up
  <2>. HIDE DEF Up
  <2>. QED BY <1>1, <1>2, NatSetInduction
<1>4. Cardinality(S) \in Nat /\ \A s \in SUBSET S : Cardinality(s) <= Cardinality(S)
  BY FS_CardinalityType, FS_Subset
<1>5. PICK f \in [SUBSET S -> V] : SolvesTo(f, S, pick, base, step, Cardinality(S))
  BY <1>3, <1>4
<1>. QED BY <1>4, <1>5 DEF SolvesTo, Solves

-------------------------------------------------------------------------------
(* Sums.                                                                   *)

First(s) == CHOOSE x \in s : TRUE

LEMMA SumUnfolded ==
  ASSUME NEW g, NEW S
  PROVE  SumFunctionOnSet(g, S) =
           (CHOOSE f : f = [s \in SUBSET S |-> IF s = {} THEN 0
                                              ELSE g[First(s)] + f[s \ {First(s)}]])[S]
BY DEF SumFunctionOnSet, FoldFunctionOnSet, MapThenFoldSet, First

Sums(f, g, S) ==
  f = [s \in SUBSET S |-> IF s = {} THEN 0 ELSE g[First(s)] + f[s \ {First(s)}]]

LEMMA SumsExist ==
  ASSUME NEW S, IsFiniteSet(S), NEW g, \A x \in S : g[x] \in Int
  PROVE  \E f \in [SUBSET S -> Int] : Sums(f, g, S)
<1>. DEFINE step == [x \in S |-> [v \in Int |-> g[x] + v]]
            pick == [s \in SUBSET S |-> First(s)]
            zero == 0
<1>1. \A s \in SUBSET S : s # {} => First(s) \in s /\ pick[s] = First(s)
  BY DEF First
<1>2. step \in [S -> [Int -> Int]]
  OBVIOUS
<1>3. Picks(pick, S)
  BY <1>1 DEF Picks
<1>4. PICK f \in [SUBSET S -> Int] : Solves(f, S, pick, zero, step)
  <2>1. zero \in Int
    OBVIOUS
  <2>. HIDE DEF step, pick, zero
  <2>. QED BY <2>1, <1>2, <1>3, RecursionOnSets
<1>5. ASSUME NEW s \in SUBSET S, s # {}
      PROVE  step[pick[s]][f[s \ {pick[s]}]] = g[First(s)] + f[s \ {First(s)}]
  <2>1. First(s) \in S /\ f[s \ {First(s)}] \in Int
    BY <1>1, <1>5
  <2>. QED BY <1>1, <1>5, <2>1
<1>6. \A s \in SUBSET S : f[s] = IF s = {} THEN 0 ELSE g[First(s)] + f[s \ {First(s)}]
  <2>. HIDE DEF step, pick
  <2>. QED BY <1>4, <1>5 DEF Solves
<1>. QED BY <1>6 DEF Sums

\* Two recursions over sets one of which contains the other agree.
LEMMA SumsAgree ==
  ASSUME NEW S, IsFiniteSet(S), NEW g, NEW f, Sums(f, g, S),
         NEW T \in SUBSET S, NEW h, Sums(h, g, T)
  PROVE  h[T] = f[T]
<1>. DEFINE F == {s \in SUBSET T : h[s] = f[s]}
<1>1. {} \in F
  BY DEF Sums
<1>2. ASSUME NEW s \in SUBSET T, s # {}, \A y \in s : s \ {y} \in F PROVE s \in F
  <2>1. First(s) \in s
    BY <1>2 DEF First
  <2>2. h[s \ {First(s)}] = f[s \ {First(s)}]
    BY <1>2, <2>1
  <2>3. h[s] = g[First(s)] + h[s \ {First(s)}]
    BY <1>2 DEF Sums
  <2>4. f[s] = g[First(s)] + f[s \ {First(s)}]
    BY <1>2 DEF Sums
  <2>. QED BY <2>2, <2>3, <2>4
<1>3. T \in F
  <2>. HIDE DEF F
  <2>. QED BY <1>1, <1>2, FS_Subset, SubsetInduction
<1>. QED BY <1>3

\* A sum satisfies the equation of its recursion, whatever element is chosen first.
LEMMA SumRecursion ==
  ASSUME NEW S, IsFiniteSet(S), NEW g, \A x \in S : g[x] \in Int
  PROVE  /\ SumFunctionOnSet(g, S) \in Int
         /\ S = {} => SumFunctionOnSet(g, S) = 0
         /\ S # {} => /\ First(S) \in S
                      /\ SumFunctionOnSet(g, S) =
                           g[First(S)] + SumFunctionOnSet(g, S \ {First(S)})
<1>1. PICK f \in [SUBSET S -> Int] : Sums(f, g, S)
  BY SumsExist
<1>2. ASSUME NEW T \in SUBSET S PROVE SumFunctionOnSet(g, T) = f[T]
  <2>. DEFINE h == CHOOSE e : Sums(e, g, T)
  <2>1. Sums(h, g, T)
    BY FS_Subset, SumsExist
  <2>2. SumFunctionOnSet(g, T) = h[T]
    BY SumUnfolded DEF Sums
  <2>. HIDE DEF h
  <2>. QED BY <1>1, <2>1, <2>2, SumsAgree
<1>3. S # {} => First(S) \in S
  BY DEF First
<1>4. f[S] = IF S = {} THEN 0 ELSE g[First(S)] + f[S \ {First(S)}]
  BY <1>1 DEF Sums
<1>. QED BY <1>1, <1>2, <1>3, <1>4

\* Any element may be taken out of a sum.
LEMMA SumWithout ==
  ASSUME NEW S, IsFiniteSet(S), NEW g, \A x \in S : g[x] \in Int, NEW x \in S
  PROVE  SumFunctionOnSet(g, S) = g[x] + SumFunctionOnSet(g, S \ {x})
<1>. DEFINE Sum(T) == SumFunctionOnSet(g, T)
            F == {T \in SUBSET S : \A y \in T : Sum(T) = g[y] + Sum(T \ {y})}
<1>0. ASSUME NEW T \in SUBSET S
      PROVE  /\ Sum(T) \in Int
             /\ T # {} => First(T) \in T /\ Sum(T) = g[First(T)] + Sum(T \ {First(T)})
  <2>1. IsFiniteSet(T) /\ \A y \in T : g[y] \in Int
    BY FS_Subset
  <2>. QED BY <2>1, SumRecursion
<1>. HIDE DEF Sum
<1>1. {} \in F
  OBVIOUS
<1>2. ASSUME NEW T \in SUBSET S, T # {}, \A y \in T : T \ {y} \in F PROVE T \in F
  <2>. SUFFICES ASSUME NEW y \in T PROVE Sum(T) = g[y] + Sum(T \ {y})
    OBVIOUS
  <2>. DEFINE c == First(T)
  <2>1. c \in T /\ Sum(T) = g[c] + Sum(T \ {c})
    BY <1>0, <1>2
  <2>. HIDE DEF c
  <2>2. CASE y = c
    BY <2>1, <2>2
  <2>3. CASE y # c
    <3>1. Sum(T \ {c}) = g[y] + Sum((T \ {c}) \ {y})
      BY <1>2, <2>1, <2>3
    <3>2. Sum(T \ {y}) = g[c] + Sum((T \ {y}) \ {c})
      BY <1>2, <2>1, <2>3
    <3>3. (T \ {c}) \ {y} = (T \ {y}) \ {c}
      OBVIOUS
    <3>4. g[c] \in Int /\ g[y] \in Int /\ Sum((T \ {y}) \ {c}) \in Int
      BY <1>0, <2>1
    <3>5. PICK v \in Int : v = Sum((T \ {y}) \ {c})
      BY <3>4
    <3>6. Sum(T \ {c}) = g[y] + v /\ Sum(T \ {y}) = g[c] + v
      BY <3>1, <3>2, <3>3, <3>5
    <3>7. Sum(T) = g[c] + (g[y] + v)
      BY <2>1, <3>6
    <3>8. g[c] + (g[y] + v) = g[y] + (g[c] + v)
      BY <3>4
    <3>. QED BY <3>6, <3>7, <3>8
  <2>. QED BY <2>2, <2>3
<1>3. S \in F
  <2>. HIDE DEF F
  <2>. QED BY <1>1, <1>2, SubsetInduction
<1>. QED BY <1>3 DEF Sum

LEMMA SumIsNat ==
  ASSUME NEW S, IsFiniteSet(S), NEW g, \A x \in S : g[x] \in Nat
  PROVE  SumFunctionOnSet(g, S) \in Nat
<1>. DEFINE Sum(T) == SumFunctionOnSet(g, T)
            F == {T \in SUBSET S : Sum(T) \in Nat}
<1>1. Sum({}) = 0
  BY FS_EmptySet, SumRecursion
<1>2. ASSUME NEW T \in SUBSET S, T # {}, \A y \in T : T \ {y} \in F PROVE T \in F
  <2>1. PICK y \in T : TRUE
    BY <1>2
  <2>2. IsFiniteSet(T) /\ (\A x \in T : g[x] \in Int) /\ g[y] \in Nat
    BY FS_Subset
  <2>3. Sum(T) = g[y] + Sum(T \ {y})
    BY <2>2, SumWithout
  <2>. QED BY <1>2, <2>2, <2>3
<1>3. S \in F
  <2>. HIDE DEF F, Sum
  <2>1. {} \in F
    BY <1>1 DEF F
  <2>. QED BY <1>2, <2>1, SubsetInduction
<1>. QED BY <1>3

\* A larger set has no smaller sum.
LEMMA SumMonotone ==
  ASSUME NEW S, IsFiniteSet(S), NEW g, \A x \in S : g[x] \in Nat, NEW T \in SUBSET S
  PROVE  SumFunctionOnSet(g, T) <= SumFunctionOnSet(g, S)
<1>. DEFINE Sum(U) == SumFunctionOnSet(g, U)
            F == {U \in SUBSET S : Sum(U \cap T) <= Sum(U)}
<1>1. {} \in F
  <2>1. Sum({}) = 0 /\ {} \cap T = {}
    BY FS_EmptySet, SumRecursion
  <2>. QED BY <2>1
<1>2. ASSUME NEW U \in SUBSET S, U # {}, \A y \in U : U \ {y} \in F PROVE U \in F
  <2>1. PICK y \in U : TRUE
    BY <1>2
  <2>. SUFFICES Sum(U \cap T) <= Sum(U)
    OBVIOUS
  <2>2. ASSUME NEW W \in SUBSET S
        PROVE  /\ Sum(W) \in Nat
               /\ y \in W => Sum(W) = g[y] + Sum(W \ {y})
    <3>1. IsFiniteSet(W) /\ (\A x \in W : g[x] \in Int) /\ (\A x \in W : g[x] \in Nat)
      BY FS_Subset
    <3>. QED BY <3>1, SumIsNat, SumWithout
  <2>. HIDE DEF Sum
  <2>3. g[y] \in Nat /\ Sum((U \ {y}) \cap T) <= Sum(U \ {y})
    BY <1>2
  <2>4. Sum(U) = g[y] + Sum(U \ {y}) /\ Sum(U \ {y}) \in Nat /\ Sum((U \ {y}) \cap T) \in Nat
    BY <2>2
  <2>5. CASE y \in T
    <3>1. (U \cap T) \ {y} = (U \ {y}) \cap T
      OBVIOUS
    <3>2. Sum(U \cap T) = g[y] + Sum((U \ {y}) \cap T)
      BY <2>2, <2>5, <3>1
    <3>. QED BY <2>3, <2>4, <3>2
  <2>6. CASE y \notin T
    <3>1. U \cap T = (U \ {y}) \cap T
      BY <2>6
    <3>2. Sum(U \cap T) = Sum((U \ {y}) \cap T)
      BY <3>1
    <3>. QED BY <2>3, <2>4, <3>2
  <2>. QED BY <2>5, <2>6
<1>3. S \in F
  <2>. HIDE DEF F
  <2>. QED BY <1>1, <1>2, SubsetInduction
<1>4. S \cap T = T
  OBVIOUS
<1>. QED BY <1>3, <1>4

\* A sum may be taken over other names of the same terms.
LEMMA SumRenamed ==
  ASSUME NEW S, IsFiniteSet(S), NEW g, \A x \in S : g[x] \in Int,
         NEW T, NEW f \in Bijection(S, T), NEW h, \A x \in S : h[f[x]] = g[x]
  PROVE  SumFunctionOnSet(h, T) = SumFunctionOnSet(g, S)
<1>. DEFINE Image(U) == {f[x] : x \in U}
            F == {U \in SUBSET S : SumFunctionOnSet(h, Image(U)) = SumFunctionOnSet(g, U)}
<1>0. /\ \A x, y \in S : f[x] = f[y] => x = y
      /\ \A y \in T : \E x \in S : f[x] = y
      /\ \A x \in S : f[x] \in T
  BY DEF Bijection, Injection, Surjection, IsInjective
<1>1. {} \in F
  <2>1. Image({}) = {}
    OBVIOUS
  <2>2. SumFunctionOnSet(h, {}) = 0 /\ SumFunctionOnSet(g, {}) = 0
    BY FS_EmptySet, SumRecursion
  <2>. QED BY <2>1, <2>2
<1>2. ASSUME NEW U \in SUBSET S, U # {}, \A y \in U : U \ {y} \in F PROVE U \in F
  <2>1. PICK y \in U : TRUE
    BY <1>2
  <2>2. IsFiniteSet(U) /\ \A x \in U : g[x] \in Int
    BY FS_Subset
  <2>3. SumFunctionOnSet(g, U) = g[y] + SumFunctionOnSet(g, U \ {y})
    BY <2>2, SumWithout
  <2>4. IsFiniteSet(Image(U)) /\ (\A z \in Image(U) : h[z] \in Int) /\ f[y] \in Image(U)
    <3>. DEFINE e == [x \in U |-> f[x]]
    <3>1. e \in Surjection(U, Image(U))
      BY DEF Surjection
    <3>2. IsFiniteSet(Image(U))
      <4>. HIDE DEF e, Image
      <4>. QED BY <2>2, <3>1, FS_Surjection
    <3>. QED BY <2>2, <3>2
  <2>5. SumFunctionOnSet(h, Image(U)) = h[f[y]] + SumFunctionOnSet(h, Image(U) \ {f[y]})
    <3>. HIDE DEF Image
    <3>. QED BY <2>4, SumWithout
  <2>6. Image(U) \ {f[y]} = Image(U \ {y})
    BY <1>0
  <2>7. SumFunctionOnSet(h, Image(U \ {y})) = SumFunctionOnSet(g, U \ {y})
    BY <1>2
  <2>8. h[f[y]] = g[y]
    OBVIOUS
  <2>. QED BY <2>3, <2>5, <2>6, <2>7, <2>8
<1>3. S \in F
  <2>. HIDE DEF F
  <2>. QED BY <1>1, <1>2, SubsetInduction
<1>4. Image(S) = T
  BY <1>0
<1>. QED BY <1>3, <1>4

\* A sum depends on the terms alone.
LEMMA SumEqual ==
  ASSUME NEW S, IsFiniteSet(S), NEW g, \A x \in S : g[x] \in Int,
         NEW h, \A x \in S : h[x] = g[x]
  PROVE  SumFunctionOnSet(h, S) = SumFunctionOnSet(g, S)
<1>. DEFINE f == [x \in S |-> x]
<1>1. f \in Bijection(S, S)
  BY DEF Bijection, Injection, Surjection, IsInjective
<1>2. \A x \in S : h[f[x]] = g[x]
  OBVIOUS
<1>. HIDE DEF f
<1>. QED BY <1>1, <1>2, SumRenamed

\* Terms that are rounded, each by itself and by no more than half of ten units, sum
\* up to what is off by no more than half of ten units for each of them; and if no
\* term is changed by its rounding, neither is the sum.
LEMMA SumRounded ==
  ASSUME NEW S, IsFiniteSet(S), NEW g, \A x \in S : g[x] \in Int,
         NEW h, \A x \in S : h[x] \in Int,
         \A x \in S : 10 * h[x] <= g[x] + 5 /\ g[x] <= 10 * h[x] + 5
  PROVE  LET g_sum == SumFunctionOnSet(g, S)
             h_sum == SumFunctionOnSet(h, S) IN
         /\ g_sum \in Int /\ h_sum \in Int /\ Cardinality(S) \in Nat
         /\ 10 * h_sum <= g_sum + 5 * Cardinality(S)
         /\ g_sum <= 10 * h_sum + 5 * Cardinality(S)
         /\ (\A x \in S : g[x] = 10 * h[x]) => g_sum = 10 * h_sum
<1>. DEFINE G(T) == SumFunctionOnSet(g, T)
            H(T) == SumFunctionOnSet(h, T)
            Close(T) == /\ 10 * H(T) <= G(T) + 5 * Cardinality(T)
                        /\ G(T) <= 10 * H(T) + 5 * Cardinality(T)
                        /\ (\A x \in S : g[x] = 10 * h[x]) => G(T) = 10 * H(T)
            F == {T \in SUBSET S : Close(T)}
<1>0. ASSUME NEW T \in SUBSET S
      PROVE  /\ IsFiniteSet(T) /\ Cardinality(T) \in Nat /\ G(T) \in Int /\ H(T) \in Int
             /\ \A y \in T : /\ G(T) = g[y] + G(T \ {y}) /\ H(T) = h[y] + H(T \ {y})
                            /\ Cardinality(T \ {y}) = Cardinality(T) - 1
  <2>1. /\ IsFiniteSet(T) /\ Cardinality(T) \in Nat
        /\ (\A y \in T : g[y] \in Int) /\ (\A y \in T : h[y] \in Int)
    BY FS_Subset, FS_CardinalityType
  <2>2. G(T) \in Int /\ H(T) \in Int
    BY <2>1, SumRecursion
  <2>3. ASSUME NEW y \in T
        PROVE  /\ G(T) = g[y] + G(T \ {y}) /\ H(T) = h[y] + H(T \ {y})
               /\ Cardinality(T \ {y}) = Cardinality(T) - 1
    BY <2>1, SumWithout, FS_RemoveElement
  <2>. QED BY <2>1, <2>2, <2>3
<1>1. {} \in F
  <2>1. G({}) = 0 /\ H({}) = 0 /\ Cardinality({}) = 0
    BY FS_EmptySet, SumRecursion
  <2>. HIDE DEF G, H
  <2>. QED BY <2>1
<1>. HIDE DEF G, H
<1>2. ASSUME NEW T \in SUBSET S, T # {}, \A y \in T : T \ {y} \in F PROVE T \in F
  <2>1. PICK y \in T : TRUE
    BY <1>2
  <2>2. Close(T \ {y}) /\ T \ {y} \in SUBSET S
    BY <1>2, <2>1
  <2>3. PICK a \in Int : a = G(T \ {y})
    BY <1>0, <2>2
  <2>4. PICK b \in Int : b = H(T \ {y})
    BY <1>0, <2>2
  <2>5. PICK n \in Nat : n = Cardinality(T)
    BY <1>0
  <2>6. G(T) = g[y] + a /\ H(T) = h[y] + b /\ Cardinality(T \ {y}) = n - 1
    BY <1>0, <2>1, <2>3, <2>4, <2>5
  <2>7. g[y] \in Int /\ h[y] \in Int /\ 10 * h[y] <= g[y] + 5 /\ g[y] <= 10 * h[y] + 5
    BY <2>1
  <2>8. 10 * b <= a + 5 * (n - 1) /\ a <= 10 * b + 5 * (n - 1)
    BY <2>2, <2>3, <2>4, <2>6
  <2>9. (\A x \in S : g[x] = 10 * h[x]) => a = 10 * b /\ g[y] = 10 * h[y]
    BY <2>2, <2>3, <2>4
  <2>10. /\ 10 * (h[y] + b) <= (g[y] + a) + 5 * n
         /\ g[y] + a <= 10 * (h[y] + b) + 5 * n
         /\ a = 10 * b /\ g[y] = 10 * h[y] => g[y] + a = 10 * (h[y] + b)
    BY <2>7, <2>8
  <2>11. Close(T)
    BY <2>5, <2>6, <2>9, <2>10
  <2>. QED BY <2>11
<1>3. S \in F
  <2>. HIDE DEF F
  <2>. QED BY <1>1, <1>2, SubsetInduction
<1>. QED BY <1>0, <1>3 DEF G, H

-------------------------------------------------------------------------------
(* Folds.  FoldLeft recurs over the positions of a sequence, the last      *)
(* first; so it goes through the prefixes 1..k, k counting up.             *)

LEMMA Maximum ==
  ASSUME NEW S \in SUBSET Int, IsFiniteSet(S), S # {}
  PROVE  Max(S) \in S /\ \A x \in S : x <= Max(S)
<1>. DEFINE F == {T \in SUBSET S : T # {} => \E m \in T : \A x \in T : x <= m}
<1>1. ASSUME NEW T \in SUBSET S, T # {}, \A y \in T : T \ {y} \in F PROVE T \in F
  <2>1. PICK y \in T : TRUE
    BY <1>1
  <2>2. CASE T \ {y} = {}
    <3>1. \A x \in T : x <= y
      BY <2>2
    <3>. QED BY <3>1
  <2>3. CASE T \ {y} # {}
    <3>1. PICK m \in T \ {y} : \A x \in T \ {y} : x <= m
      BY <1>1, <2>3
    <3>2. y \in Int /\ m \in Int /\ \A x \in T : x \in Int
      OBVIOUS
    <3>3. \A x \in T : x <= IF y <= m THEN m ELSE y
      BY <3>1, <3>2
    <3>. QED BY <3>3
  <2>. QED BY <2>2, <2>3
<1>2. S \in F
  <2>1. {} \in F
    OBVIOUS
  <2>. HIDE DEF F
  <2>. QED BY <1>1, <2>1, SubsetInduction
<1>3. PICK m \in S : \A x \in S : x <= m
  BY <1>2
<1>4. m \in S /\ \A x \in S : m >= x
  BY <1>3
<1>. QED BY <1>4 DEF Max

LEMMA LastPosition ==
  ASSUME NEW k \in Nat
  PROVE  1..(k + 1) # {} /\ Max(1..(k + 1)) = k + 1 /\ (1..(k + 1)) \ {k + 1} = 1..k
<1>. DEFINE S == 1..(k + 1)
<1>1. IsFiniteSet(S)
  BY FS_Interval
<1>2. k + 1 \in S /\ S \in SUBSET Int
  OBVIOUS
<1>3. Max(S) \in S /\ \A x \in S : x <= Max(S)
  <2>. HIDE DEF S
  <2>. QED BY <1>1, <1>2, Maximum
<1>. QED BY <1>2, <1>3

\* f is defined by recursion over sets of positions, the last first.
GoesThrough(f, n, base, step) ==
  \A s \in SUBSET (1..n) : f[s] = IF s = {} THEN base ELSE step[Max(s)][f[s \ {Max(s)}]]

\* A recursion over the positions of a sequence has a solution.
LEMMA RecursionOnPositions ==
  ASSUME NEW n \in Nat, NEW V, NEW base \in V, NEW step \in [1..n -> [V -> V]]
  PROVE  /\ \A s \in SUBSET (1..n) : s # {} => Max(s) \in s
         /\ \E f \in [SUBSET (1..n) -> V] : GoesThrough(f, n, base, step)
<1>. DEFINE pick == [s \in SUBSET (1..n) |-> Max(s)]
<1>1. IsFiniteSet(1..n)
  BY FS_Interval
<1>2. ASSUME NEW s \in SUBSET (1..n), s # {} PROVE Max(s) \in s
  <2>1. IsFiniteSet(s)
    BY <1>1, FS_Subset
  <2>2. s \in SUBSET Int
    OBVIOUS
  <2>. QED BY <1>2, <2>1, <2>2, Maximum
<1>3. Picks(pick, 1..n)
  BY <1>2 DEF Picks
<1>4. PICK f \in [SUBSET (1..n) -> V] : Solves(f, 1..n, pick, base, step)
  <2>. HIDE DEF pick
  <2>. QED BY <1>1, <1>3, RecursionOnSets
<1>. QED BY <1>2, <1>4 DEF Solves, GoesThrough

-------------------------------------------------------------------------------
(* Pools of connections.                                                   *)

\* A pool of at most size connections, held by some of the handlers.
IsPool(pool, Handlers, size) ==
  /\ pool \subseteq Handlers
  /\ IsFiniteSet(pool) /\ Cardinality(pool) <= size

LEMMA EmptyPool ==
  ASSUME NEW Handlers, NEW size \in Nat
  PROVE  IsPool({}, Handlers, size)
BY FS_EmptySet DEF IsPool

\* A handler that is given a connection finds room for it, whether or not it
\* holds one already.
LEMMA PoolGrows ==
  ASSUME NEW pool, NEW Handlers, NEW size \in Nat, IsPool(pool, Handlers, size),
         Cardinality(pool) < size, NEW r \in Handlers
  PROVE  IsPool(pool \cup {r}, Handlers, size)
<1>1. /\ IsFiniteSet(pool \cup {r})
      /\ Cardinality(pool \cup {r}) =
           IF r \in pool THEN Cardinality(pool) ELSE Cardinality(pool) + 1
  BY FS_AddElement DEF IsPool
<1>2. Cardinality(pool) \in Nat
  BY FS_CardinalityType DEF IsPool
<1>. QED BY <1>1, <1>2 DEF IsPool

LEMMA PoolShrinks ==
  ASSUME NEW pool, NEW Handlers, NEW size \in Nat, IsPool(pool, Handlers, size), NEW r
  PROVE  IsPool(pool \ {r}, Handlers, size)
<1>1. /\ IsFiniteSet(pool \ {r})
      /\ Cardinality(pool \ {r}) =
           IF r \in pool THEN Cardinality(pool) - 1 ELSE Cardinality(pool)
  BY FS_RemoveElement DEF IsPool
<1>2. Cardinality(pool) \in Nat
  BY FS_CardinalityType DEF IsPool
<1>. QED BY <1>1, <1>2 DEF IsPool
===============================================================================
