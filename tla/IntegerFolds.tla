---------------------------- MODULE IntegerFolds ----------------------------
(***************************************************************************)
(* What the folds of the community modules compute on finite sets of       *)
(* integers: Min and Max are the extrema their names say, and              *)
(* SumFunctionOnSet is the sum, in whatever order CHOOSE takes the terms.  *)
(* The facts the proofs about mixed densities, electron counts and sums    *)
(* over a grid or a k-point zone rest on.                                  *)
(***************************************************************************)
EXTENDS FiniteSetsExt, FiniteSetTheorems, WellFoundedInduction, TLAPS
-----------------------------------------------------------------------------
(* Extrema.                                                                *)

\* A finite set of integers that is not empty has a least element, which is
\* what f64::min folds to and the first match of a search.
LEMMA MinExists ==
  ASSUME NEW S \in SUBSET Int, IsFiniteSet(S), S # {}
  PROVE  Min(S) \in S /\ \A y \in S : Min(S) <= y
<1> DEFINE Smaller(x) == {y \in S : y < x}
           T == {Smaller(x) : x \in S}
<1>1. IsWellFoundedOn(StrictSubsetOrdering(S), SUBSET S)
  BY FS_StrictSubsetOrderingWellFounded, FS_FiniteSubsetsOfFinite
<1>2. T \in SUBSET (SUBSET S) /\ T # {}
  OBVIOUS
<1>3. \E m \in T : \A y \in T : ~ (<<y, m>> \in StrictSubsetOrdering(S))
  <2> HIDE DEF T
  <2> QED BY <1>1, <1>2, WFMin
<1>4. PICK x \in S : \A y \in S : ~ (<<Smaller(y), Smaller(x)>> \in StrictSubsetOrdering(S))
  BY <1>3
<1>5. ASSUME NEW y \in S, y < x PROVE FALSE
  <2>1. Smaller(y) \subseteq Smaller(x)
    <3>1. ASSUME NEW z \in S, z < y PROVE z < x
      <4>1. z \in Int /\ y \in Int /\ x \in Int
        OBVIOUS
      <4> QED BY <4>1, <3>1, <1>5
    <3> QED BY <3>1
  <2>2. y \in Smaller(x) /\ y \notin Smaller(y)
    BY <1>5
  <2>3. Smaller(y) \in SUBSET S /\ Smaller(x) \in SUBSET S
    OBVIOUS
  <2> HIDE DEF Smaller
  <2> QED BY <1>4, <2>1, <2>2, <2>3 DEF StrictSubsetOrdering
<1>6. \A y \in S : x <= y
  BY <1>5
<1> QED BY <1>6 DEF Min

\* And a greatest, for f64::max.
LEMMA MaxExists ==
  ASSUME NEW S \in SUBSET Int, IsFiniteSet(S), S # {}
  PROVE  Max(S) \in S /\ \A y \in S : Max(S) >= y
<1> DEFINE Larger(x) == {y \in S : y > x}
           T == {Larger(x) : x \in S}
<1>1. IsWellFoundedOn(StrictSubsetOrdering(S), SUBSET S)
  BY FS_StrictSubsetOrderingWellFounded, FS_FiniteSubsetsOfFinite
<1>2. T \in SUBSET (SUBSET S) /\ T # {}
  OBVIOUS
<1>3. \E m \in T : \A y \in T : ~ (<<y, m>> \in StrictSubsetOrdering(S))
  <2> HIDE DEF T
  <2> QED BY <1>1, <1>2, WFMin
<1>4. PICK x \in S : \A y \in S : ~ (<<Larger(y), Larger(x)>> \in StrictSubsetOrdering(S))
  BY <1>3
<1>5. ASSUME NEW y \in S, y > x PROVE FALSE
  <2>1. Larger(y) \subseteq Larger(x)
    <3>1. ASSUME NEW z \in S, z > y PROVE z > x
      <4>1. z \in Int /\ y \in Int /\ x \in Int
        OBVIOUS
      <4> QED BY <4>1, <3>1, <1>5
    <3> QED BY <3>1
  <2>2. y \in Larger(x) /\ y \notin Larger(y)
    BY <1>5
  <2>3. Larger(y) \in SUBSET S /\ Larger(x) \in SUBSET S
    OBVIOUS
  <2> HIDE DEF Larger
  <2> QED BY <1>4, <2>1, <2>2, <2>3 DEF StrictSubsetOrdering
<1>6. \A y \in S : x >= y
  BY <1>5
<1> QED BY <1>6 DEF Max
-----------------------------------------------------------------------------
(* Induction on the subsets of a finite set, for a SET B of subsets.       *)

\* If a subset is in B whenever all its proper subsets are, the set is.
LEMMA StrongSubsetInduction ==
  ASSUME NEW S, IsFiniteSet(S), NEW B,
         \A T \in SUBSET S : (\A U \in SUBSET T : U # T => U \in B) => T \in B
  PROVE  \A T \in SUBSET S : T \in B
<1> DEFINE Bad == {T \in SUBSET S : T \notin B}
<1>1. IsWellFoundedOn(StrictSubsetOrdering(S), SUBSET S)
  BY FS_StrictSubsetOrderingWellFounded, FS_FiniteSubsetsOfFinite
<1>2. SUFFICES ASSUME Bad # {} PROVE FALSE
  OBVIOUS
<1>3. Bad \in SUBSET (SUBSET S)
  OBVIOUS
<1>4. \E m \in Bad : \A y \in Bad : ~ (<<y, m>> \in StrictSubsetOrdering(S))
  <2> HIDE DEF Bad
  <2> QED BY <1>1, <1>2, <1>3, WFMin
<1>5. PICK T \in Bad : \A U \in Bad : ~ (<<U, T>> \in StrictSubsetOrdering(S))
  BY <1>4
<1>6. ASSUME NEW U \in SUBSET T, U # T PROVE U \in B
  <2>1. U \in SUBSET S /\ T \in SUBSET S
    OBVIOUS
  <2>2. <<U, T>> \in StrictSubsetOrdering(S)
    BY <1>6, <2>1 DEF StrictSubsetOrdering
  <2> QED BY <1>5, <2>1, <2>2
<1> QED BY <1>6

\* If the empty set is in B, and B has no boundary at one more element, the
\* set is in it.
LEMMA SubsetInduction ==
  ASSUME NEW S, IsFiniteSet(S), NEW B, {} \in B,
         \A T \in SUBSET S : \A x \in S \ T : T \in B => T \cup {x} \in B
  PROVE  S \in B
<1>1. ASSUME NEW T \in SUBSET S, \A U \in SUBSET T : U # T => U \in B
      PROVE  T \in B
  <2>1. CASE T = {}
    BY <2>1
  <2>2. CASE T # {}
    <3>1. PICK x \in T : TRUE
      BY <2>2
    <3>2. T \ {x} \in SUBSET T /\ T \ {x} # T
      BY <3>1
    <3>3. T \ {x} \in B
      BY <1>1, <3>2
    <3>4. (T \ {x}) \cup {x} = T /\ x \in S \ (T \ {x}) /\ T \ {x} \in SUBSET S
      BY <3>1
    <3> QED BY <3>3, <3>4
  <2> QED BY <2>1, <2>2
<1>2. \A T \in SUBSET S : T \in B
  <2> QED BY <1>1, StrongSubsetInduction
<1> QED BY <1>2

-----------------------------------------------------------------------------
(* The recursion of a fold.                                                *)

\* The element a fold takes out of T first.
Chosen(T) == CHOOSE x \in T : TRUE
Rest(T) == T \ {Chosen(T)}

\* g satisfies the recursion for the sum of f on D.
Sums(g, f, D) ==
  \A T \in D : g[T] = IF T = {} THEN 0 ELSE f[Chosen(T)] + g[Rest(T)]

\* Taking the chosen element out leaves a proper subset.
LEMMA RestIsSmaller ==
  ASSUME NEW T, T # {}
  PROVE  Chosen(T) \in T /\ Rest(T) \in SUBSET T /\ Rest(T) # T
BY DEF Chosen, Rest

\* Two solutions agree where both are defined.
LEMMA SumsAreUnique ==
  ASSUME NEW S, IsFiniteSet(S), NEW f, NEW g, NEW h,
         NEW D \in SUBSET (SUBSET S), NEW E \in SUBSET (SUBSET S),
         \A T \in D : T # {} => Rest(T) \in D,
         \A T \in E : T # {} => Rest(T) \in E,
         Sums(g, f, D), Sums(h, f, E)
  PROVE  \A T \in D \cap E : g[T] = h[T]
<1> DEFINE B == {T \in SUBSET S : T \in D \cap E => g[T] = h[T]}
<1>1. ASSUME NEW T \in SUBSET S, \A U \in SUBSET T : U # T => U \in B
      PROVE  T \in B
  <2>1. SUFFICES ASSUME T \in D \cap E PROVE g[T] = h[T]
    OBVIOUS
  <2>2. CASE T = {}
    BY <2>1, <2>2 DEF Sums
  <2>3. CASE T # {}
    <3>1. Rest(T) \in SUBSET T /\ Rest(T) # T /\ Rest(T) \in D \cap E
      BY <2>1, <2>3, RestIsSmaller
    <3>2. g[Rest(T)] = h[Rest(T)]
      BY <1>1, <3>1
    <3> QED BY <2>1, <2>3, <3>2 DEF Sums
  <2> QED BY <2>2, <2>3
<1>2. \A T \in SUBSET S : T \in B
  <2> HIDE DEF B
  <2> QED BY <1>1, StrongSubsetInduction
<1> QED BY <1>2

\* v is what the recursion gives for T.
IsSum(S, f, T, v) ==
  \E D \in SUBSET (SUBSET S) : \E g :
    /\ \A U \in D : U # {} => Rest(U) \in D
    /\ Sums(g, f, D)
    /\ T \in D /\ g[T] = v

\* Every subset has a value under the recursion.
LEMMA SumExists ==
  ASSUME NEW S, IsFiniteSet(S), NEW f
  PROVE  \A T \in SUBSET S : \E v : IsSum(S, f, T, v)
<1> DEFINE B == {T \in SUBSET S : \E v : IsSum(S, f, T, v)}
<1>1. ASSUME NEW T \in SUBSET S, \A U \in SUBSET T : U # T => U \in B
      PROVE  T \in B
  <2>1. CASE T = {}
    <3> DEFINE g == [U \in {{}} |-> 0]
    <3>1. Sums(g, f, {{}})
      BY DEF Sums
    <3>2. {{}} \in SUBSET (SUBSET S) /\ g[T] = 0 /\ T \in {{}}
      BY <2>1
    <3> HIDE DEF g
    <3>3. IsSum(S, f, T, 0)
      BY <3>1, <3>2 DEF IsSum
    <3> QED BY <3>3
  <2>2. CASE T # {}
    <3>1. Rest(T) \in SUBSET T /\ Rest(T) # T
      BY <2>2, RestIsSmaller
    <3>2. PICK v : IsSum(S, f, Rest(T), v)
      BY <1>1, <3>1
    <3>3. PICK D \in SUBSET (SUBSET S) : \E g :
            /\ \A U \in D : U # {} => Rest(U) \in D
            /\ Sums(g, f, D)
            /\ Rest(T) \in D
      BY <3>2 DEF IsSum
    <3>0. PICK g :
            /\ \A U \in D : U # {} => Rest(U) \in D
            /\ Sums(g, f, D)
            /\ Rest(T) \in D
      BY <3>3
    <3>4. CASE T \in D
      <4>1. IsSum(S, f, T, g[T])
        BY <3>0, <3>4 DEF IsSum
      <4> QED BY <4>1
    <3>5. CASE T \notin D
      <4> DEFINE E == D \cup {T}
                 h == [U \in E |-> IF U = T THEN f[Chosen(T)] + g[Rest(T)] ELSE g[U]]
      <4>1. E \in SUBSET (SUBSET S) /\ \A U \in E : U # {} => Rest(U) \in E
        BY <3>0
      <4>2. \A U \in D : h[U] = g[U]
        BY <3>5
      <4>3. h[T] = f[Chosen(T)] + g[Rest(T)]
        OBVIOUS
      <4> HIDE DEF h
      <4>4. Sums(h, f, E)
        <5>1. h[T] = IF T = {} THEN 0 ELSE f[Chosen(T)] + h[Rest(T)]
          BY <2>2, <3>0, <4>2, <4>3
        <5>2. ASSUME NEW U \in D
              PROVE  h[U] = IF U = {} THEN 0 ELSE f[Chosen(U)] + h[Rest(U)]
          BY <3>0, <4>2 DEF Sums
        <5> QED BY <5>1, <5>2 DEF Sums
      <4>5. T \in E
        OBVIOUS
      <4> HIDE DEF E
      <4>6. IsSum(S, f, T, h[T])
        BY <4>1, <4>4, <4>5 DEF IsSum
      <4> QED BY <4>6
    <3> QED BY <3>4, <3>5
  <2> QED BY <2>1, <2>2
<1>2. \A T \in SUBSET S : T \in B
  <2> HIDE DEF B
  <2> QED BY <1>1, StrongSubsetInduction
<1> QED BY <1>2

\* And only one.
LEMMA SumIsUnique ==
  ASSUME NEW S, IsFiniteSet(S), NEW f, NEW T, NEW v, NEW w,
         IsSum(S, f, T, v), IsSum(S, f, T, w)
  PROVE  v = w
<1>1. ASSUME NEW D \in SUBSET (SUBSET S), NEW g, NEW E \in SUBSET (SUBSET S), NEW h,
             \A U \in D : U # {} => Rest(U) \in D, Sums(g, f, D), T \in D, g[T] = v,
             \A U \in E : U # {} => Rest(U) \in E, Sums(h, f, E), T \in E, h[T] = w
      PROVE  v = w
  <2>1. \A U \in D \cap E : g[U] = h[U]
    BY <1>1, SumsAreUnique
  <2> QED BY <1>1, <2>1
<1> QED BY <1>1 DEF IsSum

\* The defining equation of a fold.
IsFold(g, S, f) ==
  g = [T \in SUBSET S |-> IF T = {} THEN 0 ELSE f[Chosen(T)] + g[Rest(T)]]

\* The recursion has a solution on all subsets.
LEMMA FoldIsDefined ==
  ASSUME NEW S, IsFiniteSet(S), NEW f
  PROVE  \E g : IsFold(g, S, f)
<1> DEFINE g == [T \in SUBSET S |-> CHOOSE v : IsSum(S, f, T, v)]
<1>1. \A T \in SUBSET S : IsSum(S, f, T, g[T])
  BY SumExists
<1> HIDE DEF g
<1>2. ASSUME NEW T \in SUBSET S
      PROVE  g[T] = IF T = {} THEN 0 ELSE f[Chosen(T)] + g[Rest(T)]
  <2>0. PICK D \in SUBSET (SUBSET S) : \E h :
          /\ \A U \in D : U # {} => Rest(U) \in D
          /\ Sums(h, f, D)
          /\ T \in D /\ h[T] = g[T]
    BY <1>1 DEF IsSum
  <2>1. PICK h :
          /\ \A U \in D : U # {} => Rest(U) \in D
          /\ Sums(h, f, D)
          /\ T \in D /\ h[T] = g[T]
    BY <2>0
  <2>2. CASE T = {}
    BY <2>1, <2>2 DEF Sums
  <2>3. CASE T # {}
    <3>1. Rest(T) \in D /\ Rest(T) \in SUBSET S
      BY <2>1, <2>3
    <3>2. IsSum(S, f, Rest(T), h[Rest(T)])
      BY <2>1, <3>1 DEF IsSum
    <3>3. h[Rest(T)] = g[Rest(T)]
      BY <1>1, <3>1, <3>2, SumIsUnique
    <3> QED BY <2>1, <2>3, <3>3 DEF Sums
  <2> QED BY <2>2, <2>3
<1>3. g = [T \in SUBSET S |-> g[T]]
  BY DEF g
<1>4. g = [T \in SUBSET S |-> IF T = {} THEN 0 ELSE f[Chosen(T)] + g[Rest(T)]]
  BY <1>2, <1>3
<1> QED BY <1>4 DEF IsFold

\* What SumFunctionOnSet of Functions computes.
LEMMA SumUnfolds ==
  ASSUME NEW S, IsFiniteSet(S), NEW f
  PROVE  IsSum(S, f, S, SumFunctionOnSet(f, S))
<1> DEFINE iter == CHOOSE g : IsFold(g, S, f)
<1>1. SumFunctionOnSet(f, S) = iter[S]
  BY DEF SumFunctionOnSet, FoldFunctionOnSet, MapThenFoldSet, Chosen, Rest, IsFold
<1>2. IsFold(iter, S, f)
  BY FoldIsDefined
<1> HIDE DEF iter
<1>3. Sums(iter, f, SUBSET S)
  BY <1>2 DEF Sums, IsFold
<1>4. \A T \in SUBSET S : T # {} => Rest(T) \in SUBSET S
  BY RestIsSmaller
<1>5. SUBSET S \in SUBSET (SUBSET S) /\ S \in SUBSET S
  OBVIOUS
<1> QED BY <1>1, <1>3, <1>4, <1>5 DEF IsSum

-----------------------------------------------------------------------------
(* Sums of integers.                                                       *)

\* All values of f on S are integers.
IntegersOn(f, S) == \A x \in S : f[x] \in Int

\* Nothing sums to zero.
LEMMA SumEmpty ==
  ASSUME NEW f
  PROVE  SumFunctionOnSet(f, {}) = 0
<1>1. IsSum({}, f, {}, SumFunctionOnSet(f, {}))
  BY SumUnfolds, FS_EmptySet
<1> QED BY <1>1 DEF IsSum, Sums

\* The fold takes out one element, whatever CHOOSE picks.
LEMMA SumTakesOne ==
  ASSUME NEW S, IsFiniteSet(S), S # {}, NEW f
  PROVE  SumFunctionOnSet(f, S) = f[Chosen(S)] + SumFunctionOnSet(f, Rest(S))
<1>1. PICK D \in SUBSET (SUBSET S) : \E g :
        /\ \A U \in D : U # {} => Rest(U) \in D
        /\ Sums(g, f, D)
        /\ S \in D /\ g[S] = SumFunctionOnSet(f, S)
  BY SumUnfolds DEF IsSum
<1>2. PICK g :
        /\ \A U \in D : U # {} => Rest(U) \in D
        /\ Sums(g, f, D)
        /\ S \in D /\ g[S] = SumFunctionOnSet(f, S)
  BY <1>1
<1>3. Rest(S) \in SUBSET S /\ Rest(S) \in D
  BY <1>2
<1>4. IsSum(S, f, Rest(S), g[Rest(S)])
  BY <1>2, <1>3 DEF IsSum
<1>5. IsSum(S, f, Rest(S), SumFunctionOnSet(f, Rest(S)))
  <2>1. IsFiniteSet(Rest(S))
    BY <1>3, FS_Subset
  <2>2. IsSum(Rest(S), f, Rest(S), SumFunctionOnSet(f, Rest(S)))
    BY <2>1, SumUnfolds
  <2>3. SUBSET (SUBSET Rest(S)) \subseteq SUBSET (SUBSET S)
    BY <1>3
  <2> QED BY <2>2, <2>3 DEF IsSum
<1>6. g[Rest(S)] = SumFunctionOnSet(f, Rest(S))
  BY <1>4, <1>5, SumIsUnique
<1>7. g[S] = f[Chosen(S)] + g[Rest(S)]
  BY <1>2 DEF Sums
<1> QED BY <1>2, <1>6, <1>7

\* The order does not matter.
LEMMA SumRemove ==
  ASSUME NEW S, IsFiniteSet(S), NEW f, IntegersOn(f, S)
  PROVE  /\ SumFunctionOnSet(f, S) \in Int
         /\ \A x \in S : SumFunctionOnSet(f, S) = f[x] + SumFunctionOnSet(f, S \ {x})
<1> DEFINE Total(T) == SumFunctionOnSet(f, T)
           B == {T \in SUBSET S : /\ Total(T) \in Int
                                  /\ \A x \in T : Total(T) = f[x] + Total(T \ {x})}
<1>1. ASSUME NEW T \in SUBSET S, \A U \in SUBSET T : U # T => U \in B
      PROVE  T \in B
  <2>1. CASE T = {}
    BY <2>1, SumEmpty
  <2>2. CASE T # {}
    <3> DEFINE c == Chosen(T)
    <3>1. c \in T /\ Rest(T) = T \ {c} /\ T \ {c} \in SUBSET T /\ T \ {c} # T
      BY <2>2, RestIsSmaller DEF Rest
    <3>2. IsFiniteSet(T)
      BY FS_Subset
    <3>3. Total(T) = f[c] + Total(T \ {c})
      BY <2>2, <3>1, <3>2, SumTakesOne
    <3> HIDE DEF c, Total
    <3>4. T \ {c} \in B /\ f[c] \in Int
      BY <1>1, <3>1 DEF IntegersOn
    <3>5. Total(T) \in Int
      BY <3>3, <3>4
    <3>6. ASSUME NEW x \in T PROVE Total(T) = f[x] + Total(T \ {x})
      <4>1. CASE x = c
        BY <3>3, <4>1
      <4>2. CASE x # c
        <5>1. T \ {x} \in B /\ f[x] \in Int
          BY <1>1 DEF IntegersOn
        <5>2. (T \ {c}) \ {x} = (T \ {x}) \ {c}
          OBVIOUS
        <5>3. Total(T \ {c}) = f[x] + Total((T \ {c}) \ {x})
          BY <3>4, <4>2
        <5>4. Total(T \ {x}) = f[c] + Total((T \ {x}) \ {c})
          BY <3>1, <4>2, <5>1
        <5>5. (T \ {c}) \ {x} \in B
          <6>1. (T \ {c}) \ {x} \in SUBSET T /\ (T \ {c}) \ {x} # T
            BY <3>1
          <6> QED BY <1>1, <6>1
        <5> DEFINE v == Total((T \ {c}) \ {x})
        <5>6. v \in Int
          BY <5>5
        <5> HIDE DEF v
        <5>7. Total(T \ {c}) = f[x] + v /\ Total(T \ {x}) = f[c] + v
          BY <5>2, <5>3, <5>4 DEF v
        <5> QED BY <3>3, <3>4, <5>1, <5>6, <5>7
      <4> QED BY <4>1, <4>2
    <3> QED BY <3>5, <3>6
  <2> QED BY <2>1, <2>2
<1>2. \A T \in SUBSET S : T \in B
  <2> HIDE DEF B
  <2> QED BY <1>1, StrongSubsetInduction
<1> QED BY <1>2

\* One more element.
LEMMA SumAdd ==
  ASSUME NEW S, IsFiniteSet(S), NEW f, IntegersOn(f, S), NEW x, x \notin S, f[x] \in Int
  PROVE  /\ SumFunctionOnSet(f, S) \in Int
         /\ SumFunctionOnSet(f, S \cup {x}) = f[x] + SumFunctionOnSet(f, S)
<1>1. IsFiniteSet(S \cup {x}) /\ IntegersOn(f, S \cup {x}) /\ (S \cup {x}) \ {x} = S
  BY FS_AddElement DEF IntegersOn
<1> QED BY <1>1, SumRemove

\* Equal values have equal sums.
LEMMA SumEqual ==
  ASSUME NEW S, IsFiniteSet(S), NEW f, NEW g, IntegersOn(f, S),
         \A x \in S : f[x] = g[x]
  PROVE  SumFunctionOnSet(f, S) = SumFunctionOnSet(g, S)
<1> DEFINE B == {T \in SUBSET S : SumFunctionOnSet(f, T) = SumFunctionOnSet(g, T)}
<1>1. {} \in B
  BY SumEmpty
<1>2. ASSUME NEW T \in SUBSET S, NEW x \in S \ T, T \in B PROVE T \cup {x} \in B
  <2>1. IsFiniteSet(T) /\ IntegersOn(f, T) /\ IntegersOn(g, T) /\ f[x] \in Int /\ g[x] \in Int
    BY FS_Subset DEF IntegersOn
  <2>2. SumFunctionOnSet(f, T \cup {x}) = f[x] + SumFunctionOnSet(f, T)
    BY <2>1, SumAdd
  <2>3. SumFunctionOnSet(g, T \cup {x}) = g[x] + SumFunctionOnSet(g, T)
    BY <2>1, SumAdd
  <2> QED BY <1>2, <2>2, <2>3
<1>3. S \in B
  <2> HIDE DEF B
  <2> QED BY <1>1, <1>2, SubsetInduction
<1> QED BY <1>3

\* The larger values have the larger sum.
LEMMA SumMonotone ==
  ASSUME NEW S, IsFiniteSet(S), NEW f, NEW g, IntegersOn(f, S), IntegersOn(g, S),
         \A x \in S : f[x] <= g[x]
  PROVE  SumFunctionOnSet(f, S) <= SumFunctionOnSet(g, S)
<1> DEFINE B == {T \in SUBSET S : SumFunctionOnSet(f, T) <= SumFunctionOnSet(g, T)}
<1>1. {} \in B
  BY SumEmpty
<1>2. ASSUME NEW T \in SUBSET S, NEW x \in S \ T, T \in B PROVE T \cup {x} \in B
  <2>1. IsFiniteSet(T) /\ IntegersOn(f, T) /\ IntegersOn(g, T) /\ f[x] \in Int /\ g[x] \in Int
    BY FS_Subset DEF IntegersOn
  <2> DEFINE a == SumFunctionOnSet(f, T)
             b == SumFunctionOnSet(g, T)
  <2>2. a \in Int /\ SumFunctionOnSet(f, T \cup {x}) = f[x] + a
    BY <2>1, SumAdd
  <2>3. b \in Int /\ SumFunctionOnSet(g, T \cup {x}) = g[x] + b
    BY <2>1, SumAdd
  <2>4. a <= b /\ f[x] <= g[x]
    BY <1>2
  <2> HIDE DEF a, b
  <2>5. SumFunctionOnSet(f, T \cup {x}) <= SumFunctionOnSet(g, T \cup {x})
    BY <2>1, <2>2, <2>3, <2>4
  <2> QED BY <2>5
<1>3. S \in B
  <2> HIDE DEF B
  <2> QED BY <1>1, <1>2, SubsetInduction
<1> QED BY <1>3

\* Values that add up pointwise.
LEMMA SumOfSums ==
  ASSUME NEW S, IsFiniteSet(S), NEW f, NEW g, NEW h,
         IntegersOn(f, S), IntegersOn(g, S), \A x \in S : h[x] = f[x] + g[x]
  PROVE  SumFunctionOnSet(h, S) = SumFunctionOnSet(f, S) + SumFunctionOnSet(g, S)
<1> DEFINE B == {T \in SUBSET S :
                   SumFunctionOnSet(h, T) = SumFunctionOnSet(f, T) + SumFunctionOnSet(g, T)}
<1>1. {} \in B
  BY SumEmpty
<1>2. ASSUME NEW T \in SUBSET S, NEW x \in S \ T, T \in B PROVE T \cup {x} \in B
  <2>1. /\ IsFiniteSet(T) /\ IntegersOn(f, T) /\ IntegersOn(g, T) /\ IntegersOn(h, T)
        /\ f[x] \in Int /\ g[x] \in Int /\ h[x] \in Int
    BY FS_Subset DEF IntegersOn
  <2> DEFINE a == SumFunctionOnSet(f, T)
             b == SumFunctionOnSet(g, T)
             c == SumFunctionOnSet(h, T)
  <2>2. a \in Int /\ SumFunctionOnSet(f, T \cup {x}) = f[x] + a
    BY <2>1, SumAdd
  <2>3. b \in Int /\ SumFunctionOnSet(g, T \cup {x}) = g[x] + b
    BY <2>1, SumAdd
  <2>4. c \in Int /\ SumFunctionOnSet(h, T \cup {x}) = h[x] + c
    BY <2>1, SumAdd
  <2>5. c = a + b /\ h[x] = f[x] + g[x]
    BY <1>2
  <2> HIDE DEF a, b, c
  <2>6. SumFunctionOnSet(h, T \cup {x})
          = SumFunctionOnSet(f, T \cup {x}) + SumFunctionOnSet(g, T \cup {x})
    BY <2>1, <2>2, <2>3, <2>4, <2>5
  <2> QED BY <2>6
<1>3. S \in B
  <2> HIDE DEF B
  <2> QED BY <1>1, <1>2, SubsetInduction
<1> QED BY <1>3

\* Values times a factor.
LEMMA SumOfMultiples ==
  ASSUME NEW S, IsFiniteSet(S), NEW f, NEW h, NEW k \in Int,
         IntegersOn(f, S), \A x \in S : h[x] = k * f[x]
  PROVE  SumFunctionOnSet(h, S) = k * SumFunctionOnSet(f, S)
<1> DEFINE B == {T \in SUBSET S : SumFunctionOnSet(h, T) = k * SumFunctionOnSet(f, T)}
<1>1. {} \in B
  BY SumEmpty
<1>2. ASSUME NEW T \in SUBSET S, NEW x \in S \ T, T \in B PROVE T \cup {x} \in B
  <2>1. /\ IsFiniteSet(T) /\ IntegersOn(f, T) /\ IntegersOn(h, T)
        /\ f[x] \in Int /\ h[x] \in Int
    BY FS_Subset DEF IntegersOn
  <2> DEFINE a == SumFunctionOnSet(f, T)
             c == SumFunctionOnSet(h, T)
  <2>2. a \in Int /\ SumFunctionOnSet(f, T \cup {x}) = f[x] + a
    BY <2>1, SumAdd
  <2>3. c \in Int /\ SumFunctionOnSet(h, T \cup {x}) = h[x] + c
    BY <2>1, SumAdd
  <2>4. c = k * a /\ h[x] = k * f[x]
    BY <1>2
  <2> HIDE DEF a, c
  <2>5. SumFunctionOnSet(h, T \cup {x}) = k * SumFunctionOnSet(f, T \cup {x})
    <3>1. k * (f[x] + a) = k * f[x] + k * a
      BY <2>1, <2>2
    <3> QED BY <2>2, <2>3, <2>4, <3>1
  <2> QED BY <2>5
<1>3. S \in B
  <2> HIDE DEF B
  <2> QED BY <1>1, <1>2, SubsetInduction
<1> QED BY <1>3

\* The sum over two disjoint sets.
LEMMA SumOfParts ==
  ASSUME NEW S, IsFiniteSet(S), NEW R, IsFiniteSet(R), S \cap R = {}, NEW f,
         IntegersOn(f, S), IntegersOn(f, R)
  PROVE  SumFunctionOnSet(f, S \cup R) = SumFunctionOnSet(f, S) + SumFunctionOnSet(f, R)
<1> DEFINE r == SumFunctionOnSet(f, R)
           B == {T \in SUBSET S : SumFunctionOnSet(f, T \cup R) = SumFunctionOnSet(f, T) + r}
<1>1. r \in Int
  BY SumRemove
<1> HIDE DEF r
<1>2. {} \in B
  <2>1. {} \cup R = R
    OBVIOUS
  <2> QED BY <1>1, <2>1, SumEmpty DEF r
<1>3. ASSUME NEW T \in SUBSET S, NEW x \in S \ T, T \in B PROVE T \cup {x} \in B
  <2>1. IsFiniteSet(T) /\ IntegersOn(f, T) /\ f[x] \in Int /\ x \notin T /\ x \notin T \cup R
    BY FS_Subset DEF IntegersOn
  <2>2. IsFiniteSet(T \cup R) /\ IntegersOn(f, T \cup R)
    BY <2>1, FS_Union DEF IntegersOn
  <2>3. (T \cup R) \cup {x} = (T \cup {x}) \cup R
    OBVIOUS
  <2> DEFINE a == SumFunctionOnSet(f, T)
             b == SumFunctionOnSet(f, T \cup R)
  <2>4. a \in Int /\ SumFunctionOnSet(f, T \cup {x}) = f[x] + a
    BY <2>1, SumAdd
  <2>5. b \in Int /\ SumFunctionOnSet(f, (T \cup R) \cup {x}) = f[x] + b
    BY <2>1, <2>2, SumAdd
  <2>6. b = a + r
    BY <1>3
  <2> HIDE DEF a, b
  <2> DEFINE p == SumFunctionOnSet(f, T \cup {x})
             q == SumFunctionOnSet(f, (T \cup {x}) \cup R)
  <2>7. p = f[x] + a /\ q = f[x] + b
    BY <2>3, <2>4, <2>5
  <2>8. q = p + r
    <3> HIDE DEF p, q
    <3> QED BY <1>1, <2>1, <2>4, <2>5, <2>6, <2>7
  <2> QED BY <2>8
<1>4. S \in B
  <2> HIDE DEF B
  <2> QED BY <1>2, <1>3, SubsetInduction
<1> QED BY <1>4 DEF r

\* A constant, summed.
LEMMA SumOfConstant ==
  ASSUME NEW S, IsFiniteSet(S), NEW k \in Int, NEW f, \A x \in S : f[x] = k
  PROVE  SumFunctionOnSet(f, S) = k * Cardinality(S)
<1> DEFINE B == {T \in SUBSET S : SumFunctionOnSet(f, T) = k * Cardinality(T)}
<1>1. {} \in B
  BY SumEmpty, FS_EmptySet
<1>2. ASSUME NEW T \in SUBSET S, NEW x \in S \ T, T \in B PROVE T \cup {x} \in B
  <2>1. IsFiniteSet(T) /\ IntegersOn(f, T) /\ f[x] \in Int /\ f[x] = k /\ x \notin T
    BY FS_Subset DEF IntegersOn
  <2> DEFINE a == SumFunctionOnSet(f, T)
             n == Cardinality(T)
  <2>2. a \in Int /\ SumFunctionOnSet(f, T \cup {x}) = f[x] + a
    BY <2>1, SumAdd
  <2>3. n \in Nat /\ Cardinality(T \cup {x}) = n + 1
    BY <2>1, FS_AddElement, FS_CardinalityType
  <2>4. a = k * n
    BY <1>2
  <2> HIDE DEF a, n
  <2>5. SumFunctionOnSet(f, T \cup {x}) = k * Cardinality(T \cup {x})
    BY <2>1, <2>2, <2>3, <2>4
  <2> QED BY <2>5
<1>3. S \in B
  <2> HIDE DEF B
  <2> QED BY <1>1, <1>2, SubsetInduction
<1> QED BY <1>3

\* Terms that vanish need not be summed.
LEMMA SumOfSupport ==
  ASSUME NEW S, IsFiniteSet(S), NEW T \in SUBSET S, NEW f, IntegersOn(f, S),
         \A x \in S \ T : f[x] = 0
  PROVE  SumFunctionOnSet(f, S) = SumFunctionOnSet(f, T)
<1>1. /\ IsFiniteSet(T) /\ IsFiniteSet(S \ T) /\ S \ T \in SUBSET S
      /\ T \cap (S \ T) = {} /\ T \cup (S \ T) = S
      /\ IntegersOn(f, T) /\ IntegersOn(f, S \ T)
  BY FS_Subset DEF IntegersOn
<1>2. SumFunctionOnSet(f, S \ T) = 0
  <2>1. Cardinality(S \ T) \in Nat
    BY <1>1, FS_CardinalityType
  <2>2. SumFunctionOnSet(f, S \ T) = 0 * Cardinality(S \ T)
    BY <1>1, SumOfConstant
  <2> QED BY <2>1, <2>2
<1>3. SumFunctionOnSet(f, S) = SumFunctionOnSet(f, T) + SumFunctionOnSet(f, S \ T)
  BY <1>1, SumOfParts
<1>4. SumFunctionOnSet(f, T) \in Int
  BY <1>1, SumRemove
<1> QED BY <1>2, <1>3, <1>4

\* A single term.
LEMMA SumSingleton ==
  ASSUME NEW x, NEW f, f[x] \in Int
  PROVE  SumFunctionOnSet(f, {x}) = f[x]
<1>1. IsFiniteSet({x}) /\ IntegersOn(f, {x}) /\ {x} \ {x} = {}
  BY FS_Singleton DEF IntegersOn
<1>2. SumFunctionOnSet(f, {x}) = f[x] + SumFunctionOnSet(f, {x} \ {x})
  BY <1>1, SumRemove
<1> QED BY <1>1, <1>2, SumEmpty

\* The members of S with the key k.
Keyed(S, h, k) == {x \in S : h[x] = k}

\* s holds the sum of f for every key in T, which are all the keys of S.
SumsByKey(s, T, f, S, h) ==
  /\ \A x \in S : h[x] \in T
  /\ \A t \in T : s[t] = SumFunctionOnSet(f, Keyed(S, h, t))

\* Terms grouped by a key h.
LEMMA SumByKey ==
  ASSUME NEW S, IsFiniteSet(S), NEW f, IntegersOn(f, S),
         NEW T, IsFiniteSet(T), NEW h, NEW s, SumsByKey(s, T, f, S, h)
  PROVE  SumFunctionOnSet(f, S) = SumFunctionOnSet(s, T)
<1>0. /\ \A x \in S : h[x] \in T
      /\ \A t \in T : s[t] = SumFunctionOnSet(f, Keyed(S, h, t))
  BY DEF SumsByKey
<1> DEFINE Part(U) == {x \in S : h[x] \in U}
           B == {U \in SUBSET T : SumFunctionOnSet(f, Part(U)) = SumFunctionOnSet(s, U)}
<1>1. {} \in B
  <2>1. Part({}) = {}
    OBVIOUS
  <2> QED BY <2>1, SumEmpty
<1>2. ASSUME NEW U \in SUBSET T, NEW t \in T \ U, U \in B PROVE U \cup {t} \in B
  <2> DEFINE K == {x \in S : h[x] = t}
             P == Part(U)
             a == SumFunctionOnSet(f, K)
             b == SumFunctionOnSet(f, P)
  <2>1. P \cup K = Part(U \cup {t}) /\ P \cap K = {} /\ P \in SUBSET S /\ K \in SUBSET S
    OBVIOUS
  <2> HIDE DEF K, P
  <2>2. IsFiniteSet(P) /\ IsFiniteSet(K) /\ IntegersOn(f, P) /\ IntegersOn(f, K)
    BY <2>1, FS_Subset DEF IntegersOn
  <2>3. SumFunctionOnSet(f, P \cup K) = b + a /\ a \in Int /\ b \in Int
    BY <2>1, <2>2, SumOfParts, SumRemove
  <2>4. s[t] = a /\ b = SumFunctionOnSet(s, U)
    BY <1>0, <1>2 DEF K, P, Keyed
  <2>5. IsFiniteSet(U) /\ IntegersOn(s, U) /\ t \notin U
    <3>1. ASSUME NEW u \in U PROVE s[u] \in Int
      <4> DEFINE M == {x \in S : h[x] = u}
      <4>1. s[u] = SumFunctionOnSet(f, M) /\ M \in SUBSET S
        BY <1>0 DEF Keyed
      <4> HIDE DEF M
      <4>2. IsFiniteSet(M) /\ IntegersOn(f, M)
        BY <4>1, FS_Subset DEF IntegersOn
      <4> QED BY <4>1, <4>2, SumRemove
    <3> QED BY <3>1, FS_Subset DEF IntegersOn
  <2>6. SumFunctionOnSet(s, U \cup {t}) = s[t] + SumFunctionOnSet(s, U)
    BY <2>3, <2>4, <2>5, SumAdd
  <2> HIDE DEF a, b
  <2>7. SumFunctionOnSet(f, P \cup K) = SumFunctionOnSet(s, U \cup {t})
    BY <2>3, <2>4, <2>6
  <2> QED BY <2>1, <2>7
<1>3. T \in B
  <2> HIDE DEF B
  <2> QED BY <1>1, <1>2, SubsetInduction
<1>4. Part(T) = S
  BY <1>0
<1> QED BY <1>3, <1>4

\* The same terms under other names.
LEMMA SumRenamed ==
  ASSUME NEW S, IsFiniteSet(S), NEW f, IntegersOn(f, S),
         NEW T, NEW h \in Bijection(S, T), NEW g, \A x \in S : g[h[x]] = f[x]
  PROVE  SumFunctionOnSet(f, S) = SumFunctionOnSet(g, T)
<1>1. IsFiniteSet(T)
  BY FS_Bijection DEF ExistsBijection
<1>2. /\ \A x \in S : h[x] \in T
      /\ \A t \in T : \E x \in S : h[x] = t
      /\ \A x, y \in S : h[x] = h[y] => x = y
  BY DEF Bijection, Injection, Surjection, IsInjective
<1>3. ASSUME NEW t \in T
      PROVE  g[t] = SumFunctionOnSet(f, Keyed(S, h, t))
  <2>1. PICK x \in S : h[x] = t
    BY <1>2
  <2>2. Keyed(S, h, t) = {x}
    BY <1>2, <2>1 DEF Keyed
  <2>3. SumFunctionOnSet(f, {x}) = f[x]
    BY SumSingleton DEF IntegersOn
  <2> QED BY <2>1, <2>2, <2>3
<1>4. SumsByKey(g, T, f, S, h)
  BY <1>2, <1>3 DEF SumsByKey
<1> QED BY <1>1, <1>4, SumByKey

-----------------------------------------------------------------------------
(* Powers of two, as what a number of halvings divides by: the provers     *)
(* know 2 ^ n only as the number of subsets of n things.                   *)

\* n numbers have 2 ^ n subsets.
LEMMA PowerCountsSubsets ==
  ASSUME NEW n \in Nat
  PROVE  /\ IsFiniteSet(SUBSET (1 .. n)) /\ Cardinality(SUBSET (1 .. n)) = 2 ^ n
         /\ 2 ^ n \in Nat
<1> DEFINE S == 1 .. n
<1>1. IsFiniteSet(S) /\ Cardinality(S) = n
  <2>1. 1 \in Int /\ n \in Int
    OBVIOUS
  <2>2. IsFiniteSet(1 .. n) /\ Cardinality(1 .. n) = IF 1 > n THEN 0 ELSE n - 1 + 1
    BY <2>1, FS_Interval
  <2>3. (IF 1 > n THEN 0 ELSE n - 1 + 1) = n
    OBVIOUS
  <2> QED BY <2>2, <2>3
<1> HIDE DEF S
<1>2. IsFiniteSet(SUBSET S) /\ Cardinality(SUBSET S) = 2 ^ n
  BY <1>1, FS_SUBSET
<1>3. Cardinality(SUBSET S) \in Nat
  BY <1>2, FS_CardinalityType
<1> QED BY <1>2, <1>3 DEF S

\* One more of them doubles that.
LEMMA PowerDoubles ==
  ASSUME NEW n \in Nat
  PROVE  2 ^ (n + 1) = 2 * 2 ^ n
<1> DEFINE S == 1 .. n
           x == n + 1
           Old == SUBSET S
           New == {T \cup {x} : T \in Old}
           add == [T \in Old |-> T \cup {x}]
<1>1. x \notin S /\ S \cup {x} = 1 .. n + 1
  OBVIOUS
<1>2. IsFiniteSet(Old) /\ Cardinality(Old) = 2 ^ n /\ 2 ^ n \in Nat
  BY PowerCountsSubsets
<1> HIDE DEF S, x
<1>3. add \in Bijection(Old, New)
  <2>1. add \in [Old -> New]
    OBVIOUS
  <2>2. ASSUME NEW T \in Old, NEW U \in Old, T \cup {x} = U \cup {x} PROVE T = U
    BY <1>1, <2>2
  <2>3. \A T, U \in Old : add[T] = add[U] => T = U
    BY <2>2
  <2>4. \A V \in New : \E T \in Old : add[T] = V
    OBVIOUS
  <2> HIDE DEF Old, New, add
  <2> QED BY <2>1, <2>3, <2>4 DEF Bijection, Injection, Surjection, IsInjective
<1>4. IsFiniteSet(New) /\ Cardinality(New) = Cardinality(Old)
  <2> HIDE DEF Old, New, add
  <2> QED BY <1>2, <1>3, FS_Bijection DEF ExistsBijection
<1>5. Old \cap New = {} /\ Old \cup New = SUBSET (S \cup {x})
  <2>1. ASSUME NEW V \in SUBSET (S \cup {x}), x \in V PROVE V \in New
    <3>1. V \ {x} \in Old /\ (V \ {x}) \cup {x} = V
      BY <2>1
    <3> QED BY <3>1
  <2>2. ASSUME NEW V \in SUBSET (S \cup {x}), x \notin V PROVE V \in Old
    BY <2>2
  <2>3. Old \cup New \subseteq SUBSET (S \cup {x})
    OBVIOUS
  <2>4. Old \cap New = {}
    BY <1>1
  <2> QED BY <2>1, <2>2, <2>3, <2>4
<1> DEFINE c == Cardinality(Old)
<1>6. Cardinality(Old \cup New) = c + c
  <2> HIDE DEF Old, New
  <2>1. Cardinality(Old \cup New) = Cardinality(Old) + Cardinality(New) - Cardinality({})
    BY <1>2, <1>4, <1>5, FS_Union
  <2>2. Cardinality({}) = 0 /\ Cardinality(Old) \in Nat
    BY <1>2, FS_EmptySet, FS_CardinalityType
  <2> QED BY <1>4, <2>1, <2>2
<1>7. Cardinality(SUBSET (1 .. n + 1)) = 2 ^ (n + 1)
  <2>1. n + 1 \in Nat
    OBVIOUS
  <2> QED BY <2>1, PowerCountsSubsets
<1> HIDE DEF c
<1>8. 2 ^ (n + 1) = c + c
  BY <1>1, <1>5, <1>6, <1>7
<1> QED BY <1>2, <1>8 DEF c

\* And none of them leaves one.
LEMMA PowerOfNone == 2 ^ 0 = 1
<1>1. Cardinality(SUBSET (1 .. 0)) = 2 ^ 0
  BY PowerCountsSubsets
<1>2. SUBSET (1 .. 0) = {{}}
  <2>1. 1 .. 0 = {}
    OBVIOUS
  <2> QED BY <2>1
<1>3. Cardinality({{}}) = 1
  BY FS_Singleton
<1> QED BY <1>1, <1>2, <1>3
=============================================================================
