------------------------ MODULE EigensolverProofs ------------------------
(***************************************************************************)
(* The two eigensolvers.                                                   *)
(*                                                                         *)
(* What a chain of warm starts of diagonalize_lowest keeps, for every      *)
(* space of states, every division of it into symmetry classes and every   *)
(* sequence of Hamiltonians.  The inductive invariant says of the cached   *)
(* and of the returned vectors that each names a state of its own, that    *)
(* there are Truncated of them, and that their states were the lowest at   *)
(* the last full solve.                                                    *)
(*                                                                         *)
(* That the sizing of diagonalize_lowest_iterative is right for every      *)
(* basis size and band count outside one window,                           *)
(* 2 * n_bands + 2 <= n <= 64, where faer panics.                          *)
(***************************************************************************)
EXTENDS SubspaceSolve, KrylovSolve, FiniteSetTheorems, TLAPS

\* A set of columns as the solvers return it.
Proper(c) ==
  /\ c \in Columns
  /\ \A v, w \in c.vecs : v[1] = w[1] => v = w
  /\ Cardinality(States(c.vecs)) = Truncated

CachedAreProper == v_prev # None => wfrx /\ Proper(v_prev)
ReturnedAreProper == result # None => Proper(result)
ReturnedIsThere == pc = "return" => result # None
SeedWasLowest ==
  pc = "solve" /\ v_prev # None => AreLowest(States(v_prev.vecs), at_full)
KeptWereLowest ==
  pc = "return" =>
    AreLowest(States(result.vecs), at_full) /\ (wfrx \/ at_full = h.level)
ReturnedAreEigenvectors ==
  pc = "return" /\ h.finite /\ (SeedFits => v_prev.finite) =>
    result.finite /\ result.vecs \subseteq Eigenvectors(h)
NaNIsReturned ==
  pc = "return" /\ v_prev # None /\ ~ (v_prev # None /\ v_prev.finite)
    /\ n_bands <= NRows => ~ result.finite

Typed ==
  /\ n_bands \in BandCounts
  /\ wfrx \in BOOLEAN
  /\ h \in Hamiltonian
  /\ at_full \in [State -> Level]
  /\ pc \in {"solve", "return", "error"}

IInv ==
  /\ Typed /\ CachedAreProper /\ ReturnedAreProper /\ ReturnedIsThere
  /\ SeedWasLowest /\ KeptWereLowest /\ ReturnedAreEigenvectors /\ NaNIsReturned

-----------------------------------------------------------------------------
(* The number of rows, and of columns returned, is a natural number.       *)
LEMMA TruncatedIsNat ==
  ASSUME Typed
  PROVE  /\ NRows \in Nat /\ n_bands \in Nat \ {0} /\ Truncated \in Nat
         /\ Truncated <= n_bands
         /\ n_bands <= NRows => Truncated = n_bands
<1>1. NRows \in Nat
  BY SubspaceAssumption, FS_CardinalityType DEF NRows
<1>2. n_bands \in Nat \ {0}
  BY SubspaceAssumption DEF Typed
<1> QED BY <1>1, <1>2 DEF Truncated

(* Vectors that name a state each are as many as the states they name.     *)
LEMMA VectorsPerState ==
  ASSUME NEW V \in SUBSET Vector, \A v, w \in V : v[1] = w[1] => v = w
  PROVE  Cardinality(V) = Cardinality(States(V))
<1> DEFINE f == [v \in V |-> v[1]]
<1>1. States(V) \subseteq State
  BY DEF States, Vector
<1>2. IsFiniteSet(States(V))
  BY <1>1, SubspaceAssumption, FS_Subset
<1>3. f \in Injection(V, States(V)) /\ f \in Surjection(V, States(V))
  BY DEF Injection, Surjection, IsInjective, States
<1> HIDE DEF f
<1> QED BY <1>2, <1>3, FS_Injection

(* The eigenvectors of a set of states name those states, once each.       *)
LEMMA EigenvectorsOf ==
  ASSUME NEW H \in Hamiltonian, NEW S \in SUBSET State
  PROVE  LET V == {Eigenvector(H, s) : s \in S}
         IN  /\ V \subseteq Vector /\ V \subseteq Eigenvectors(H)
             /\ States(V) = S
             /\ \A v, w \in V : v[1] = w[1] => v = w
<1>1. \A s \in S : Eigenvector(H, s) \in Vector /\ Eigenvector(H, s)[1] = s
  BY SubspaceAssumption DEF Eigenvector, Vector, Hamiltonian
<1> QED BY <1>1 DEF States, Eigenvectors

(* Rayleigh-Ritz turns vectors within their blocks: it names the same      *)
(* states, once each.                                                      *)
LEMMA RitzKeepsStates ==
  ASSUME NEW H \in Hamiltonian, NEW V \in SUBSET Vector,
         \A v, w \in V : v[1] = w[1] => v = w
  PROVE  /\ Ritz(V, H) \in SUBSET Vector
         /\ States(Ritz(V, H)) = States(V)
         /\ \A v, w \in Ritz(V, H) : v[1] = w[1] => v = w
<1> DEFINE R(v) == IF WholeBlock(V, v[1]) THEN Eigenvector(H, v[1]) ELSE v
<1>1. \A v \in V : R(v) \in Vector /\ R(v)[1] = v[1]
  BY SubspaceAssumption DEF Eigenvector, Vector, Hamiltonian
<1>2. Ritz(V, H) = {R(v) : v \in V}
  BY DEF Ritz
<1> HIDE DEF R
<1> QED BY <1>1, <1>2 DEF States

(* A full solve returns a proper set of the lowest states' eigenvectors.   *)
LEMMA FullSolveIsProper ==
  ASSUME IInv, DiagonalizeLowest, n_bands' = n_bands
  PROVE  /\ Proper(result)' /\ result' # None
         /\ AreLowest(States(result'.vecs), h.level)
         /\ at_full' = h.level
         /\ result'.vecs \subseteq Eigenvectors(h) /\ (h.finite => result'.finite)
<1>1. PICK S \in SUBSET State :
        /\ Cardinality(S) = Truncated
        /\ AreLowest(S, h.level)
        /\ result' = [vecs |-> {Eigenvector(h, s) : s \in S}, finite |-> VectorsFinite(NRows)]
  BY DEF DiagonalizeLowest
<1>2. h \in Hamiltonian /\ h.finite \in BOOLEAN
  BY DEF IInv, Typed, Hamiltonian
<1>10. VectorsFinite(NRows) \in BOOLEAN /\ (h.finite => VectorsFinite(NRows))
  BY DEF VectorsFinite
<1> DEFINE V == {Eigenvector(h, s) : s \in S}
<1>3. /\ V \subseteq Vector /\ V \subseteq Eigenvectors(h) /\ States(V) = S
      /\ \A v, w \in V : v[1] = w[1] => v = w
  BY <1>2, EigenvectorsOf
<1> HIDE DEF V
<1>4. result' = [vecs |-> V, finite |-> VectorsFinite(NRows)]
  BY <1>1 DEF V
<1>5. result' \in Columns
  BY <1>3, <1>4, <1>10 DEF Columns
<1>6. Truncated' = Truncated
  BY DEF Truncated, NRows
<1>7. Proper(result)'
  <2>1. result'.vecs = V /\ Cardinality(States(V)) = Truncated
    BY <1>1, <1>3, <1>4
  <2> QED BY <1>3, <1>5, <1>6, <2>1 DEF Proper, States
<1>8. result' # None
  BY <1>5, SubspaceAssumption DEF Columns
<1>9. at_full' = h.level
  BY DEF DiagonalizeLowest
<1> QED BY <1>1, <1>3, <1>4, <1>7, <1>8, <1>9, <1>10

(* A rotation returns a proper set that names the seed's states.           *)
LEMMA RotationIsProper ==
  ASSUME IInv, Rotate
  PROVE  /\ Proper(result)' /\ result' # None
         /\ States(result'.vecs) = States(v_prev.vecs)
         /\ AllFinite => result'.finite
         /\ result'.finite => v_prev.finite
         /\ AllFinite => result'.vecs \subseteq Eigenvectors(h)
<1>1. /\ v_prev # None /\ ~ ResidualGateTrips
      /\ result' = [vecs |-> Ritz(v_prev.vecs, h),
                    finite |-> v_prev.finite /\ VectorsFinite(n_bands)]
      /\ n_bands' = n_bands
  BY DEF Rotate, SeedFits
<1>2. Proper(v_prev) /\ h \in Hamiltonian /\ h.finite \in BOOLEAN
  BY <1>1 DEF IInv, CachedAreProper, Typed, Hamiltonian
<1>3. /\ v_prev.vecs \in SUBSET Vector /\ v_prev.finite \in BOOLEAN
      /\ \A v, w \in v_prev.vecs : v[1] = w[1] => v = w
  BY <1>2 DEF Proper, Columns
<1> DEFINE V == Ritz(v_prev.vecs, h)
<1>4. /\ V \in SUBSET Vector /\ States(V) = States(v_prev.vecs)
      /\ \A v, w \in V : v[1] = w[1] => v = w
  BY <1>2, <1>3, RitzKeepsStates
<1>5. AllFinite => V \subseteq Eigenvectors(h)
  BY <1>1 DEF ResidualGateTrips
<1> HIDE DEF V
<1> DEFINE fin == v_prev.finite /\ VectorsFinite(n_bands)
<1>7. fin \in BOOLEAN /\ (AllFinite => fin) /\ (fin => v_prev.finite)
  BY DEF AllFinite, VectorsFinite
<1> HIDE DEF fin
<1>6. result' = [vecs |-> V, finite |-> fin]
  BY <1>1 DEF V, fin
<1>8. result' \in Columns
  BY <1>4, <1>6, <1>7 DEF Columns
<1>9. Truncated' = Truncated
  BY <1>1 DEF Truncated, NRows
<1>10. Proper(result)'
  BY <1>2, <1>4, <1>6, <1>8, <1>9 DEF Proper, States
<1>11. result' # None
  BY <1>8, SubspaceAssumption DEF Columns
<1> QED BY <1>4, <1>5, <1>6, <1>7, <1>10, <1>11

(* A non-finite seed with as many columns as there are bands is always     *)
(* taken: the gate does not trip, so no full solve follows.                *)
LEMMA NaNSeedIsRotated ==
  ASSUME IInv, v_prev # None, ~ v_prev.finite, n_bands <= NRows
  PROVE  ~ SolveFully /\ ~ FallBack
<1>1. wfrx /\ Proper(v_prev)
  BY DEF IInv, CachedAreProper
<1>2. Cardinality(v_prev.vecs) = n_bands /\ n_bands \in Nat
  BY <1>1, VectorsPerState, TruncatedIsNat DEF Proper, Columns, IInv
<1>3. SeedFits
  BY <1>1, <1>2 DEF SeedFits
<1> QED BY <1>3 DEF SolveFully, FallBack, ResidualGateTrips, AllFinite

-----------------------------------------------------------------------------
(* The invariant holds at first.                                           *)
LEMMA InitIInv ==
  Init => IInv
BY DEF Init, IInv, Typed, Hamiltonian, CachedAreProper, ReturnedAreProper,
       ReturnedIsThere, SeedWasLowest, KeptWereLowest, ReturnedAreEigenvectors,
       NaNIsReturned

(* A full solve, whatever brought it about, preserves the invariant.       *)
LEMMA FullSolveKeepsIInv ==
  ASSUME IInv, DiagonalizeLowest, pc' = "return",
         UNCHANGED <<n_bands, wfrx, h, v_prev>>,
         v_prev # None /\ n_bands <= NRows => v_prev.finite
  PROVE  IInv'
<1>1. /\ Proper(result)' /\ result' # None
      /\ AreLowest(States(result'.vecs), h.level)
      /\ at_full' = h.level
      /\ result'.vecs \subseteq Eigenvectors(h) /\ (h.finite => result'.finite)
  BY FullSolveIsProper
<1>2. Typed'
  BY <1>1 DEF IInv, Typed, Hamiltonian
<1>3. CachedAreProper'
  BY DEF IInv, CachedAreProper, Proper, Truncated
<1>4. ReturnedAreProper' /\ ReturnedIsThere' /\ SeedWasLowest'
  BY <1>1 DEF ReturnedAreProper, ReturnedIsThere, SeedWasLowest
<1>5. KeptWereLowest'
  BY <1>1 DEF KeptWereLowest, States, AreLowest
<1>6. ReturnedAreEigenvectors'
  BY <1>1 DEF ReturnedAreEigenvectors, Eigenvectors, Eigenvector
<1>7. NaNIsReturned'
  BY DEF NaNIsReturned, NRows
<1> QED BY <1>2, <1>3, <1>4, <1>5, <1>6, <1>7 DEF IInv

(* Every step preserves it.                                                *)
LEMMA StepIInv ==
  IInv /\ [Next]_vars => IInv'
<1> SUFFICES ASSUME IInv, [Next]_vars PROVE IInv'
  OBVIOUS
<1>1. CASE SolveFully
  <2>1. v_prev # None /\ n_bands <= NRows => v_prev.finite
    BY <1>1, NaNSeedIsRotated
  <2> QED BY <1>1, <2>1, FullSolveKeepsIInv DEF SolveFully
<1>2. CASE FallBack
  <2>1. v_prev # None /\ n_bands <= NRows => v_prev.finite
    BY <1>2, NaNSeedIsRotated
  <2> QED BY <1>2, <2>1, FullSolveKeepsIInv DEF FallBack
<1>3. CASE Rotate
  <2>1. /\ Proper(result)' /\ result' # None
        /\ States(result'.vecs) = States(v_prev.vecs)
        /\ AllFinite => result'.finite
        /\ result'.finite => v_prev.finite
        /\ AllFinite => result'.vecs \subseteq Eigenvectors(h)
    BY <1>3, RotationIsProper
  <2>2. /\ pc = "solve" /\ v_prev # None /\ wfrx /\ pc' = "return"
        /\ UNCHANGED <<n_bands, wfrx, h, v_prev, at_full>>
    BY <1>3 DEF Rotate, SeedFits
  <2>3. Typed' /\ CachedAreProper' /\ ReturnedAreProper' /\ ReturnedIsThere'
        /\ SeedWasLowest'
    BY <2>1, <2>2 DEF IInv, Typed, Hamiltonian, CachedAreProper, Proper,
       Truncated, ReturnedAreProper, ReturnedIsThere, SeedWasLowest
  <2>4. KeptWereLowest'
    BY <2>1, <2>2 DEF IInv, SeedWasLowest, KeptWereLowest, States, AreLowest
  <2>5. ReturnedAreEigenvectors'
    <3>1. SeedFits' = SeedFits /\ SeedFits
      BY <1>3, <2>2 DEF Rotate, SeedFits
    <3>2. AllFinite <=> (h.finite /\ v_prev.finite)
      BY DEF AllFinite
    <3> QED BY <2>1, <2>2, <3>1, <3>2
            DEF ReturnedAreEigenvectors, Eigenvectors, Eigenvector
  <2>6. NaNIsReturned'
    BY <2>1, <2>2 DEF NaNIsReturned, AllFinite
  <2> QED BY <2>3, <2>4, <2>5, <2>6 DEF IInv
<1>4. CASE Fail
  BY <1>4 DEF Fail, IInv, Typed, Hamiltonian, CachedAreProper, Proper,
     Truncated, ReturnedAreProper, ReturnedIsThere, SeedWasLowest,
     KeptWereLowest, ReturnedAreEigenvectors, NaNIsReturned
<1>5. CASE Iterate
  <2>1. /\ pc = "return" /\ pc' = "solve" /\ h' \in Hamiltonian
        /\ v_prev' = (IF wfrx THEN result ELSE None)
        /\ UNCHANGED <<n_bands, wfrx, result, at_full>>
    BY <1>5 DEF Iterate
  <2>2. result # None /\ Proper(result)
    BY <2>1 DEF IInv, ReturnedIsThere, ReturnedAreProper
  <2>3. Typed'
    BY <2>1 DEF IInv, Typed
  <2>4. CachedAreProper' /\ ReturnedAreProper'
    BY <2>1, <2>2 DEF IInv, Typed, CachedAreProper, ReturnedAreProper, Proper,
       Truncated
  <2>5. SeedWasLowest'
    BY <2>1 DEF IInv, KeptWereLowest, SeedWasLowest, States, AreLowest
  <2>6. ReturnedIsThere' /\ KeptWereLowest' /\ ReturnedAreEigenvectors'
        /\ NaNIsReturned'
    BY <2>1 DEF ReturnedIsThere, KeptWereLowest, ReturnedAreEigenvectors,
       NaNIsReturned
  <2> QED BY <2>3, <2>4, <2>5, <2>6 DEF IInv
<1>6. CASE UNCHANGED vars
  BY <1>6 DEF vars, IInv, Typed, Hamiltonian, CachedAreProper, Proper,
     Truncated, ReturnedAreProper, ReturnedIsThere, SeedWasLowest,
     KeptWereLowest, ReturnedAreEigenvectors, NaNIsReturned, SeedFits,
     Eigenvectors, Eigenvector
<1> QED BY <1>1, <1>2, <1>3, <1>4, <1>5, <1>6 DEF Next

(* The inductive invariant of the chain of warm starts.                    *)
THEOREM SubspaceInvariant ==
  Spec => []IInv
BY InitIInv, StepIInv, PTL DEF Spec

-----------------------------------------------------------------------------
(* Type correctness, for every space of states and number of bands.        *)
THEOREM SubspaceTypeCorrect ==
  Spec => []SubspaceTypeOK
<1>1. IInv => SubspaceTypeOK
  <2> SUFFICES ASSUME IInv PROVE SubspaceTypeOK
    OBVIOUS
  <2>1. result # None => Cardinality(result.vecs) <= n_bands
    BY VectorsPerState, TruncatedIsNat
       DEF IInv, ReturnedAreProper, Proper, Columns
  <2>2. v_prev \in Columns \cup {None} /\ result \in Columns \cup {None}
    BY DEF IInv, CachedAreProper, ReturnedAreProper, Proper
  <2> QED BY <2>1, <2>2
          DEF IInv, Typed, ReturnedAreProper, Proper, SubspaceTypeOK
<1> QED BY <1>1, SubspaceInvariant, PTL

(* A solve of a finite matrix from a finite seed returns as many pairs as  *)
(* asked for, all of them eigenpairs of the current matrix.                *)
THEOREM EigenpairsAreCurrent ==
  Spec => []ResultsAreEigenpairs
<1>1. IInv => ResultsAreEigenpairs
  <2> SUFFICES ASSUME IInv, pc = "return" PROVE ResultsAreEigenpairs
    BY DEF ResultsAreEigenpairs
  <2>1. Cardinality(result.vecs) = Truncated
    BY VectorsPerState
       DEF IInv, ReturnedIsThere, ReturnedAreProper, Proper, Columns
  <2> QED BY <2>1 DEF IInv, ReturnedAreEigenvectors, ResultsAreEigenpairs
<1> QED BY <1>1, SubspaceInvariant, PTL

(* Only a crossing of levels since the last full solve loses a band.       *)
THEOREM LostBandsCrossed ==
  Spec => []WrongSetNeedsCrossing
<1>1. IInv => WrongSetNeedsCrossing
  <2> SUFFICES ASSUME IInv, pc = "return", result.finite,
                      ~ AreLowest(States(result.vecs), h.level)
               PROVE  /\ wfrx
                      /\ \E s \in States(result.vecs),
                            t \in State \ States(result.vecs) :
                           /\ at_full[s] < at_full[t]
                           /\ h.level[t] < h.level[s]
    BY DEF WrongSetNeedsCrossing
  <2>1. /\ AreLowest(States(result.vecs), at_full)
        /\ wfrx \/ at_full = h.level
    BY DEF IInv, KeptWereLowest
  <2>2. wfrx
    BY <2>1
  <2>3. PICK s \in States(result.vecs), t \in State \ States(result.vecs) :
          ~ h.level[s] < h.level[t]
    BY DEF AreLowest
  <2>4. s \in State /\ s # t
    BY <2>3 DEF IInv, ReturnedIsThere, ReturnedAreProper, Proper, Columns,
       States, Vector
  <2>5. h.level[s] \in Int /\ h.level[t] \in Int /\ h.level[s] # h.level[t]
    BY <2>3, <2>4, SubspaceAssumption DEF IInv, Typed, Hamiltonian
  <2> QED BY <2>1, <2>2, <2>3, <2>5 DEF AreLowest
<1> QED BY <1>1, SubspaceInvariant, PTL

(* A NaN in the seed is never removed by a later solve.                    *)
THEOREM NaNSeedsStay ==
  Spec => NaNSeedStays
<1> DEFINE Stays == v_prev # None /\ ~ v_prev.finite /\ n_bands <= NRows
                      /\ v_prev' # v_prev => ~ v_prev'.finite
<1>1. IInv /\ [Next]_vars => [Stays]_vars
  <2> SUFFICES ASSUME IInv, Next, v_prev # None, ~ v_prev.finite,
                      n_bands <= NRows, v_prev' # v_prev
               PROVE  ~ v_prev'.finite
    BY DEF vars
  <2>1. Iterate
    BY DEF Next, SolveFully, FallBack, Rotate, Fail
  <2>2. wfrx /\ v_prev' = result /\ pc = "return"
    BY <2>1 DEF Iterate, IInv, CachedAreProper
  <2> QED BY <2>2 DEF IInv, NaNIsReturned
<1> QED BY <1>1, SubspaceInvariant, PTL DEF Spec, NaNSeedStays

-----------------------------------------------------------------------------
(* The Krylov solver.                                                      *)
USE DEF LARGE_BASIS_THRESHOLD, MIN_PADDING, MIN_KRYLOV_MAX_DIM,
        KRYLOV_MAX_DIM_DIVISOR, MIN_DIM, MAX_REORTH, Larger, Smaller

(* The request covers the bands and is bounded by its cap, if the cap      *)
(* leaves room for the bands at all.                                       *)
LEMMA RequestBounds ==
  ASSUME NEW bands \in Nat, NEW n_pw \in Nat, NEW max_request \in Nat,
         bands <= max_request
  PROVE  /\ krylov_n_request(bands, n_pw, max_request) \in Nat
         /\ bands <= krylov_n_request(bands, n_pw, max_request)
         /\ krylov_n_request(bands, n_pw, max_request) <= max_request
BY DEF krylov_n_request

(* The subspace holds twice the request and stays below its cap, if the    *)
(* cap leaves room for twice the request.                                  *)
LEMMA MaxDimBounds ==
  ASSUME NEW request \in Nat, NEW n_pw \in Nat, NEW max_allowed \in Nat,
         2 * request <= max_allowed
  PROVE  /\ krylov_max_dim(request, n_pw, max_allowed) \in Nat
         /\ 2 * request <= krylov_max_dim(request, n_pw, max_allowed)
         /\ krylov_max_dim(request, n_pw, max_allowed) <= max_allowed
BY DEF krylov_max_dim

(* Twice the request's cap is at most the subspace's.                      *)
LEMMA Ceilings ==
  ASSUME NEW size \in Nat
  PROVE  /\ MaxDimCeiling(size) \in Nat /\ MaxRequestCeiling(size) \in Nat
         /\ 2 * MaxRequestCeiling(size) <= MaxDimCeiling(size)
         /\ MaxDimCeiling(size) <= size
         /\ MaxRequestCeiling(size) > 0 => MaxDimCeiling(size) = size - 2
BY DEF MaxDimCeiling, MaxRequestCeiling

(* The sizes chosen for a matrix that is not too small form the chain      *)
(* n_bands <= n_request, 2 * n_request <= max_dim, max_dim <= n - 2.       *)
LEMMA Chain ==
  ASSUME n \in Nat, n_wanted \in Nat \ {0}, ~TooSmall
  PROVE  /\ Request \in Nat /\ MaxDim \in Nat
         /\ n_wanted <= Request /\ 2 * Request <= MaxDim /\ MaxDim <= n - 2
<1>1. n_wanted <= MaxRequestCeiling(n) /\ MaxRequestCeiling(n) \in Nat
  BY Ceilings DEF TooSmall
<1>2. Request \in Nat /\ n_wanted <= Request /\ Request <= MaxRequestCeiling(n)
  BY <1>1, RequestBounds DEF Request
<1>3. 2 * Request <= MaxDimCeiling(n) /\ MaxDimCeiling(n) \in Nat
  BY <1>1, <1>2, Ceilings
<1>4. MaxDim \in Nat /\ 2 * Request <= MaxDim /\ MaxDim <= MaxDimCeiling(n)
  BY <1>2, <1>3, MaxDimBounds DEF MaxDim
<1>5. MaxDimCeiling(n) = n - 2
  BY <1>1, Ceilings
<1> QED BY <1>2, <1>4, <1>5

(* What faer makes of the chain: a basis that contains what was asked for, *)
(* smaller than the matrix as soon as that has more than 64 rows.          *)
BasisOf ==
  /\ basis.min_dim \in Nat /\ basis.max_dim \in Nat
  /\ n_request <= basis.min_dim /\ basis.min_dim < basis.max_dim
  /\ max_dim <= basis.max_dim /\ basis.max_dim < n

ChainOf == n_wanted <= n_request /\ 2 * n_request <= max_dim /\ max_dim <= n - 2

(* The inductive invariant.                                                *)
KrylovInv ==
  /\ KrylovTypeOK
  /\ <<n, n_wanted>> \in Problems
  /\ stage \in {"faer", "panicked"} \cup Iterating => ChainOf
  /\ stage = "sizing" => n_request = 0
  /\ stage \in Iterating => BasisOf /\ n_request <= k /\ k < basis.max_dim
  /\ stage \in {"lanczos", "projected"} => restart < MaxRestarts
  /\ stage \in {"sizing", "faer"} => active = 0 /\ restart = 0
  /\ stage = "panicked" => n <= 64
  /\ stage # "returned" => outcome = "none"
  /\ BandsOrError

(* The sizing starts from a well-typed state.                              *)
LEMMA KrylovStarts ==
  ASSUME KrylovInit
  PROVE  KrylovInv
<1>1. PICK p \in Problems : n = p[1] /\ n_wanted = p[2]
  BY DEF KrylovInit
<1>2. p \in Nat \X (Nat \ {0}) /\ p = <<p[1], p[2]>>
  BY <1>1, KrylovAssumption
<1> USE DEF KrylovInit, KrylovTypeOK, Iterating
<1>3. KrylovTypeOK
  <2>1. basis \in [min_dim : Nat, max_dim : Nat]
    OBVIOUS
  <2>2. n \in Nat /\ n_wanted \in Nat \ {0}
    BY <1>1, <1>2
  <2>3. collapsed \in BOOLEAN
    OBVIOUS
  <2>4. active \in 0 .. n_request /\ reorth \in 0 .. MAX_REORTH /\ pairs \in 0 .. n_wanted
    BY <2>2
  <2> HIDE DEF KrylovInit
  <2>5. /\ stage = "sizing" /\ outcome = "none"
        /\ n_request = 0 /\ max_dim = 0 /\ k = 0 /\ restart = 0
    BY DEF KrylovInit
  <2> QED BY <2>1, <2>2, <2>3, <2>4, <2>5, KrylovAssumption
<1>4. BandsOrError
  BY DEF BandsOrError
<1> QED BY <1>1, <1>2, <1>3, <1>4 DEF KrylovInv, ChainOf, BasisOf

(* Every step of the call keeps the invariant.                             *)
LEMMA KrylovSteps ==
  ASSUME KrylovInv, [KrylovNext]_krylov_vars
  PROVE  KrylovInv'
<1> USE KrylovAssumption
<1> USE DEF KrylovInv, KrylovTypeOK, ChainOf, BandsOrError, Iterating, lanczosVars
<1>1. CASE SolveDensely
  BY <1>1 DEF SolveDensely, DensePairs
<1>2. CASE Size
  BY <1>2, Chain DEF Size
<1>3. CASE EnterFaer
  <2>1. /\ FaerBasis.min_dim \in Nat /\ FaerBasis.max_dim \in Nat
        /\ n_request <= FaerBasis.min_dim /\ max_dim <= FaerBasis.max_dim
        /\ FaerBasis.max_dim <= n
        /\ FaerBasis.max_dim = n => n <= 64
        /\ FaerBasis.max_dim < n => FaerBasis.min_dim < FaerBasis.max_dim
    BY <1>3 DEF EnterFaer, FaerBasis
  <2>2. FaerBasis \in [min_dim : Nat, max_dim : Nat]
    BY <2>1 DEF FaerBasis
  <2>3. CASE FaerBasis.max_dim < n
    BY <1>3, <2>1, <2>2, <2>3 DEF EnterFaer, BasisOf
  <2>4. CASE ~(FaerBasis.max_dim < n)
    BY <1>3, <2>1, <2>2, <2>4 DEF EnterFaer, BasisOf
  <2> QED BY <2>3, <2>4
<1>4. CASE Restart
  <2>1. PICK locked \in active .. n_request : active' = locked /\ k' \in Kept(locked)
    BY <1>4 DEF Restart
  <2>2. k' \in Nat /\ n_request <= k' /\ k' < basis.max_dim
    BY <1>4, <2>1 DEF Restart, Kept, BasisOf
  <2> QED BY <1>4, <2>1, <2>2 DEF Restart, BasisOf
<1>5. CASE LeaveFaer
  BY <1>5 DEF LeaveFaer, Converged
<1>6. CASE StartSweep
  BY <1>6 DEF StartSweep, BasisOf
<1>7. CASE Reorthogonalize
  <2>1. stage' \in {"projected", "lanczos"}
    BY <1>7 DEF Reorthogonalize
  <2>2. reorth' \in 0 .. MAX_REORTH
    BY <1>7 DEF Reorthogonalize
  <2> QED BY <1>7, <2>1, <2>2 DEF Reorthogonalize, BasisOf
<1>8. CASE UNCHANGED krylov_vars
  BY <1>8 DEF krylov_vars, BasisOf
<1> QED BY <1>1, <1>2, <1>3, <1>4, <1>5, <1>6, <1>7, <1>8 DEF KrylovNext

(* The invariant holds in every reachable state.                           *)
LEMMA KrylovAlways ==
  KrylovSpec => []KrylovInv
<1>1. KrylovInit => KrylovInv
  BY KrylovStarts
<1>2. KrylovInv /\ [KrylovNext]_krylov_vars => KrylovInv'
  BY KrylovSteps
<1> QED BY <1>1, <1>2, PTL DEF KrylovSpec

(* Types, for all sizes.                                                   *)
THEOREM KrylovTypeCorrect ==
  KrylovSpec => []KrylovTypeOK
<1>1. KrylovInv => KrylovTypeOK
  BY DEF KrylovInv
<1> QED BY <1>1, KrylovAlways, PTL

(* The documented chain of sizes holds for every n and n_wanted that reach *)
(* faer.                                                                   *)
THEOREM CeilingChainHolds ==
  KrylovSpec => []CeilingChain
<1>1. KrylovInv => CeilingChain
  BY DEF KrylovInv, ChainOf, CeilingChain, Iterating
<1> QED BY <1>1, KrylovAlways, PTL

(* Once past the assertion, the restart loop never runs out of columns.    *)
THEOREM RestartsHaveRoom ==
  KrylovSpec => []RestartHasRoom
<1>1. KrylovInv => RestartHasRoom
  BY DEF KrylovInv, BasisOf, RestartHasRoom, Iterating
<1> QED BY <1>1, KrylovAlways, PTL

(* Every result of Arnoldi holds all the bands asked for, and an Err means *)
(* that fewer pairs converged; the dense escape returns min(n_bands, n)    *)
(* pairs, hence none and no Err for an empty matrix, whatever the error    *)
(* list of iterative.rs:312-315 says.                                      *)
THEOREM BandsOrErrors ==
  KrylovSpec => []BandsOrError
<1>1. KrylovInv => BandsOrError
  BY DEF KrylovInv
<1> QED BY <1>1, KrylovAlways, PTL

(* faer's assertion holds for every basis of more than 64 plane waves and  *)
(* for every one small enough for the dense escape (n < 2 * n_wanted + 2). *)
(* In between it does not: krylov_small shows it.                          *)
THEOREM AssertionHoldsOutsideWindow ==
  ASSUME \A p \in Problems : p[1] > 64 \/ p[1] < 2 * p[2] + 2
  PROVE  KrylovSpec => []FaerAssertionHolds
<1>1. KrylovInv => FaerAssertionHolds
  <2> SUFFICES ASSUME KrylovInv, stage = "panicked" PROVE FALSE
    BY DEF FaerAssertionHolds
  <2>1. n <= 64 /\ ChainOf /\ <<n, n_wanted>> \in Problems
    BY DEF KrylovInv
  <2>2. n > 64 \/ n < 2 * n_wanted + 2
    BY <2>1
  <2> QED BY <2>1, <2>2 DEF KrylovInv, ChainOf, KrylovTypeOK
<1> QED BY <1>1, KrylovAlways, PTL
=============================================================================
