------------------------ MODULE DensityOnGridProofs ------------------------
(***************************************************************************)
(* The grids that FftGrid::new chooses, for every cell, cutoff, ratio and  *)
(* size limit: they are within the limit, and at an ecutrho_ratio of 2 or  *)
(* more the difference of any two plane waves is read back at its own      *)
(* Miller index, so that the density on the grid is the unwrapped one.     *)
(*                                                                         *)
(* And the symmetrizer of symmetry/density/g_space.rs: on a grid that the  *)
(* operations map onto itself, with room for the density of a complete     *)
(* basis, what it makes of the density is the average over the operations, *)
(* and invariant under them where the detection finds the whole group.     *)
(* The basis is a ball of the reciprocal lattice, so the differences of    *)
(* its vectors are carried to such differences; one of them is read back   *)
(* at its own index, and what else lands on its point has no coefficient.  *)
(***************************************************************************)
EXTENDS DensityOnGrid, SpaceGroupProofs

-----------------------------------------------------------------------------
(* Wrapping one index.                                                     *)

\* A residue is determined by its range.
LEMMA ModUnique ==
  ASSUME NEW q \in Int, NEW r \in Int, NEW d \in Nat \ {0}, 0 <= r, r < d
  PROVE  (d * q + r) % d = r
OBVIOUS

\* An index below half the size of its axis survives wrapping and unwrapping
\* (miller_to_flat, flat_to_miller).
LEMMA IndexSurvives ==
  ASSUME NEW d \in Nat \ {0}, NEW n \in Int, 2 * n < d, 2 * (-n) < d
  PROVE  (IF n % d > d \div 2 THEN (n % d) - d ELSE n % d) = n
<1>1. CASE n >= 0
  <2>1. d * 0 + n = n
    OBVIOUS
  <2>2. n % d = n
    BY <1>1, <2>1, ModUnique
  <2>3. n <= d \div 2
    BY <1>1
  <2> QED BY <2>2, <2>3
<1>2. CASE n < 0
  <2>1. d * (-1) + (n + d) = n /\ 0 <= n + d /\ n + d < d
    BY <1>2
  <2>2. n % d = n + d
    BY <2>1, ModUnique
  <2>3. n + d > d \div 2
    BY <1>2
  <2> QED BY <2>2, <2>3
<1> QED BY <1>1, <1>2

-----------------------------------------------------------------------------
(* The numbers that size the grid.                                         *)

\* ceil(sqrt(ratio)) exists, and is at least 2 if the ratio is.
LEMMA ScaleIsCeiling ==
  ASSUME NEW ratio \in Nat \ {0}
  PROVE  Scale(ratio) \in Nat /\ (ratio >= 2 => Scale(ratio) >= 2)
<1> DEFINE Roots == {s \in 1 .. ratio : ratio <= s * s}
           m == Min(Roots)
<1>1. 1 \in Int /\ ratio \in Int /\ ratio \in 1 .. ratio
  OBVIOUS
<1>2. IsFiniteSet(1 .. ratio)
  BY <1>1, FS_Interval
<1>3. IsFiniteSet(Roots) /\ Roots \in SUBSET Int
  BY <1>2, FS_Subset
<1>4. ratio <= ratio * ratio
  OBVIOUS
<1>5. Roots # {}
  BY <1>1, <1>4
<1>6. m \in Roots /\ \A y \in Roots : m <= y
  <2> HIDE DEF Roots
  <2> QED BY <1>3, <1>5, MinExists
<1> HIDE DEF m
<1>7. m \in 1 .. ratio /\ ratio <= m * m
  BY <1>6
<1>8. (m - 1) * (m - 1) < ratio
  <2>1. CASE m = 1
    BY <2>1
  <2>2. CASE m # 1
    <3> DEFINE k == m - 1
    <3>1. k \in 1 .. ratio /\ k < m /\ m \in Int /\ k \in Int
      BY <1>7, <2>2
    <3>2. k \notin Roots
      BY <1>6, <3>1
    <3>3. k * k \in Int
      BY <3>1
    <3> HIDE DEF k
    <3>4. k * k < ratio
      BY <3>1, <3>2, <3>3
    <3> QED BY <3>4 DEF k
  <2> QED BY <2>1, <2>2
<1>9. /\ Scale(ratio) \in 1 .. ratio
      /\ ratio <= Scale(ratio) * Scale(ratio)
  BY <1>7, <1>8 DEF Scale
<1>10. Scale(ratio) = 1 => ratio <= 1
  BY <1>9
<1> QED BY <1>9, <1>10

\* The indices of the plane waves along an axis are integers, and n_max is the
\* largest of them in magnitude.
LEMMA IndicesBounded ==
  ASSUME cell \in Cells, NEW i \in Axes, NEW g \in Basis(cell)
  PROVE  /\ n_max(i) \in Nat /\ g \in [Axes -> Int]
         /\ g[i] <= n_max(i) /\ -g[i] <= n_max(i)
<1> DEFINE N == cell.cutoff + 1
           S == {Abs(n[i]) : n \in Basis(cell)}
<1>1. N \in Nat
  BY DensityAssumption DEF DensityAssumption
<1>2. ASSUME NEW n \in Basis(cell) PROVE n \in [Axes -> Int] /\ n[i] \in -N .. N
  <2>1. n \in LoopRange(cell, 1) \X LoopRange(cell, 2) \X LoopRange(cell, 3)
    BY DEF Basis
  <2>2. \A j \in Axes : LoopRange(cell, j) \subseteq -N .. N
    BY DEF LoopRange
  <2>3. n[1] \in -N .. N /\ n[2] \in -N .. N /\ n[3] \in -N .. N
    BY <2>1, <2>2 DEF Axes
  <2>4. -N .. N \subseteq Int
    BY <1>1
  <2> HIDE DEF N
  <2>5. n = <<n[1], n[2], n[3]>> /\ DOMAIN n = 1 .. 3
    BY <2>1
  <2>6. n \in [Axes -> Int]
    BY <2>3, <2>4, <2>5 DEF Axes
  <2> QED BY <2>3, <2>6 DEF Axes
<1>3. ASSUME NEW n \in Basis(cell) PROVE Abs(n[i]) \in 0 .. N
  <2>1. n[i] \in Int /\ -N <= n[i] /\ n[i] <= N
    BY <1>1, <1>2
  <2> HIDE DEF N
  <2> QED BY <1>1, <2>1 DEF Abs
<1>4. S \subseteq 0 .. N /\ S # {}
  BY <1>3
<1>5. IsFiniteSet(0 .. N)
  <2>1. 0 \in Int /\ N \in Int
    BY <1>1
  <2> QED BY <2>1, FS_Interval
<1>6. IsFiniteSet(S) /\ S \in SUBSET Int
  <2>1. 0 .. N \subseteq Int
    BY <1>1
  <2> HIDE DEF S, N
  <2> QED BY <1>4, <1>5, <2>1, FS_Subset
<1>7. Max(S) \in S /\ \A y \in S : Max(S) >= y
  <2> HIDE DEF S
  <2> QED BY <1>4, <1>6, MaxExists
<1>8. Abs(g[i]) \in S
  OBVIOUS
<1>9. n_max(i) = Max(S)
  BY DEF n_max
<1>10. n_max(i) \in Nat /\ Abs(g[i]) <= n_max(i)
  <2> HIDE DEF S, N
  <2>1. Max(S) \in 0 .. N
    BY <1>4, <1>7
  <2> QED BY <1>1, <1>7, <1>8, <1>9, <2>1
<1>11. g[i] \in Int
  BY <1>2
<1> QED BY <1>2, <1>10, <1>11 DEF Abs

\* There is a plane wave, so the bound exists.
LEMMA NMaxIsNatural ==
  ASSUME cell \in Cells, psi.first \in Basis(cell), NEW i \in Axes
  PROVE  n_max(i) \in Nat
BY IndicesBounded

-----------------------------------------------------------------------------
(* The invariant.                                                          *)

InputInv ==
  /\ cell \in Cells /\ ecutrho_ratio \in Ratios /\ fft_grid \in FftGrids
  /\ psi.first \in Basis(cell) /\ psi.second \in Basis(cell)
  /\ psi.power \in {0, 1}
  /\ operations = FindSymmetryOperations(cell) \/ operations = {IdentityOp}

\* The search only enlarges the dimensions it starts from.
DimsInv ==
  /\ pc \in {"grid", "search", "check", "panicked"}
             \cup {"density", "symmetrize", "accumulate", "done"}
  /\ dims \in [Axes -> Nat]
  /\ pc # "grid" => \A i \in Axes : dims[i] \in Nat \ {0}
  /\ pc # "grid" /\ fft_grid = None =>
       \A i \in Axes : dims[i] > 2 * (Scale(ecutrho_ratio) * n_max(i))
  /\ pc \in {"density", "symmetrize", "accumulate", "done"} => \A i \in Axes : dims[i] <= MAX_FFT_DIM

\* Coefficients and slabs exist only on a grid that no longer changes.
SlabInv ==
  /\ slabs \subseteq Planes(1)
  /\ pc \notin {"symmetrize", "accumulate", "done"} => slabs = {} /\ rho_g = None
  /\ pc \in {"symmetrize", "accumulate", "done"} => DOMAIN rho_g = Points
  /\ pc = "done" => DOMAIN rho = Points

GridInv == InputInv /\ DimsInv /\ SlabInv

\* It holds initially.
LEMMA GridInvInit == Init => GridInv
<1> SUFFICES ASSUME Init PROVE GridInv
  OBVIOUS
<1>1. InputInv
  BY DEF Init, InputInv
<1>2. DimsInv
  BY DEF Init, DimsInv, Axes
<1>3. SlabInv
  BY DEF Init, SlabInv
<1> QED BY <1>1, <1>2, <1>3 DEF GridInv

\* FftGrid::new starts from positive dimensions.
LEMMA StartGridKeeps == GridInv /\ StartGrid => GridInv'
<1> SUFFICES ASSUME GridInv, StartGrid PROVE GridInv'
  OBVIOUS
<1>1. InputInv /\ InputInv' /\ UNCHANGED <<input, rho_g, slabs>>
  BY DEF GridInv, StartGrid, InputInv, input, Basis, LoopRange, NormSquared
<1>2. slabs = {} /\ rho_g = None
  BY DEF GridInv, StartGrid, SlabInv
<1>3. SlabInv' /\ pc' \in {"check", "search"}
  BY <1>1, <1>2 DEF StartGrid, SlabInv
<1>4. \A i \in Axes : n_max(i)' = n_max(i)
  BY <1>1 DEF n_max, input
<1>5. CASE fft_grid # None
  <2>1. dims' \in [Axes -> Nat \ {0}] /\ fft_grid' # None
    BY <1>1, <1>5, DensityAssumption DEF DensityAssumption, StartGrid, InputInv, input
  <2> QED BY <1>1, <1>3, <2>1 DEF GridInv, DimsInv
<1>6. CASE fft_grid = None
  <2> DEFINE P(i) == Scale(ecutrho_ratio) * n_max(i)
  <2>1. \A i \in Axes : P(i) \in Nat
    <3>1. ecutrho_ratio \in Nat \ {0}
      BY <1>1, DensityAssumption DEF DensityAssumption, InputInv
    <3>2. Scale(ecutrho_ratio) \in Nat
      BY <3>1, ScaleIsCeiling
    <3>3. \A i \in Axes : n_max(i) \in Nat
      BY <1>1, NMaxIsNatural DEF InputInv
    <3> QED BY <3>2, <3>3
  <2>2. dims' = [i \in Axes |-> 2 * P(i) + 1]
    BY <1>6 DEF StartGrid
  <2>3. \A i \in Axes : P(i)' = P(i)
    BY <1>1, <1>4 DEF input
  <2> HIDE DEF P
  <2>4. dims' \in [Axes -> Nat] /\ \A i \in Axes : dims'[i] \in Nat \ {0} /\ dims'[i] > 2 * P(i)
    BY <2>1, <2>2
  <2>5. \A i \in Axes : dims'[i] > 2 * P(i)'
    BY <2>3, <2>4
  <2> QED BY <1>1, <1>3, <2>4, <2>5 DEF GridInv, DimsInv, P
<1> QED BY <1>5, <1>6

\* Every step of the size search adds one point to one axis.
LEMMA TrySizeKeeps == GridInv /\ TrySize => GridInv'
<1> SUFFICES ASSUME GridInv, TrySize PROVE GridInv'
  OBVIOUS
<1>1. InputInv /\ InputInv' /\ UNCHANGED <<input, rho_g, slabs>>
  BY DEF GridInv, TrySize, InputInv, input, Basis, LoopRange, NormSquared
<1>2. slabs = {} /\ rho_g = None
  BY DEF GridInv, TrySize, SlabInv
<1>3. SlabInv' /\ pc' \in {"check", "search"} /\ pc = "search"
  BY <1>1, <1>2 DEF TrySize, SlabInv
<1>4. /\ dims \in [Axes -> Nat]
      /\ \A i \in Axes : dims[i] \in Nat \ {0}
      /\ fft_grid = None =>
           \A i \in Axes : dims[i] > 2 * (Scale(ecutrho_ratio) * n_max(i))
  BY <1>3 DEF GridInv, DimsInv
<1>5. dims' \in [Axes -> Nat] /\ \A i \in Axes : dims'[i] = dims[i] \/ dims'[i] = dims[i] + 1
  <2>1. CASE Unfriendly = {}
    BY <1>4, <2>1 DEF TrySize
  <2>2. CASE Unfriendly # {}
    <3>1. 1 \in Int /\ 3 \in Int
      OBVIOUS
    <3>2. IsFiniteSet(1 .. 3)
      BY <3>1, FS_Interval
    <3>3. Unfriendly \subseteq 1 .. 3
      BY DEF Unfriendly, Axes
    <3> DEFINE U == Unfriendly
    <3>4. IsFiniteSet(U) /\ U \in SUBSET Int
      <4>1. U \subseteq 1 .. 3 /\ U \subseteq Int
        BY <3>1, <3>3
      <4> HIDE DEF U
      <4> QED BY <3>2, <4>1, FS_Subset
    <3>5. Min(Unfriendly) \in Axes
      BY <2>2, <3>3, <3>4, MinExists DEF Axes
    <3> DEFINE k == Min(Unfriendly)
    <3>6. dims' = [dims EXCEPT ![k] = @ + 1] /\ k \in Axes
      BY <2>2, <3>5 DEF TrySize
    <3> HIDE DEF k
    <3> QED BY <1>4, <3>6
  <2> QED BY <2>1, <2>2
<1>6. \A i \in Axes : dims'[i] \in Nat \ {0} /\ dims'[i] >= dims[i]
  BY <1>4, <1>5
<1>7. ASSUME fft_grid' = None
      PROVE  \A i \in Axes : dims'[i] > 2 * (Scale(ecutrho_ratio') * n_max(i)')
  <2> DEFINE P(i) == Scale(ecutrho_ratio) * n_max(i)
  <2>1. \A i \in Axes : P(i) \in Nat
    <3>1. ecutrho_ratio \in Nat \ {0}
      BY <1>1, DensityAssumption DEF DensityAssumption, InputInv
    <3>2. Scale(ecutrho_ratio) \in Nat
      BY <3>1, ScaleIsCeiling
    <3>3. \A i \in Axes : n_max(i) \in Nat
      BY <1>1, NMaxIsNatural DEF InputInv
    <3> QED BY <3>2, <3>3
  <2>2. \A i \in Axes : Scale(ecutrho_ratio') * n_max(i)' = P(i)
    BY <1>1 DEF n_max, input
  <2>3. \A i \in Axes : dims[i] > 2 * P(i)
    BY <1>1, <1>4, <1>7 DEF input
  <2> HIDE DEF P
  <2>4. \A i \in Axes : dims'[i] > 2 * P(i)
    BY <1>4, <1>6, <2>1, <2>3
  <2> QED BY <2>2, <2>4
<1> QED BY <1>1, <1>3, <1>5, <1>6, <1>7 DEF GridInv, DimsInv

\* On a grid that stays, the parts about it stay.
LEMMA GridStays ==
  ASSUME GridInv, UNCHANGED <<input, dims>>, pc # "grid", pc' # "grid"
  PROVE  /\ InputInv'
         /\ (pc' \in {"check", "panicked", "density", "symmetrize", "accumulate", "done"}
             /\ (pc' \in {"density", "symmetrize", "accumulate", "done"} =>
                   \A i \in Axes : dims[i] <= MAX_FFT_DIM)) => DimsInv'
<1>1. InputInv'
  BY DEF GridInv, InputInv, input, Basis, LoopRange, NormSquared
<1>2. \A i \in Axes : n_max(i)' = n_max(i)
  BY DEF n_max, input
<1> QED BY <1>1, <1>2 DEF GridInv, DimsInv, input

\* Every step keeps it.
LEMMA GridInvNext == GridInv /\ [Next]_vars => GridInv'
<1> SUFFICES ASSUME GridInv, [Next]_vars PROVE GridInv'
  OBVIOUS
<1> USE DEF GridInv
<1>1. CASE StartGrid
  BY <1>1, StartGridKeeps
<1>2. CASE TrySize
  BY <1>2, TrySizeKeeps
<1>3. CASE CheckGrid
  <2>1. /\ pc = "check" /\ pc' \in {"panicked", "density"} /\ UNCHANGED <<input, dims>>
        /\ pc' = "density" => ~ TooLarge
    BY <1>3 DEF CheckGrid
  <2>2. pc' = "density" => \A i \in Axes : dims[i] <= MAX_FFT_DIM
    BY <2>1, DensityAssumption DEF DensityAssumption, TooLarge, DimsInv
  <2>3. InputInv' /\ DimsInv'
    BY <2>1, <2>2, GridStays
  <2>4. SlabInv'
    BY <1>3, <2>1 DEF CheckGrid, SlabInv, Planes
  <2> QED BY <2>3, <2>4
<1>4. CASE BuildDensity
  <2>1. pc = "density" /\ pc' = "symmetrize" /\ UNCHANGED <<input, dims, slabs, rho>>
    BY <1>4 DEF BuildDensity
  <2>2. InputInv' /\ DimsInv'
    BY <2>1, GridStays DEF DimsInv
  <2>3. DOMAIN rho_g' = Points /\ Points' = Points
    BY <1>4, <2>1 DEF BuildDensity, compute_density, Points, Planes
  <2>4. SlabInv'
    BY <2>1, <2>3 DEF SlabInv, Planes
  <2> QED BY <2>2, <2>4
<1>5. CASE SkipSymmetry \/ StartSymmetry \/ TakeRealPart
  <2>1. /\ pc \in {"symmetrize", "accumulate"} /\ pc' \in {"accumulate", "done"}
        /\ UNCHANGED <<input, dims, rho_g, slabs>>
    BY <1>5 DEF SkipSymmetry, StartSymmetry, TakeRealPart
  <2>2. InputInv' /\ DimsInv'
    BY <2>1, GridStays DEF DimsInv
  <2>3. Points' = Points /\ (pc' = "done" => DOMAIN rho' = Points)
    BY <1>5, <2>1 DEF SkipSymmetry, StartSymmetry, TakeRealPart, SlabInv, Points, Planes
  <2>4. SlabInv'
    BY <2>1, <2>3 DEF SlabInv, Planes
  <2> QED BY <2>2, <2>4
<1>6. ASSUME NEW ix \in Planes(1), SymmetrizeSlab(ix) PROVE GridInv'
  <2>1. /\ pc = "accumulate" /\ pc' = "accumulate"
        /\ UNCHANGED <<input, dims, rho_g, rho>> /\ slabs' = slabs \cup {ix}
    BY <1>6 DEF SymmetrizeSlab
  <2>2. InputInv' /\ DimsInv'
    BY <2>1, GridStays DEF DimsInv
  <2>3. Points' = Points
    BY <2>1 DEF Points, Planes
  <2>4. SlabInv'
    BY <1>6, <2>1, <2>3 DEF SlabInv, Planes
  <2> QED BY <2>2, <2>4
<1>7. CASE UNCHANGED vars
  <2>1. UNCHANGED <<input, dims, pc, slabs, rho_g, rho>>
    BY <1>7 DEF vars
  <2>2. InputInv' /\ DimsInv'
    <3>1. InputInv' /\ \A i \in Axes : n_max(i)' = n_max(i)
      BY <2>1 DEF InputInv, n_max, input, Basis, LoopRange, NormSquared
    <3> QED BY <2>1, <3>1 DEF DimsInv, input
  <2>3. SlabInv'
    BY <2>1 DEF SlabInv, Planes, Points
  <2> QED BY <2>2, <2>3
<1> QED BY <1>1, <1>2, <1>3, <1>4, <1>5, <1>6, <1>7 DEF Next

\* So it always holds.
LEMMA GridInvariant == Spec => []GridInv
BY GridInvInit, GridInvNext, PTL DEF Spec

-----------------------------------------------------------------------------
(* What follows.                                                           *)

\* No grid beyond the limit is used, every plane that is written is a plane of
\* the grid, and coefficients are given at every point and nowhere else.
THEOREM GridTypeCorrect == Spec => []GridTypeOK
<1>1. GridInv => GridTypeOK
  <2> SUFFICES ASSUME GridInv PROVE GridTypeOK
    OBVIOUS
  <2>1. rho_g # None => DOMAIN rho_g = Points
    BY DEF GridInv, SlabInv, DimsInv
  <2> QED BY <2>1 DEF GridInv, SlabInv, DimsInv, GridTypeOK
<1> QED BY <1>1, GridInvariant, PTL

\* The difference of any two plane waves of the basis is read back at its own
\* Miller index.
Room ==
  \A g, h \in Basis(cell) : flat_to_miller(miller_to_idx(Minus(g, h))) = Minus(g, h)

DifferencesSurvive ==
  /\ pc \in {"density", "symmetrize", "accumulate", "done"}
  /\ fft_grid = None /\ ecutrho_ratio >= 2
  => Room

\* On every grid the code chooses at a ratio of 2 or more: |psi|^2 has no
\* coefficient that wraps onto another's point (scf/grid.rs:142), whatever the
\* cell, cutoff and state.
THEOREM DefaultGridHasRoom == Spec => []DifferencesSurvive
<1>1. GridInv => DifferencesSurvive
  <2> SUFFICES ASSUME GridInv, pc \in {"density", "symmetrize", "accumulate", "done"},
                      fft_grid = None, ecutrho_ratio >= 2,
                      NEW g \in Basis(cell), NEW h \in Basis(cell)
               PROVE  flat_to_miller(miller_to_idx(Minus(g, h))) = Minus(g, h)
    BY DEF DifferencesSurvive, Room
  <2> DEFINE D == Minus(g, h)
  <2>1. ASSUME NEW i \in Axes
        PROVE  /\ dims[i] \in Nat \ {0} /\ D[i] \in Int
               /\ 2 * D[i] < dims[i] /\ 2 * (-D[i]) < dims[i]
    <3>1. /\ n_max(i) \in Nat /\ g[i] \in Int /\ h[i] \in Int
          /\ g[i] <= n_max(i) /\ -g[i] <= n_max(i)
          /\ h[i] <= n_max(i) /\ -h[i] <= n_max(i)
      BY IndicesBounded DEF GridInv, InputInv
    <3>2. Scale(ecutrho_ratio) \in Nat /\ Scale(ecutrho_ratio) >= 2
      <4>1. ecutrho_ratio \in Nat \ {0}
        BY DensityAssumption DEF DensityAssumption, GridInv, InputInv
      <4> QED BY <4>1, ScaleIsCeiling
    <3>3. dims[i] \in Nat \ {0} /\ dims[i] > 2 * (Scale(ecutrho_ratio) * n_max(i))
      BY DEF GridInv, DimsInv
    <3>4. D[i] = g[i] + (-h[i])
      BY DEF Minus, Plus, Negated
    <3> HIDE DEF D
    <3>5. ASSUME NEW s \in Nat, NEW n \in Nat, s >= 2 PROVE s * n >= 2 * n
      BY <3>5
    <3>6. Scale(ecutrho_ratio) * n_max(i) >= 2 * n_max(i)
      BY <3>1, <3>2, <3>5
    <3>7. Scale(ecutrho_ratio) * n_max(i) \in Nat
      BY <3>1, <3>2
    <3> DEFINE P == Scale(ecutrho_ratio) * n_max(i)
    <3>8. P \in Nat /\ P >= 2 * n_max(i) /\ dims[i] > 2 * P
      BY <3>3, <3>6, <3>7
    <3> HIDE DEF P
    <3> QED BY <3>1, <3>3, <3>4, <3>8
  <2>2. \A i \in Axes :
          (IF D[i] % dims[i] > dims[i] \div 2 THEN (D[i] % dims[i]) - dims[i]
           ELSE D[i] % dims[i]) = D[i]
    <3> HIDE DEF D
    <3> QED BY <2>1, IndexSurvives
  <2>3. D = [i \in Axes |-> D[i]]
    BY DEF Minus, Plus
  <2> HIDE DEF D
  <2>4. flat_to_miller(miller_to_idx(D)) = [i \in Axes |-> D[i]]
    BY <2>2 DEF flat_to_miller, miller_to_idx
  <2> QED BY <2>3, <2>4 DEF D
<1> QED BY <1>1, GridInvariant, PTL

-----------------------------------------------------------------------------
(* Sums of Gaussian integers.                                              *)

Gaussian == Int \X Int

\* Leaving out the zeros does not change a sum.
LEMMA TotalIsSum ==
  ASSUME NEW S, IsFiniteSet(S), NEW f, DOMAIN f = S, \A x \in S : f[x] \in Gaussian,
         NEW g, NEW h, \A x \in S : g[x] = f[x][1] /\ h[x] = f[x][2]
  PROVE  Total(f) = <<SumFunctionOnSet(g, S), SumFunctionOnSet(h, S)>>
<1> DEFINE T == {x \in S : f[x] # Zero}
           a == [x \in T |-> f[x][1]]
           b == [x \in T |-> f[x][2]]
<1>1. Total(f) = <<SumFunctionOnSet(a, T), SumFunctionOnSet(b, T)>>
  BY DEF Total
<1>2. ASSUME NEW x \in S PROVE g[x] \in Int /\ h[x] \in Int
  BY DEF Gaussian
<1>3. \A x \in S \ T : g[x] = 0 /\ h[x] = 0
  BY DEF Zero
<1>4. T \in SUBSET S /\ \A x \in T : a[x] = g[x] /\ b[x] = h[x]
  OBVIOUS
<1> HIDE DEF T, a, b
<1>5. IsFiniteSet(T)
  BY <1>4, FS_Subset
<1>6. /\ IntegersOn(g, S) /\ IntegersOn(h, S)
      /\ IntegersOn(a, T) /\ IntegersOn(b, T)
  BY <1>2, <1>4 DEF IntegersOn
<1>7. /\ SumFunctionOnSet(g, S) = SumFunctionOnSet(g, T)
      /\ SumFunctionOnSet(h, S) = SumFunctionOnSet(h, T)
  BY <1>3, <1>4, <1>6, SumOfSupport
<1>8. /\ SumFunctionOnSet(a, T) = SumFunctionOnSet(g, T)
      /\ SumFunctionOnSet(b, T) = SumFunctionOnSet(h, T)
  BY <1>4, <1>5, <1>6, SumEqual
<1> QED BY <1>1, <1>7, <1>8

\* Terms under other names have the same sum.
LEMMA TotalRenamed ==
  ASSUME NEW S, IsFiniteSet(S), NEW f, DOMAIN f = S, \A x \in S : f[x] \in Gaussian,
         NEW T, NEW r \in Bijection(S, T),
         NEW g, DOMAIN g = T, \A x \in S : g[r[x]] = f[x]
  PROVE  Total(g) = Total(f)
<1> DEFINE f1 == [x \in S |-> f[x][1]]
           f2 == [x \in S |-> f[x][2]]
           g1 == [y \in T |-> g[y][1]]
           g2 == [y \in T |-> g[y][2]]
<1>1. /\ \A x \in S : r[x] \in T
      /\ \A y \in T : \E x \in S : r[x] = y
  BY DEF Bijection, Injection, Surjection
<1>2. IsFiniteSet(T) /\ \A y \in T : g[y] \in Gaussian
  <2>1. IsFiniteSet(T)
    BY FS_Bijection DEF ExistsBijection
  <2> QED BY <1>1, <2>1
<1>3. /\ \A x \in S : f1[x] = f[x][1] /\ f2[x] = f[x][2]
      /\ \A y \in T : g1[y] = g[y][1] /\ g2[y] = g[y][2]
  OBVIOUS
<1>4. \A x \in S : g1[r[x]] = f1[x] /\ g2[r[x]] = f2[x]
  BY <1>1
<1>5. \A x \in S : f1[x] \in Int /\ f2[x] \in Int
  BY DEF Gaussian
<1> HIDE DEF f1, f2, g1, g2
<1>6. /\ SumFunctionOnSet(f1, S) = SumFunctionOnSet(g1, T)
      /\ SumFunctionOnSet(f2, S) = SumFunctionOnSet(g2, T)
  BY <1>4, <1>5, SumRenamed DEF IntegersOn
<1>7. Total(f) = <<SumFunctionOnSet(f1, S), SumFunctionOnSet(f2, S)>>
  BY <1>3, TotalIsSum
<1>8. Total(g) = <<SumFunctionOnSet(g1, T), SumFunctionOnSet(g2, T)>>
  BY <1>2, <1>3, TotalIsSum
<1> QED BY <1>6, <1>7, <1>8

-----------------------------------------------------------------------------
(* Points of the grid and Miller indices.                                  *)

Dims == dims \in [Axes -> Nat] /\ \A i \in Axes : dims[i] \in Nat \ {0}

\* Division with remainder.
LEMMA Remainder ==
  ASSUME NEW a \in Int, NEW d \in Nat \ {0}
  PROVE  /\ a % d \in Int /\ 0 <= a % d /\ a % d < d
         /\ a \div d \in Int /\ a = d * (a \div d) + (a % d)
OBVIOUS

\* Wrapped Miller indices are points.
LEMMA WrappedIsPoint ==
  ASSUME Dims, NEW n, \A i \in Axes : n[i] \in Int
  PROVE  miller_to_idx(n) \in Points
<1>1. \A i \in Axes : miller_to_idx(n)[i] \in Planes(i)
  <2>1. ASSUME NEW i \in Axes PROVE miller_to_idx(n)[i] \in Planes(i)
    <3>1. n[i] \in Int /\ dims[i] \in Nat \ {0}
      BY DEF Dims
    <3>2. n[i] % dims[i] \in Int /\ 0 <= n[i] % dims[i] /\ n[i] % dims[i] < dims[i]
      BY <3>1, Remainder
    <3> DEFINE r == n[i] % dims[i]
               d == dims[i]
    <3>3. r \in 0 .. d - 1
      <4>1. r \in Int /\ d \in Int /\ 0 <= r /\ r < d
        BY <3>1, <3>2
      <4> HIDE DEF r, d
      <4> QED BY <4>1
    <3> QED BY <3>3 DEF miller_to_idx, Planes
  <2> QED BY <2>1
<1>2. miller_to_idx(n) = <<miller_to_idx(n)[1], miller_to_idx(n)[2], miller_to_idx(n)[3]>>
  BY DEF miller_to_idx, Axes
<1> QED BY <1>1, <1>2 DEF Points, Axes

\* A point is a triple of indices, which unwrapping and wrapping give back.
LEMMA PointIndices ==
  ASSUME Dims, NEW p \in Points
  PROVE  /\ \A i \in Axes : p[i] \in Int /\ 0 <= p[i] /\ p[i] < dims[i]
         /\ \A i \in Axes : flat_to_miller(p)[i] \in Int
         /\ p = [i \in Axes |-> p[i]]
         /\ miller_to_idx(flat_to_miller(p)) = p
<1>1. p[1] \in Planes(1) /\ p[2] \in Planes(2) /\ p[3] \in Planes(3)
      /\ p = <<p[1], p[2], p[3]>>
  BY DEF Points
<1>2. \A i \in Axes : p[i] \in Planes(i)
  BY <1>1 DEF Axes
<1>3. ASSUME NEW i \in Axes
      PROVE  /\ p[i] \in Int /\ 0 <= p[i] /\ p[i] < dims[i]
             /\ flat_to_miller(p)[i] \in Int
             /\ flat_to_miller(p)[i] % dims[i] = p[i]
  <2> DEFINE x == p[i]
             d == dims[i]
             y == flat_to_miller(p)[i]
  <2>1. x \in 0 .. d - 1 /\ d \in Nat \ {0} /\ (y = x \/ y = x - d)
    BY <1>2 DEF Dims, Planes, flat_to_miller
  <2> HIDE DEF x, d, y
  <2>2. x = d * 0 + x /\ x - d = d * (-1) + x /\ x \in Int /\ 0 <= x /\ x < d
    BY <2>1
  <2>3. (d * 0 + x) % d = x /\ (d * (-1) + x) % d = x
    <3>1. 0 \in Int /\ -1 \in Int
      OBVIOUS
    <3> QED BY <2>1, <2>2, <3>1, ModUnique
  <2>4. y \in Int /\ y % d = x
    BY <2>1, <2>2, <2>3
  <2> QED BY <2>2, <2>4 DEF x, d, y
<1>4. p = [i \in Axes |-> p[i]]
  BY <1>1 DEF Axes
<1>5. miller_to_idx(flat_to_miller(p)) = [i \in Axes |-> p[i]]
  BY <1>3 DEF miller_to_idx
<1> QED BY <1>3, <1>4, <1>5

\* Same residue.
Alike(d, x, y) == x % d = y % d

\* Such numbers differ by whole periods.
LEMMA AlikeShift ==
  ASSUME NEW d \in Nat \ {0}, NEW x \in Int, NEW y \in Int
  PROVE  Alike(d, x, y) <=> \E t \in Int : x = y + d * t
<1>1. ASSUME Alike(d, x, y) PROVE \E t \in Int : x = y + d * t
  <2> DEFINE q == x \div d
             s == y \div d
             r == x % d
             t == q - s
  <2>1. q \in Int /\ s \in Int /\ r \in Int /\ x = d * q + r /\ y = d * s + r
    BY <1>1, Remainder DEF Alike
  <2> HIDE DEF q, s, r
  <2>2. t \in Int /\ x = y + d * t
    BY <2>1
  <2> QED BY <2>2
<1>2. ASSUME NEW t \in Int, x = y + d * t PROVE Alike(d, x, y)
  <2> DEFINE s == y \div d
             r == y % d
  <2>1. s \in Int /\ r \in Int /\ 0 <= r /\ r < d /\ y = d * s + r
    BY Remainder
  <2>2. r = y % d
    OBVIOUS
  <2> HIDE DEF s, r
  <2> DEFINE q == s + t
  <2>3. q \in Int /\ x = d * q + r
    BY <1>2, <2>1
  <2> HIDE DEF q
  <2>4. (d * q + r) % d = r
    BY <2>1, <2>3, ModUnique
  <2> QED BY <2>2, <2>3, <2>4 DEF Alike
<1> QED BY <1>1, <1>2

\* Miller indices wrap to the same point when they are alike on every axis.
LEMMA WrapAlike ==
  ASSUME NEW m, NEW n
  PROVE  miller_to_idx(m) = miller_to_idx(n) <=> \A i \in Axes : Alike(dims[i], m[i], n[i])
BY DEF miller_to_idx, Alike

\* Wrapping before taking the difference does not matter.
LEMMA WrapDifference ==
  ASSUME Dims, NEW g, NEW h, \A i \in Axes : g[i] \in Int /\ h[i] \in Int
  PROVE  miller_to_idx(Minus(miller_to_idx(g), miller_to_idx(h))) = miller_to_idx(Minus(g, h))
<1> DEFINE G == miller_to_idx(g)
           H == miller_to_idx(h)
<1>1. ASSUME NEW i \in Axes PROVE Alike(dims[i], Minus(G, H)[i], Minus(g, h)[i])
  <2> DEFINE d == dims[i]
             x == g[i]
             y == h[i]
             q == x \div d
             r == x % d
             s == y \div d
             t == y % d
  <2>1. d \in Nat \ {0} /\ x \in Int /\ y \in Int
    BY DEF Dims
  <2>2. /\ q \in Int /\ r \in Int /\ x = d * q + r
        /\ s \in Int /\ t \in Int /\ y = d * s + t
    <3> HIDE DEF d, x, y
    <3> QED BY <2>1, Remainder
  <2>3. Minus(G, H)[i] = r + (-t) /\ Minus(g, h)[i] = x + (-y)
    BY DEF Minus, Plus, Negated, miller_to_idx
  <2> HIDE DEF d, x, y, q, r, s, t
  <2> DEFINE a == r + (-t)
             b == x + (-y)
             u == s - q
  <2>4. u \in Int /\ a \in Int /\ b \in Int /\ a = b + d * u
    BY <2>1, <2>2
  <2> HIDE DEF a, b, u
  <2>5. Alike(d, a, b)
    BY <2>1, <2>4, AlikeShift
  <2> QED BY <2>3, <2>5 DEF a, b, d
<1> QED BY <1>1, WrapAlike

-----------------------------------------------------------------------------
(* The density of the state on a grid with room for its differences.       *)

\* Products of Gaussian integers.
LEMMA TimesGaussian ==
  ASSUME NEW a \in Gaussian, NEW b \in Gaussian
  PROVE  Times(a, b) \in Gaussian /\ Conj(a) \in Gaussian
<1> DEFINE p == a[1]  q == a[2]  r == b[1]  s == b[2]
           x == p * r - q * s
           y == p * s + q * r
           z == -q
<1>1. p \in Int /\ q \in Int /\ r \in Int /\ s \in Int
  BY DEF Gaussian
<1>2. Times(a, b) = <<x, y>> /\ Conj(a) = <<p, z>>
  BY DEF Times, Conj
<1> HIDE DEF p, q, r, s
<1>3. x \in Int /\ y \in Int /\ z \in Int
  BY <1>1
<1> HIDE DEF x, y, z
<1> QED BY <1>1, <1>2, <1>3 DEF Gaussian

\* Phases and amplitudes are Gaussian integers.
LEMMA PowersAreGaussian ==
  ASSUME NEW k \in Int
  PROVE  PowerOfI(k) \in Gaussian
<1>1. k % 4 \in 0 .. 3
  OBVIOUS
<1> DEFINE i == (k % 4) + 1
<1>2. i \in 1 .. 4
  BY <1>1
<1> HIDE DEF i
<1>3. PowerOfI(k) = <<<<1, 0>>, <<0, 1>>, <<-1, 0>>, <<0, -1>>>>[i]
  BY DEF PowerOfI, i
<1>4. i = 1 \/ i = 2 \/ i = 3 \/ i = 4
  BY <1>2
<1>5. PowerOfI(k) \in {<<1, 0>>, <<0, 1>>, <<-1, 0>>, <<0, -1>>}
  BY <1>3, <1>4
<1> QED BY <1>5 DEF Gaussian

\* So is the amplitude of any wave.
LEMMA WavesAreGaussian ==
  ASSUME InputInv, NEW g
  PROVE  wfn(g) \in Gaussian
<1>1. psi.power \in Int
  BY DEF InputInv
<1>2. <<1, 0>> \in Gaussian /\ Zero \in Gaussian
  BY DEF Gaussian, Zero
<1> QED BY <1>1, <1>2, PowersAreGaussian DEF wfn

\* A plane wave is a vector of integers, and so is a difference of two.
LEMMA WavesAreVectors ==
  ASSUME InputInv, NEW g \in Basis(cell), NEW h \in Basis(cell)
  PROVE  /\ g \in [Axes -> Int] /\ \A i \in Axes : g[i] \in Int
         /\ Minus(g, h) = [i \in Axes |-> g[i] - h[i]]
         /\ \A i \in Axes : Minus(g, h)[i] = g[i] - h[i] /\ Minus(g, h)[i] \in Int
<1>1. 1 \in Axes
  BY DEF Axes
<1>2. g \in [Axes -> Int] /\ h \in [Axes -> Int]
  BY <1>1, IndicesBounded DEF InputInv
<1>3. ASSUME NEW i \in Axes
      PROVE  g[i] \in Int /\ h[i] \in Int /\ Minus(g, h)[i] = g[i] - h[i]
  <2>1. g[i] \in Int /\ h[i] \in Int
    BY <1>2
  <2>2. Minus(g, h)[i] = g[i] + (-h[i])
    BY DEF Minus, Plus, Negated
  <2> QED BY <2>1, <2>2
<1>4. Minus(g, h) = [i \in Axes |-> Minus(g, h)[i]]
  BY DEF Minus, Plus
<1> QED BY <1>2, <1>3, <1>4

\* No two plane waves share a point.
LEMMA WavesApart ==
  ASSUME InputInv, Dims, Room, NEW g \in Basis(cell), NEW h \in Basis(cell),
         miller_to_idx(g) = miller_to_idx(h)
  PROVE  g = h
<1>1. /\ miller_to_idx(Minus(g, h)) = miller_to_idx(Minus(miller_to_idx(g), miller_to_idx(h)))
      /\ miller_to_idx(Minus(h, h)) = miller_to_idx(Minus(miller_to_idx(h), miller_to_idx(h)))
  BY WrapDifference, WavesAreVectors
<1>2. Minus(g, h) = Minus(h, h)
  BY <1>1 DEF Room
<1>3. ASSUME NEW i \in Axes PROVE g[i] = h[i]
  <2> DEFINE x == g[i]
             y == h[i]
  <2>1. x \in Int /\ y \in Int /\ Minus(g, h)[i] = x - y /\ Minus(h, h)[i] = y - y
    BY WavesAreVectors
  <2> HIDE DEF x, y
  <2>2. x - y = y - y
    BY <1>2, <2>1
  <2>3. x = y
    BY <2>1, <2>2
  <2> QED BY <2>3 DEF x, y
<1>4. g \in [Axes -> Int] /\ h \in [Axes -> Int]
  BY WavesAreVectors
<1> QED BY <1>3, <1>4

\* So the scatter puts each amplitude at its own point.
LEMMA AmplitudeAtPoint ==
  ASSUME InputInv, Dims, Room, NEW g \in Basis(cell)
  PROVE  psi_g(miller_to_idx(g)) = wfn(g)
<1> DEFINE here == {x \in Basis(cell) : miller_to_idx(x) = miller_to_idx(g)}
           last == CHOOSE x \in here : \A h \in here : h = x \/ Lexicographic(h, x)
<1>1. here = {g}
  BY WavesApart
<1>2. psi_g(miller_to_idx(g)) = wfn(last)
  BY DEF psi_g
<1> HIDE DEF here
<1>3. last = g
  BY <1>1
<1> QED BY <1>2, <1>3

\* A product of two amplitudes, at the point of their difference, is read back
\* at its Miller index.
LEMMA ProductsDoNotAlias ==
  ASSUME InputInv, Dims, Room, NEW p \in Points
  PROVE  compute_density[p] = TrueCoefficient(TrueDensity, flat_to_miller(p))
<1> DEFINE W == {psi.first, psi.second}
           P == {miller_to_idx(g) : g \in W}
           A == [g \in W |-> wfn(g)]
           B == [q \in P |-> psi_g(q)]
           D == [x \in W \X W |-> Minus(x[1], x[2])]
           E == [y \in P \X P |-> miller_to_idx(Minus(y[1], y[2]))]
           e == [x \in W \X W |-> <<miller_to_idx(x[1]), miller_to_idx(x[2])>>]
           n == flat_to_miller(p)
<1>1. W \subseteq Basis(cell)
  BY DEF InputInv
<1>2. \A g \in W : miller_to_idx(g) \in P /\ B[miller_to_idx(g)] = A[g]
  BY <1>1, AmplitudeAtPoint
<1>3. \A g \in W : A[g] \in Gaussian
  BY WavesAreGaussian
<1>4. ASSUME NEW x \in W \X W
      PROVE  /\ e[x] \in P \X P /\ e[x] = <<miller_to_idx(x[1]), miller_to_idx(x[2])>>
             /\ E[e[x]] = miller_to_idx(D[x])
             /\ flat_to_miller(miller_to_idx(D[x])) = D[x]
  <2> DEFINE g == x[1]
             h == x[2]
  <2>1. g \in W /\ h \in W /\ g \in Basis(cell) /\ h \in Basis(cell)
    BY <1>1
  <2>2. e[x] = <<miller_to_idx(g), miller_to_idx(h)>> /\ D[x] = Minus(g, h)
    OBVIOUS
  <2>3. E[<<miller_to_idx(g), miller_to_idx(h)>>]
          = miller_to_idx(Minus(miller_to_idx(g), miller_to_idx(h)))
    BY <1>2, <2>1
  <2> HIDE DEF g, h, D, E, e, P, W
  <2>4. miller_to_idx(Minus(miller_to_idx(g), miller_to_idx(h))) = miller_to_idx(Minus(g, h))
    BY <2>1, WrapDifference, WavesAreVectors
  <2>5. flat_to_miller(miller_to_idx(Minus(g, h))) = Minus(g, h)
    BY <2>1 DEF Room
  <2>6. e[x] \in P \X P
    <3>1. miller_to_idx(g) \in P /\ miller_to_idx(h) \in P
      BY <1>2, <2>1
    <3> HIDE DEF B
    <3> QED BY <2>2, <3>1
  <2> QED BY <2>2, <2>3, <2>4, <2>5, <2>6 DEF g, h
<1>5. ASSUME NEW y \in P \X P PROVE \E x \in W \X W : e[x] = y
  <2>1. PICK g \in W, h \in W : y = <<miller_to_idx(g), miller_to_idx(h)>>
    OBVIOUS
  <2>2. <<g, h>> \in W \X W /\ e[<<g, h>>] = y
    BY <2>1
  <2> QED BY <2>2
<1>6. ASSUME NEW x \in W \X W, NEW z \in W \X W, e[x] = e[z] PROVE x = z
  <2>1. /\ miller_to_idx(x[1]) = miller_to_idx(z[1])
        /\ miller_to_idx(x[2]) = miller_to_idx(z[2])
    <3> HIDE DEF e
    <3>1. /\ e[x] = <<miller_to_idx(x[1]), miller_to_idx(x[2])>>
          /\ e[z] = <<miller_to_idx(z[1]), miller_to_idx(z[2])>>
      BY <1>4
    <3>2. /\ e[x][1] = miller_to_idx(x[1]) /\ e[x][2] = miller_to_idx(x[2])
          /\ e[z][1] = miller_to_idx(z[1]) /\ e[z][2] = miller_to_idx(z[2])
      BY <3>1
    <3> QED BY <1>6, <3>2
  <2>2. x[1] \in W /\ x[2] \in W /\ z[1] \in W /\ z[2] \in W
        /\ x = <<x[1], x[2]>> /\ z = <<z[1], z[2]>>
    OBVIOUS
  <2>3. x[1] = z[1] /\ x[2] = z[2]
    BY <1>1, <2>1, <2>2, WavesApart
  <2> QED BY <2>2, <2>3
<1>7. /\ p = miller_to_idx(n)
      /\ compute_density[p] = IF p \in DOMAIN CircularCorrelation THEN CircularCorrelation[p]
                              ELSE Zero
  BY PointIndices DEF compute_density
<1>8. TrueDensity = Correlation(A, D) /\ CircularCorrelation = Correlation(B, E)
  BY DEF TrueDensity, CircularCorrelation
<1>9. /\ DOMAIN D = W \X W /\ DOMAIN E = P \X P
      /\ IsFiniteSet(W \X W)
  <2>1. IsFiniteSet({psi.first}) /\ IsFiniteSet({psi.second})
    BY FS_Singleton
  <2>2. W = {psi.first} \cup {psi.second}
    OBVIOUS
  <2>3. IsFiniteSet(W)
    <3> HIDE DEF W
    <3> QED BY <2>1, <2>2, FS_Union
  <2> HIDE DEF W
  <2> QED BY <2>3, FS_Product
<1>10. DOMAIN Correlation(A, D) = {D[x] : x \in W \X W}
       /\ DOMAIN Correlation(B, E) = {E[y] : y \in P \X P}
  BY DEF Correlation
<1>11. p \in DOMAIN Correlation(B, E) <=> n \in DOMAIN Correlation(A, D)
  <2> HIDE DEF D, E, e, W, P
  <2>1. ASSUME NEW y \in P \X P, p = E[y] PROVE n \in {D[x] : x \in W \X W}
    <3>1. PICK x \in W \X W : e[x] = y
      BY <1>5
    <3> QED BY <1>4, <2>1, <3>1
  <2>2. ASSUME NEW x \in W \X W, n = D[x] PROVE p \in {E[y] : y \in P \X P}
    BY <1>4, <1>7, <2>2
  <2> QED BY <1>10, <2>1, <2>2
<1>12. CASE n \in DOMAIN Correlation(A, D)
  <2> DEFINE S == {x \in W \X W : D[x] = n}
             T == {y \in P \X P : E[y] = p}
             f == [x \in S |-> Times(A[x[1]], Conj(A[x[2]]))]
             g == [y \in T |-> Times(B[y[1]], Conj(B[y[2]]))]
             r == [x \in S |-> e[x]]
  <2>1. Correlation(A, D)[n] = Total(f) /\ Correlation(B, E)[p] = Total(g)
    <3> HIDE DEF A, B, W, P
    <3>1. n \in {D[x] : x \in DOMAIN D} /\ p \in {E[y] : y \in DOMAIN E}
      BY <1>9, <1>10, <1>11, <1>12
    <3> HIDE DEF D, E, n
    <3>2. /\ S = {x \in DOMAIN D : D[x] = n} /\ T = {y \in DOMAIN E : E[y] = p}
      BY <1>9
    <3> HIDE DEF S, T
    <3> QED BY <3>1, <3>2 DEF Correlation
  <2>2. S \subseteq W \X W /\ \A x \in S : x \in W \X W /\ D[x] = n
    OBVIOUS
  <2>3. \A x \in W \X W : x[1] \in W /\ x[2] \in W
    OBVIOUS
  <2>4. ASSUME NEW x \in S
        PROVE  /\ f[x] \in Gaussian /\ e[x] \in T /\ r[x] = e[x]
               /\ g[r[x]] = f[x]
    <3>1. x[1] \in W /\ x[2] \in W /\ x \in W \X W /\ D[x] = n
      BY <2>2, <2>3
    <3>2. f[x] = Times(A[x[1]], Conj(A[x[2]])) /\ r[x] = e[x]
      OBVIOUS
    <3>3. f[x] \in Gaussian
      <4> HIDE DEF A, f, W
      <4> QED BY <1>3, <3>1, <3>2, TimesGaussian
    <3>4. e[x] \in T
      <4> HIDE DEF e, E, D, W, P
      <4> QED BY <1>4, <1>7, <3>1
    <3>5. g[e[x]] = Times(B[e[x][1]], Conj(B[e[x][2]]))
      BY <3>4
    <3>6. e[x][1] = miller_to_idx(x[1]) /\ e[x][2] = miller_to_idx(x[2])
      BY <3>1
    <3> HIDE DEF A, B, f, g, e, S, T, r
    <3> QED BY <1>2, <3>1, <3>2, <3>3, <3>4, <3>5, <3>6
  <2>5. ASSUME NEW y \in T PROVE \E x \in S : r[x] = y
    <3> HIDE DEF D, E, e, W, P
    <3>1. y \in P \X P /\ E[y] = p
      OBVIOUS
    <3>2. PICK x \in W \X W : e[x] = y
      BY <1>5, <3>1
    <3>3. D[x] = n
      BY <1>4, <3>1, <3>2
    <3> QED BY <3>2, <3>3
  <2>6. \A x, z \in S : r[x] = r[z] => x = z
    <3> HIDE DEF e, W
    <3> QED BY <1>6
  <2>7. r \in [S -> T] /\ DOMAIN r = S /\ DOMAIN f = S /\ DOMAIN g = T
    <3>1. \A x \in S : r[x] \in T
      BY <2>4
    <3> QED BY <3>1
  <2>8. IsFiniteSet(S)
    <3> HIDE DEF S, W
    <3> QED BY <1>9, <2>2, FS_Subset
  <2> HIDE DEF S, T, f, g, r
  <2>9. r \in Bijection(S, T)
    BY <2>5, <2>6, <2>7 DEF Bijection, Injection, Surjection, IsInjective
  <2>10. Total(g) = Total(f)
    <3>1. \A x \in S : f[x] \in Gaussian /\ g[r[x]] = f[x]
      BY <2>4
    <3> QED BY <2>7, <2>8, <2>9, <3>1, TotalRenamed
  <2> HIDE DEF A, B, D, E, n
  <2> QED BY <1>7, <1>8, <1>11, <1>12, <2>1, <2>10 DEF TrueCoefficient, n
<1>13. CASE n \notin DOMAIN Correlation(A, D)
  <2> HIDE DEF A, B, D, E, n
  <2> QED BY <1>7, <1>8, <1>11, <1>13 DEF TrueCoefficient, n
<1> QED BY <1>12, <1>13

\* What is symmetrized is the density of the state.
Built == pc \in {"symmetrize", "accumulate", "done"} => rho_g = compute_density

BInv == GridInv /\ Built

\* The density depends on the input and the grid alone.
LEMMA DensityAsBefore ==
  ASSUME UNCHANGED <<input, dims>>
  PROVE  compute_density' = compute_density
<1>1. UNCHANGED <<cell, psi, dims>>
  BY DEF input
<1>2. \A n : miller_to_idx(n)' = miller_to_idx(n)
  BY <1>1 DEF miller_to_idx
<1>3. Points' = Points
  BY <1>1 DEF Points, Planes
<1>4. \A g : wfn(g)' = wfn(g)
  BY <1>1 DEF wfn
<1>5. \A p : psi_g(p)' = psi_g(p)
  BY <1>1 DEF psi_g, wfn, miller_to_idx
<1>6. CircularCorrelation' = CircularCorrelation
  BY <1>1 DEF CircularCorrelation, psi_g, wfn, miller_to_idx
<1> QED BY <1>3, <1>6 DEF compute_density

\* It holds initially.
LEMMA BInvInit == Init => BInv
BY GridInvInit DEF Init, BInv, Built

\* Only BuildDensity makes the density.
LEMMA BInvNext == BInv /\ [Next]_vars => BInv'
<1> SUFFICES ASSUME BInv, [Next]_vars PROVE BInv'
  OBVIOUS
<1>1. GridInv'
  BY GridInvNext DEF BInv
<1>2. CASE StartGrid \/ TrySize \/ CheckGrid
  BY <1>1, <1>2 DEF BInv, Built, StartGrid, TrySize, CheckGrid
<1>3. CASE BuildDensity
  <2>1. rho_g' = compute_density /\ UNCHANGED <<input, dims>>
    BY <1>3 DEF BuildDensity
  <2> QED BY <1>1, <2>1, DensityAsBefore DEF BInv, Built
<1>4. CASE SkipSymmetry \/ StartSymmetry \/ TakeRealPart \/ UNCHANGED vars
            \/ \E ix \in Planes(1) : SymmetrizeSlab(ix)
  <2>1. /\ UNCHANGED <<input, dims, rho_g>>
        /\ pc' \in {"symmetrize", "accumulate", "done"} => pc \in {"symmetrize", "accumulate", "done"}
    BY <1>4 DEF SkipSymmetry, StartSymmetry, TakeRealPart, SymmetrizeSlab, vars
  <2> QED BY <1>1, <2>1, DensityAsBefore DEF BInv, Built
<1> QED BY <1>2, <1>3, <1>4 DEF Next

\* |psi|^2 has no coefficient that wraps onto another's point, on every grid
\* the code chooses at a ratio of 2 or more (scf/grid.rs:142): the scatter of
\* the wave, the products and the wrapped differences together give, point by
\* point, the coefficients of the unwrapped density, whatever the cell, cutoff
\* and state.
THEOREM NothingAliases == Spec => []DefaultGridDoesNotAlias
<1>1. BInv /\ DifferencesSurvive => DefaultGridDoesNotAlias
  <2> SUFFICES ASSUME BInv, DifferencesSurvive, pc = "done", fft_grid = None,
                      ecutrho_ratio >= 2, NEW p \in Points
               PROVE  rho_g[p] = TrueCoefficient(TrueDensity, flat_to_miller(p))
    BY DEF DefaultGridDoesNotAlias
  <2>1. InputInv /\ Dims /\ Room /\ rho_g = compute_density
    BY DEF BInv, Built, GridInv, DimsInv, Dims, DifferencesSurvive
  <2> QED BY <2>1, ProductsDoNotAlias
<1>2. Spec => []BInv
  BY BInvInit, BInvNext, PTL DEF Spec
<1> QED BY <1>1, <1>2, DefaultGridHasRoom, PTL

-----------------------------------------------------------------------------
(* Cells, and lengths of reciprocal lattice vectors.                       *)

\* The cell of a run, in the terms of SpaceGroupProofs.
LEMMA CellIsCrystal ==
  ASSUME InputInv
  PROVE  /\ IsCrystal(cell) /\ IsMetric(cell.metric)
         /\ Det(cell.metric) \in Nat \ {0} /\ cell.cutoff \in Nat \ {0}
         /\ \A i \in Axes : cell.metric[i][i] \in Nat \ {0}
                            /\ Cofactor(cell.metric, i, i) > 0
         /\ AreDetected(operations, cell)
         /\ \A n : NormSquared(cell, n) = DotMetric(n, n, Adjugate(cell.metric))
<1>1. cell \in Cells
  BY DEF InputInv
<1>2. /\ cell.metric \in [Axes -> [Axes -> Int]]
      /\ \A i, j \in Axes : cell.metric[i][j] = cell.metric[j][i]
      /\ \A i \in Axes : cell.metric[i][i] > 0
      /\ \A i \in Axes : Cofactor(cell.metric, i, i) \in Nat \ {0}
      /\ Det(cell.metric) > 0
      /\ cell.atoms \in Seq([z : Nat, position : [Axes -> Int]])
      /\ cell.cutoff \in Nat \ {0}
  BY <1>1, DensityAssumption DEF DensityAssumption
<1>3. IsMetric(cell.metric) /\ IsCrystal(cell)
  BY <1>2 DEF IsMetric, IsCrystal, Atom
<1>4. Det(cell.metric) \in Int
  <2>1. IsVector([i \in Axes |-> 0])
    BY DEF IsVector
  <2> QED BY <1>3, <2>1, AdjugateInverts
<1>5. \A i \in Axes : cell.metric[i][i] \in Nat \ {0} /\ Cofactor(cell.metric, i, i) > 0
  BY <1>2
<1>6. AreDetected(operations, cell)
  BY DEF AreDetected, InputInv
<1>7. \A n : NormSquared(cell, n) = DotMetric(n, n, Adjugate(cell.metric))
  BY DEF NormSquared, Adjugate
<1> QED BY <1>2, <1>3, <1>4, <1>5, <1>6, <1>7

\* A square bounds its root.
LEMMA RootBound ==
  ASSUME NEW x \in Int, NEW D \in Nat \ {0}, NEW b \in Int, x * x * D <= b
  PROVE  x \in -b .. b
<1> DEFINE s == x * x
<1>1. s \in Nat /\ x <= s /\ -x <= s
  OBVIOUS
<1>2. s * D <= b
  OBVIOUS
<1> HIDE DEF s
<1>3. s <= s * D
  BY <1>1
<1>4. s * D \in Int
  BY <1>1
<1> QED BY <1>1, <1>2, <1>3, <1>4

\* A triple of integers, written as a function of the axes.
LEMMA Triples ==
  ASSUME NEW n \in [Axes -> Int], NEW A, NEW B, NEW C
  PROVE  n \in A \X B \X C <=> n[1] \in A /\ n[2] \in B /\ n[3] \in C
<1>1. n = <<n[1], n[2], n[3]>>
  BY DEF Axes
<1> QED BY <1>1

\* Rotations of the cell take the cutoff sphere onto itself.
LEMMA SphereIsRound ==
  ASSUME InputInv, BasisIsCutoffSphere, NEW r, IsRotation(r, cell.metric), NEW g \in Basis(cell)
  PROVE  Apply(Transpose(r), g) \in Basis(cell)
<1> DEFINE m == cell.metric
           c == cell.cutoff
           u == Apply(Transpose(r), g)
           bound(i) == c * m[i][i]
           range(i) == {n \in -bound(i) .. bound(i) : n * n * Det(m) <= bound(i)}
           N == DotMetric(u, u, Adjugate(m))
<1>1. /\ IsMetric(m) /\ Det(m) \in Nat \ {0} /\ c \in Nat \ {0}
      /\ \A i \in Axes : m[i][i] \in Nat \ {0} /\ Cofactor(m, i, i) > 0
      /\ \A n : NormSquared(cell, n) = DotMetric(n, n, Adjugate(m))
  BY CellIsCrystal
<1>2. g \in [Axes -> Int] /\ IsVector(g)
  BY WavesAreVectors DEF IsVector
<1>3. /\ IsMatrix(r) /\ IsMatrix(Transpose(r))
      /\ IsVector(u) /\ u \in [Axes -> Int]
  <2>1. IsMatrix(r) /\ IsMatrix(Transpose(r))
    BY DetOfTranspose DEF IsRotation, IsUnimodular
  <2>2. IsVector(u)
    BY <1>2, <2>1, ApplyIsVector
  <2>3. u = [i \in Axes |-> u[i]]
    BY DEF Apply
  <2> HIDE DEF u
  <2>4. \A i \in Axes : u[i] \in Int
    BY <2>2 DEF IsVector
  <2> QED BY <2>1, <2>2, <2>3, <2>4
<1>4. /\ Basis(cell) = CutoffSphere(cell)
      /\ CutoffSphere(cell) = {n \in range(1) \X range(2) \X range(3) : NormSquared(cell, n) <= c}
  BY DEF BasisIsCutoffSphere, CutoffSphere
<1>5. N = DotMetric(g, g, Adjugate(m)) /\ N \in Int
  <2> HIDE DEF m
  <2>1. LET v == Apply(Transpose(r), g)
        IN  DotMetric(v, v, Adjugate(m)) = DotMetric(g, g, Adjugate(m))
    BY <1>1, <1>2, ReciprocalLength DEF m
  <2>2. DotMetric(g, g, Adjugate(m)) \in Int
    BY <1>1, <1>2, DotOfImage
  <2> QED BY <2>1, <2>2
<1>6. N <= c
  <2> HIDE DEF range, m, c, N
  <2>1. NormSquared(cell, g) <= c
    BY <1>4
  <2> QED BY <1>1, <1>5, <2>1
<1>7. ASSUME NEW i \in Axes PROVE u[i] \in range(i)
  <2> DEFINE x == u[i]
             w == m[i][i]
  <2>1. x * x * Det(m) <= w * N
    <3> HIDE DEF u
    <3> QED BY <1>1, <1>3, ReciprocalBound
  <2>2. x \in Int /\ w \in Nat \ {0} /\ bound(i) = c * w
    <3> HIDE DEF u, m, c
    <3> QED BY <1>1, <1>3
  <2> HIDE DEF x, w, N, m, c, u
  <2>3. w * N <= c * w /\ w * N \in Int /\ c * w \in Int
    BY <1>1, <1>5, <1>6, <2>2
  <2>4. x * x * Det(m) \in Int
    BY <1>1, <2>2
  <2>5. x * x * Det(m) <= c * w
    BY <2>1, <2>3, <2>4
  <2>6. x \in -(c * w) .. c * w
    BY <1>1, <2>2, <2>3, <2>5, RootBound
  <2> QED BY <2>2, <2>5, <2>6 DEF x
<1> HIDE DEF range, u, N
<1>8. u \in range(1) \X range(2) \X range(3)
  <2>1. 1 \in Axes /\ 2 \in Axes /\ 3 \in Axes
    BY DEF Axes
  <2>2. u[1] \in range(1) /\ u[2] \in range(2) /\ u[3] \in range(3)
    BY <1>7, <2>1
  <2> QED BY <1>3, <2>2, Triples
<1>9. NormSquared(cell, u) <= c
  BY <1>1, <1>6 DEF N
<1> QED BY <1>4, <1>8, <1>9 DEF u

-----------------------------------------------------------------------------
(* The differences of two plane waves.                                     *)

IsDifference(n) == \E g, h \in Basis(cell) : n = Minus(g, h)

\* Vectors of integers agree if their components do.
LEMMA VectorEqual ==
  ASSUME NEW a \in [Axes -> Int], NEW b \in [Axes -> Int], \A i \in Axes : a[i] = b[i]
  PROVE  a = b
OBVIOUS

\* What the operators make of a vector is one.
LEMMA VectorOperators ==
  ASSUME NEW n \in [Axes -> Int]
  PROVE  /\ IsVector(n) /\ Negated(n) \in [Axes -> Int]
         /\ \A i \in Axes : Negated(n)[i] = -n[i] /\ n[i] \in Int
         /\ \A r : IsMatrix(r) => Apply(r, n) \in [Axes -> Int] /\ IsVector(Apply(r, n))
<1>1. IsVector(n) /\ \A i \in Axes : n[i] \in Int
  BY DEF IsVector
<1>2. Negated(n) \in [Axes -> Int] /\ \A i \in Axes : Negated(n)[i] = -n[i]
  BY <1>1 DEF Negated
<1>3. ASSUME NEW r, IsMatrix(r)
      PROVE  Apply(r, n) \in [Axes -> Int] /\ IsVector(Apply(r, n))
  <2>1. IsVector(Apply(r, n))
    BY <1>1, <1>3, ApplyIsVector
  <2>2. Apply(r, n) = [i \in Axes |-> Apply(r, n)[i]]
    BY DEF Apply
  <2>3. \A i \in Axes : Apply(r, n)[i] \in Int
    BY <2>1 DEF IsVector
  <2> HIDE DEF Apply
  <2> QED BY <2>1, <2>2, <2>3
<1> QED BY <1>1, <1>2, <1>3

\* A difference is a vector, and so is its negative a difference.
LEMMA DifferencesNegate ==
  ASSUME InputInv, NEW n, IsDifference(n)
  PROVE  n \in [Axes -> Int] /\ IsDifference(Negated(n))
<1>1. PICK g \in Basis(cell), h \in Basis(cell) : n = Minus(g, h)
  BY DEF IsDifference
<1>2. /\ Minus(g, h) = [i \in Axes |-> g[i] - h[i]]
      /\ Minus(h, g) = [i \in Axes |-> h[i] - g[i]]
      /\ \A i \in Axes : g[i] \in Int /\ h[i] \in Int
  BY WavesAreVectors
<1>3. n \in [Axes -> Int] /\ Minus(h, g) \in [Axes -> Int]
  BY <1>1, <1>2
<1>4. \A i \in Axes : Negated(n)[i] = Minus(h, g)[i]
  BY <1>1, <1>2 DEF Negated
<1>5. Negated(n) \in [Axes -> Int]
  BY <1>3, VectorOperators
<1>6. Negated(n) = Minus(h, g)
  BY <1>3, <1>4, <1>5, VectorEqual
<1> QED BY <1>3, <1>6 DEF IsDifference

\* Rotations of the cell take differences to differences.
LEMMA DifferencesRotate ==
  ASSUME InputInv, BasisIsCutoffSphere, NEW r, IsRotation(r, cell.metric),
         NEW n, IsDifference(n)
  PROVE  IsDifference(Apply(Transpose(r), n))
<1> DEFINE t == Transpose(r)
<1>1. PICK g \in Basis(cell), h \in Basis(cell) : n = Minus(g, h)
  BY DEF IsDifference
<1>2. /\ g \in [Axes -> Int] /\ h \in [Axes -> Int]
      /\ Minus(g, h) = Plus(g, Negated(h))
  BY WavesAreVectors DEF Minus
<1>3. IsMatrix(t)
  BY DetOfTranspose DEF IsRotation, IsUnimodular
<1>4. Apply(t, g) \in Basis(cell) /\ Apply(t, h) \in Basis(cell)
  BY SphereIsRound
<1>5. n \in [Axes -> Int]
  BY DifferencesNegate
<1> HIDE DEF t
<1>6. /\ Apply(t, n) \in [Axes -> Int] /\ IsVector(g) /\ IsVector(h) /\ IsVector(Negated(h))
      /\ Apply(t, g) \in [Axes -> Int] /\ Apply(t, h) \in [Axes -> Int]
  BY <1>2, <1>3, <1>5, VectorOperators
<1>7. /\ Minus(Apply(t, g), Apply(t, h)) = [i \in Axes |-> Apply(t, g)[i] - Apply(t, h)[i]]
  BY <1>4, WavesAreVectors
<1>8. ASSUME NEW i \in Axes PROVE Apply(t, n)[i] = Apply(t, g)[i] - Apply(t, h)[i]
  <2>1. Apply(t, Plus(g, Negated(h)))[i] = Apply(t, g)[i] + Apply(t, Negated(h))[i]
    BY <1>3, <1>6, ApplyIsLinear
  <2>2. /\ Apply(t, Negated(h))[i] = - Apply(t, h)[i]
        /\ Apply(t, g)[i] \in Int /\ Apply(t, h)[i] \in Int
    BY <1>3, <1>6, ApplyIsLinear
  <2> QED BY <1>1, <1>2, <2>1, <2>2
<1> DEFINE L == Apply(t, n)
           G == Apply(t, g)
           H == Apply(t, h)
<1> HIDE DEF L, G, H
<1>9. L = Minus(G, H)
  <2>1. \A i \in Axes : L[i] = G[i] - H[i]
    BY <1>8 DEF L, G, H
  <2>2. L = [i \in Axes |-> L[i]]
    BY <1>6 DEF L
  <2>3. Minus(G, H) = [i \in Axes |-> G[i] - H[i]]
    BY <1>7 DEF G, H
  <2> QED BY <2>1, <2>2, <2>3
<1> QED BY <1>4, <1>9 DEF IsDifference, L, G, H, t

\* The transpose of a rotation is undone by that of its inverse.
LEMMA TransposeUndoes ==
  ASSUME NEW r \in Matrix, IsUnimodular(r), NEW f \in [Axes -> Int]
  PROVE  /\ Apply(Transpose(InverseRotation(r)), Apply(Transpose(r), f)) = f
         /\ Apply(Transpose(r), Apply(Transpose(InverseRotation(r)), f)) = f
<1> DEFINE s == InverseRotation(r)
<1>1. IsUnimodular(s) /\ InverseRotation(s) = r
  BY InverseIsUnimodular, InverseOnLeft
<1>2. IsMatrix(r) /\ IsMatrix(s) /\ IsMatrix(Transpose(r)) /\ IsMatrix(Transpose(s))
  BY <1>1, DetOfTranspose DEF IsUnimodular
<1>3. InverseTranspose(s) = Transpose(r) /\ InverseTranspose(r) = Transpose(s)
  BY <1>1 DEF InverseTranspose
<1>4. IsVector(f)
  BY VectorOperators
<1> HIDE DEF s
<1>5. \A i \in Axes : Apply(Transpose(s), Apply(Transpose(r), f))[i] = f[i]
  <2>1. IsUnimodular(InverseRotation(s)) /\ InverseRotation(s) = r
    BY <1>1
  <2>2. \A i \in Axes : Apply(InverseTranspose(InverseRotation(s)), Apply(InverseTranspose(s), f))[i] = f[i]
    BY <1>1, <1>2, <1>4, InverseUndoes
  <2> QED BY <1>1, <1>3, <2>2
<1>6. \A i \in Axes : Apply(Transpose(r), Apply(Transpose(s), f))[i] = f[i]
  <2>1. IsUnimodular(InverseRotation(r)) /\ InverseRotation(r) = s
    BY <1>1 DEF s
  <2>2. \A i \in Axes : Apply(InverseTranspose(InverseRotation(r)), Apply(InverseTranspose(r), f))[i] = f[i]
    BY <1>2, <1>4, <2>1, InverseUndoes
  <2> QED BY <1>3, <2>1, <2>2
<1>7. /\ Apply(Transpose(s), Apply(Transpose(r), f)) \in [Axes -> Int]
      /\ Apply(Transpose(r), Apply(Transpose(s), f)) \in [Axes -> Int]
  BY <1>2, VectorOperators
<1> QED BY <1>5, <1>6, <1>7, VectorEqual DEF s

-----------------------------------------------------------------------------
(* The unwrapped density.                                                  *)

Unwrapped(n) == TrueCoefficient(TrueDensity, n)

\* With room for them, differences survive wrapping.
LEMMA CoversIsRoom ==
  ASSUME InputInv, Dims, Covers
  PROVE  /\ Room
         /\ \A n : IsDifference(n) => flat_to_miller(miller_to_idx(n)) = n
<1>1. ASSUME NEW g \in Basis(cell), NEW h \in Basis(cell)
      PROVE  flat_to_miller(miller_to_idx(Minus(g, h))) = Minus(g, h)
  <2> DEFINE D == Minus(g, h)
  <2>1. D = [i \in Axes |-> g[i] - h[i]] /\ \A i \in Axes : D[i] = g[i] - h[i] /\ D[i] \in Int
    BY WavesAreVectors
  <2>2. ASSUME NEW i \in Axes
        PROVE  (IF D[i] % dims[i] > dims[i] \div 2 THEN (D[i] % dims[i]) - dims[i]
                ELSE D[i] % dims[i]) = D[i]
    <3> DEFINE d == dims[i]
               m == n_max(i)
               x == g[i]
               y == h[i]
    <3>1. /\ m \in Nat /\ x \in Int /\ y \in Int /\ d \in Nat \ {0}
          /\ x <= m /\ -x <= m /\ y <= m /\ -y <= m
      BY IndicesBounded, WavesAreVectors DEF InputInv, Dims
    <3>2. d > 4 * m
      BY DEF Covers
    <3>3. D[i] = x - y
      BY <2>1
    <3> HIDE DEF D, d, m, x, y
    <3>4. 2 * D[i] < d /\ 2 * (-D[i]) < d /\ D[i] \in Int
      BY <3>1, <3>2, <3>3
    <3> QED BY <3>1, <3>4, IndexSurvives DEF d
  <2>3. flat_to_miller(miller_to_idx(D)) = [i \in Axes |-> D[i]]
    <3> HIDE DEF D
    <3> QED BY <2>2 DEF flat_to_miller, miller_to_idx
  <2>4. D = [i \in Axes |-> D[i]]
    BY <2>1
  <2> HIDE DEF D
  <2> QED BY <2>3, <2>4 DEF D
<1> QED BY <1>1 DEF Room, IsDifference

\* A sum of Gaussian integers is one.
LEMMA TotalIsGaussian ==
  ASSUME NEW S, IsFiniteSet(S), NEW f, DOMAIN f = S, \A x \in S : f[x] \in Gaussian
  PROVE  Total(f) \in Gaussian
<1> DEFINE a == [x \in S |-> f[x][1]]
           b == [x \in S |-> f[x][2]]
<1>1. \A x \in S : a[x] = f[x][1] /\ b[x] = f[x][2]
  OBVIOUS
<1>2. \A x \in S : a[x] \in Int /\ b[x] \in Int
  BY DEF Gaussian
<1> HIDE DEF a, b
<1>3. Total(f) = <<SumFunctionOnSet(a, S), SumFunctionOnSet(b, S)>>
  BY <1>1, TotalIsSum
<1>4. SumFunctionOnSet(a, S) \in Int /\ SumFunctionOnSet(b, S) \in Int
  BY <1>2, SumRemove DEF IntegersOn
<1> QED BY <1>3, <1>4 DEF Gaussian

\* Sums of equal terms.
LEMMA TotalEqual ==
  ASSUME NEW S, NEW f, NEW g, DOMAIN f = S, DOMAIN g = S, \A x \in S : f[x] = g[x]
  PROVE  Total(f) = Total(g)
<1> DEFINE T == {x \in S : f[x] # Zero}
           U == {x \in S : g[x] # Zero}
<1>1. T = U
  OBVIOUS
<1>2. [x \in T |-> f[x][1]] = [x \in U |-> g[x][1]] /\ [x \in T |-> f[x][2]] = [x \in U |-> g[x][2]]
  BY <1>1
<1>3. /\ Total(f) = <<SumFunctionOnSet([x \in T |-> f[x][1]], T), SumFunctionOnSet([x \in T |-> f[x][2]], T)>>
      /\ Total(g) = <<SumFunctionOnSet([x \in U |-> g[x][1]], U), SumFunctionOnSet([x \in U |-> g[x][2]], U)>>
  BY DEF Total
<1> HIDE DEF T, U
<1> QED BY <1>1, <1>2, <1>3

\* A sum of zeros.
LEMMA TotalOfZeros ==
  ASSUME NEW S, NEW f, DOMAIN f = S, \A x \in S : f[x] = Zero
  PROVE  Total(f) = Zero
<1>1. {x \in DOMAIN f : f[x] # Zero} = {}
  OBVIOUS
<1>2. /\ SumFunctionOnSet([x \in {} |-> f[x][1]], {}) = 0
      /\ SumFunctionOnSet([x \in {} |-> f[x][2]], {}) = 0
  BY SumEmpty
<1>3. Total(f) = <<SumFunctionOnSet([x \in {} |-> f[x][1]], {}),
                   SumFunctionOnSet([x \in {} |-> f[x][2]], {})>>
  BY <1>1 DEF Total
<1> QED BY <1>2, <1>3 DEF Zero

\* The conjugate of a sum.
LEMMA TotalConj ==
  ASSUME NEW S, IsFiniteSet(S), NEW f, DOMAIN f = S, \A x \in S : f[x] \in Gaussian,
         NEW g, DOMAIN g = S, \A x \in S : g[x] = Conj(f[x])
  PROVE  Total(g) = Conj(Total(f))
<1> DEFINE a == [x \in S |-> f[x][1]]
           b == [x \in S |-> f[x][2]]
           c == [x \in S |-> g[x][2]]
<1>1. \A x \in S : a[x] = f[x][1] /\ b[x] = f[x][2] /\ c[x] = g[x][2]
  OBVIOUS
<1>2. \A x \in S : f[x][1] \in Int /\ f[x][2] \in Int
  BY DEF Gaussian
<1>3. \A x \in S : g[x] = <<f[x][1], -f[x][2]>>
  BY DEF Conj
<1>4. \A x \in S : g[x] \in Gaussian /\ g[x][1] = a[x] /\ g[x][2] = -b[x]
  BY <1>1, <1>2, <1>3 DEF Gaussian
<1> HIDE DEF a, b, c
<1>5. /\ Total(f) = <<SumFunctionOnSet(a, S), SumFunctionOnSet(b, S)>>
      /\ Total(g) = <<SumFunctionOnSet(a, S), SumFunctionOnSet(c, S)>>
  <2>4. \A x \in S : a[x] = f[x][1] /\ b[x] = f[x][2]
    BY <1>1
  <2>1. Total(f) = <<SumFunctionOnSet(a, S), SumFunctionOnSet(b, S)>>
    BY <2>4, TotalIsSum
  <2>2. \A x \in S : g[x] \in Gaussian /\ a[x] = g[x][1] /\ c[x] = g[x][2]
    BY <1>1, <1>4
  <2>3. Total(g) = <<SumFunctionOnSet(a, S), SumFunctionOnSet(c, S)>>
    BY <2>2, TotalIsSum
  <2> QED BY <2>1, <2>3
<1>6. /\ IntegersOn(b, S)
      /\ \A x \in S : c[x] = (-1) * b[x]
  BY <1>1, <1>2, <1>4 DEF IntegersOn
<1>7. SumFunctionOnSet(c, S) = (-1) * SumFunctionOnSet(b, S) /\ SumFunctionOnSet(b, S) \in Int
  BY <1>6, SumOfMultiples, SumRemove
<1>8. SumFunctionOnSet(c, S) = - SumFunctionOnSet(b, S)
  BY <1>7
<1> QED BY <1>5, <1>8 DEF Conj

\* A factor comes out of the sum.
LEMMA TotalTimes ==
  ASSUME NEW S, IsFiniteSet(S), NEW f, DOMAIN f = S, \A x \in S : f[x] \in Gaussian,
         NEW z \in Gaussian, NEW g, DOMAIN g = S, \A x \in S : g[x] = Times(z, f[x])
  PROVE  Total(g) = Times(z, Total(f))
<1> DEFINE a == [x \in S |-> f[x][1]]
           b == [x \in S |-> f[x][2]]
           c == [x \in S |-> g[x][1]]
           d == [x \in S |-> g[x][2]]
           p == z[1]
           q == z[2]
           pa == [x \in S |-> p * a[x]]
           qb == [x \in S |-> (-q) * b[x]]
           pb == [x \in S |-> p * b[x]]
           qa == [x \in S |-> q * a[x]]
<1>1. /\ \A x \in S : a[x] = f[x][1] /\ b[x] = f[x][2] /\ c[x] = g[x][1] /\ d[x] = g[x][2]
      /\ p \in Int /\ q \in Int /\ -q \in Int
  BY DEF Gaussian
<1>2. \A x \in S : a[x] \in Int /\ b[x] \in Int
  BY <1>1 DEF Gaussian
<1>3. \A x \in S : /\ pa[x] = p * a[x] /\ qb[x] = (-q) * b[x]
                   /\ pb[x] = p * b[x] /\ qa[x] = q * a[x]
  OBVIOUS
<1>4. \A x \in S : g[x] = <<p * a[x] - q * b[x], p * b[x] + q * a[x]>>
  BY <1>1 DEF Times
<1> HIDE DEF a, b, c, d, p, q, pa, pb, qa, qb
<1>5. \A x \in S : /\ pa[x] \in Int /\ pb[x] \in Int /\ qa[x] \in Int /\ qb[x] \in Int
                   /\ c[x] = pa[x] + qb[x] /\ d[x] = pb[x] + qa[x]
  BY <1>1, <1>2, <1>3, <1>4
<1>6. \A x \in S : g[x] \in Gaussian
  <2> TAKE x \in S
  <2>1. p * a[x] - q * b[x] \in Int /\ p * b[x] + q * a[x] \in Int
    BY <1>1, <1>2
  <2> QED BY <1>4, <2>1 DEF Gaussian
<1>7. /\ Total(f) = <<SumFunctionOnSet(a, S), SumFunctionOnSet(b, S)>>
      /\ Total(g) = <<SumFunctionOnSet(c, S), SumFunctionOnSet(d, S)>>
  <2>1. \A x \in S : a[x] = f[x][1] /\ b[x] = f[x][2]
    BY <1>1
  <2>2. \A x \in S : c[x] = g[x][1] /\ d[x] = g[x][2]
    BY <1>1
  <2>3. Total(f) = <<SumFunctionOnSet(a, S), SumFunctionOnSet(b, S)>>
    BY <2>1, TotalIsSum
  <2>4. Total(g) = <<SumFunctionOnSet(c, S), SumFunctionOnSet(d, S)>>
    BY <1>6, <2>2, TotalIsSum
  <2> QED BY <2>3, <2>4
<1>8. /\ IntegersOn(a, S) /\ IntegersOn(b, S)
      /\ IntegersOn(pa, S) /\ IntegersOn(pb, S) /\ IntegersOn(qa, S) /\ IntegersOn(qb, S)
  BY <1>2, <1>5 DEF IntegersOn
<1>9. /\ SumFunctionOnSet(c, S) = SumFunctionOnSet(pa, S) + SumFunctionOnSet(qb, S)
      /\ SumFunctionOnSet(d, S) = SumFunctionOnSet(pb, S) + SumFunctionOnSet(qa, S)
  BY <1>5, <1>8, SumOfSums
<1>10. /\ SumFunctionOnSet(pa, S) = p * SumFunctionOnSet(a, S)
       /\ SumFunctionOnSet(pb, S) = p * SumFunctionOnSet(b, S)
       /\ SumFunctionOnSet(qa, S) = q * SumFunctionOnSet(a, S)
       /\ SumFunctionOnSet(qb, S) = (-q) * SumFunctionOnSet(b, S)
  BY <1>1, <1>3, <1>8, SumOfMultiples
<1>11. SumFunctionOnSet(a, S) \in Int /\ SumFunctionOnSet(b, S) \in Int
  BY <1>8, SumRemove
<1> DEFINE A == SumFunctionOnSet(a, S)
           B == SumFunctionOnSet(b, S)
<1> HIDE DEF A, B
<1>12. /\ SumFunctionOnSet(c, S) = p * A - q * B
       /\ SumFunctionOnSet(d, S) = p * B + q * A
  BY <1>1, <1>9, <1>10, <1>11 DEF A, B
<1> QED BY <1>7, <1>12 DEF Times, p, q, A, B

\* The waves of the state, and the pairs of them.
LEMMA PairsAreFinite ==
  IsFiniteSet({psi.first, psi.second} \X {psi.first, psi.second})
<1> DEFINE W == {psi.first, psi.second}
<1>1. IsFiniteSet({psi.first}) /\ IsFiniteSet({psi.second})
  BY FS_Singleton
<1>2. W = {psi.first} \cup {psi.second}
  OBVIOUS
<1> HIDE DEF W
<1>3. IsFiniteSet(W)
  BY <1>1, <1>2, FS_Union
<1>4. IsFiniteSet(W \X W)
  BY <1>3, FS_Product
<1> QED BY <1>4 DEF W

\* Pairs of waves with a difference, and the product of their amplitudes.
PairsAt(n) == {x \in {psi.first, psi.second} \X {psi.first, psi.second} : Minus(x[1], x[2]) = n}
ProductOf(x) == Times(wfn(x[1]), Conj(wfn(x[2])))

\* The coefficient at n is the sum of the products of amplitudes n apart.
LEMMA UnwrappedIsTotal ==
  ASSUME InputInv, NEW n
  PROVE  /\ Unwrapped(n) = Total([x \in PairsAt(n) |-> ProductOf(x)])
         /\ IsFiniteSet(PairsAt(n))
         /\ \A x \in PairsAt(n) : ProductOf(x) \in Gaussian
<1> DEFINE W == {psi.first, psi.second}
           A == [g \in W |-> wfn(g)]
           D == [x \in W \X W |-> Minus(x[1], x[2])]
           S == {x \in W \X W : D[x] = n}
           f == [x \in S |-> Times(A[x[1]], Conj(A[x[2]]))]
           h == [x \in PairsAt(n) |-> ProductOf(x)]
<1>1. TrueDensity = Correlation(A, D)
  BY DEF TrueDensity
<1>2. DOMAIN D = W \X W /\ \A x \in W \X W : D[x] = Minus(x[1], x[2])
  OBVIOUS
<1>3. S = PairsAt(n) /\ S \subseteq W \X W
  BY DEF PairsAt
<1>4. \A x \in S : f[x] = ProductOf(x) /\ h[x] = ProductOf(x)
  <2> TAKE x \in S
  <2>1. x[1] \in W /\ x[2] \in W
    OBVIOUS
  <2>2. A[x[1]] = wfn(x[1]) /\ A[x[2]] = wfn(x[2])
    BY <2>1
  <2> QED BY <1>3, <2>2 DEF ProductOf
<1>5. \A x : ProductOf(x) \in Gaussian
  BY WavesAreGaussian, TimesGaussian DEF ProductOf
<1>6. IsFiniteSet(W \X W)
  BY PairsAreFinite
<1>7. IsFiniteSet(S)
  <2> HIDE DEF S, W
  <2> QED BY <1>3, <1>6, FS_Subset
<1>8. DOMAIN f = S /\ DOMAIN h = S
  <2>1. DOMAIN f = S /\ DOMAIN h = PairsAt(n)
    OBVIOUS
  <2> QED BY <1>3, <2>1
<1>9. /\ DOMAIN Correlation(A, D) = {D[x] : x \in DOMAIN D}
      /\ \A d \in {D[x] : x \in DOMAIN D} :
           Correlation(A, D)[d] = Total([x \in {y \in DOMAIN D : D[y] = d} |->
                                           Times(A[x[1]], Conj(A[x[2]]))])
  <2> HIDE DEF A, D
  <2> QED BY DEF Correlation
<1>10. Total(f) = Total(h)
  <2> HIDE DEF f, h, S
  <2> QED BY <1>4, <1>8, TotalEqual
<1>11. Unwrapped(n) = Total(f)
  <2>1. CASE n \in {D[x] : x \in DOMAIN D}
    <3>1. {y \in DOMAIN D : D[y] = n} = S
      BY <1>2
    <3> HIDE DEF D, A, S
    <3>2. Correlation(A, D)[n] = Total([x \in {y \in DOMAIN D : D[y] = n} |->
                                           Times(A[x[1]], Conj(A[x[2]]))])
      BY <1>9, <2>1
    <3>3. Correlation(A, D)[n] = Total(f)
      BY <3>1, <3>2
    <3> QED BY <1>1, <1>9, <2>1, <3>3 DEF Unwrapped, TrueCoefficient
  <2>2. CASE n \notin {D[x] : x \in DOMAIN D}
    <3>1. S = {}
      BY <1>2, <2>2
    <3> HIDE DEF D, A, S
    <3>2. Unwrapped(n) = Zero
      BY <1>1, <1>9, <2>2 DEF Unwrapped, TrueCoefficient
    <3> HIDE DEF f
    <3>3. \A x \in S : f[x] = Zero
      BY <3>1
    <3>4. Total(f) = Zero
      BY <1>8, <3>3, TotalOfZeros
    <3> QED BY <3>2, <3>4
  <2> QED BY <2>1, <2>2
<1> QED BY <1>3, <1>5, <1>7, <1>10, <1>11

\* It is a Gaussian integer, and zero unless n is a difference of the basis.
LEMMA UnwrappedFacts ==
  ASSUME InputInv, NEW n
  PROVE  /\ Unwrapped(n) \in Gaussian
         /\ ~ IsDifference(n) => Unwrapped(n) = Zero
<1> DEFINE f == [x \in PairsAt(n) |-> ProductOf(x)]
<1>1. /\ Unwrapped(n) = Total(f) /\ IsFiniteSet(PairsAt(n))
      /\ DOMAIN f = PairsAt(n) /\ \A x \in PairsAt(n) : f[x] \in Gaussian
  BY UnwrappedIsTotal
<1> HIDE DEF f
<1>2. Total(f) \in Gaussian
  BY <1>1, TotalIsGaussian
<1>3. ASSUME ~ IsDifference(n) PROVE Total(f) = Zero
  <2>1. psi.first \in Basis(cell) /\ psi.second \in Basis(cell)
    BY DEF InputInv
  <2>2. PairsAt(n) = {}
    <3> SUFFICES ASSUME NEW x \in PairsAt(n) PROVE FALSE
      OBVIOUS
    <3>1. /\ x[1] \in {psi.first, psi.second} /\ x[2] \in {psi.first, psi.second}
          /\ Minus(x[1], x[2]) = n
      BY DEF PairsAt
    <3>2. x[1] \in Basis(cell) /\ x[2] \in Basis(cell)
      BY <2>1, <3>1
    <3> QED BY <1>3, <3>1, <3>2 DEF IsDifference
  <2> QED BY <1>1, <2>2, TotalOfZeros
<1> QED BY <1>1, <1>2, <1>3

\* The product of two amplitudes, in the other order.
LEMMA ConjOfTimes ==
  ASSUME NEW a \in Gaussian, NEW b \in Gaussian
  PROVE  /\ Conj(Times(a, b)) = Times(Conj(a), Conj(b))
         /\ Conj(Times(a, Conj(b))) = Times(b, Conj(a))
         /\ Times(a, b) = Times(b, a)
         /\ Times(a, Zero) = Zero
         /\ Conj(Conj(a)) = a /\ Conj(Zero) = Zero
<1> DEFINE p == a[1]
           q == a[2]
           r == b[1]
           s == b[2]
<1>1. p \in Int /\ q \in Int /\ r \in Int /\ s \in Int /\ a = <<p, q>> /\ b = <<r, s>>
  BY DEF Gaussian
<1> HIDE DEF p, q, r, s
<1>2. /\ Conj(Times(a, b)) = <<p * r - q * s, -(p * s + q * r)>>
      /\ Times(Conj(a), Conj(b)) = <<p * r - (-q) * (-s), p * (-s) + (-q) * r>>
      /\ Conj(Times(a, Conj(b))) = <<p * r - q * (-s), -(p * (-s) + q * r)>>
      /\ Times(b, Conj(a)) = <<r * p - s * (-q), r * (-q) + s * p>>
      /\ Times(a, b) = <<p * r - q * s, p * s + q * r>>
      /\ Times(b, a) = <<r * p - s * q, r * q + s * p>>
      /\ Times(a, Zero) = <<p * 0 - q * 0, p * 0 + q * 0>>
      /\ Conj(Conj(a)) = <<p, -(-q)>> /\ Conj(Zero) = <<0, -0>>
  BY <1>1 DEF Times, Conj, Zero
<1>3. /\ p * r - q * s = p * r - (-q) * (-s) /\ -(p * s + q * r) = p * (-s) + (-q) * r
      /\ p * r - q * (-s) = r * p - s * (-q) /\ -(p * (-s) + q * r) = r * (-q) + s * p
  BY <1>1
<1>4. p * r - q * s = r * p - s * q /\ p * s + q * r = r * q + s * p
  BY <1>1
<1>5. p * 0 - q * 0 = 0 /\ p * 0 + q * 0 = 0
  BY <1>1
<1>6. -(-q) = q /\ -0 = 0
  <2>1. -(-q) = q
    BY <1>1
  <2>2. ASSUME NEW x \in Int, x + x = 0 PROVE -x = x
    BY <2>2
  <2>3. 0 \in Int /\ 0 + 0 = 0
    OBVIOUS
  <2>4. -0 = 0
    BY <2>2, <2>3, Zenon
  <2> QED BY <2>1, <2>4
<1> QED BY <1>1, <1>2, <1>3, <1>4, <1>5, <1>6 DEF Zero

\* Multiplication is associative.
LEMMA TimesAssociates ==
  ASSUME NEW a \in Gaussian, NEW b \in Gaussian, NEW c \in Gaussian
  PROVE  Times(Times(a, b), c) = Times(a, Times(b, c))
<1> DEFINE p == a[1]
           q == a[2]
           r == b[1]
           s == b[2]
           t == c[1]
           u == c[2]
<1>1. /\ p \in Int /\ q \in Int /\ r \in Int /\ s \in Int /\ t \in Int /\ u \in Int
  BY DEF Gaussian
<1>2. /\ Times(Times(a, b), c) = <<(p * r - q * s) * t - (p * s + q * r) * u,
                                   (p * r - q * s) * u + (p * s + q * r) * t>>
      /\ Times(a, Times(b, c)) = <<p * (r * t - s * u) - q * (r * u + s * t),
                                   p * (r * u + s * t) + q * (r * t - s * u)>>
  BY DEF Times
<1> HIDE DEF p, q, r, s, t, u
<1>3. (p * r - q * s) * t - (p * s + q * r) * u = p * (r * t - s * u) - q * (r * u + s * t)
  BY <1>1
<1>4. (p * r - q * s) * u + (p * s + q * r) * t = p * (r * u + s * t) + q * (r * t - s * u)
  BY <1>1
<1> QED BY <1>2, <1>3, <1>4

\* The density is real: its coefficients at opposite indices are conjugates.
LEMMA UnwrappedIsReal ==
  ASSUME InputInv, NEW n \in [Axes -> Int]
  PROVE  Unwrapped(Negated(n)) = Conj(Unwrapped(n))
<1> DEFINE m == Negated(n)
           S == PairsAt(n)
           T == PairsAt(m)
           f == [x \in S |-> ProductOf(x)]
           g == [x \in T |-> ProductOf(x)]
           c == [x \in S |-> Conj(ProductOf(x))]
           r == [x \in S |-> <<x[2], x[1]>>]
           W == {psi.first, psi.second}
<1>1. /\ Unwrapped(n) = Total(f) /\ IsFiniteSet(S) /\ DOMAIN f = S
      /\ \A x \in S : f[x] \in Gaussian /\ f[x] = ProductOf(x)
  BY UnwrappedIsTotal
<1>2. /\ Unwrapped(m) = Total(g) /\ DOMAIN g = T /\ \A x \in T : g[x] = ProductOf(x)
  BY UnwrappedIsTotal
<1>3. m \in [Axes -> Int] /\ Negated(m) = n
  <2>1. m \in [Axes -> Int] /\ \A i \in Axes : m[i] = -n[i] /\ n[i] \in Int
    BY VectorOperators
  <2> HIDE DEF m
  <2>2. Negated(m) \in [Axes -> Int] /\ \A i \in Axes : Negated(m)[i] = -m[i]
    BY <2>1, VectorOperators
  <2>3. \A i \in Axes : Negated(m)[i] = n[i]
    BY <2>1, <2>2
  <2> QED BY <2>1, <2>2, <2>3, VectorEqual
<1>4. W \subseteq Basis(cell)
  BY DEF InputInv
<1>5. ASSUME NEW g1 \in W, NEW h1 \in W, NEW k, Minus(g1, h1) = k
      PROVE  Minus(h1, g1) = Negated(k)
  <2>1. /\ Minus(g1, h1) = [i \in Axes |-> g1[i] - h1[i]]
        /\ Minus(h1, g1) = [i \in Axes |-> h1[i] - g1[i]]
        /\ \A i \in Axes : g1[i] \in Int /\ h1[i] \in Int
    BY <1>4, WavesAreVectors
  <2>2. Negated(k) = [i \in Axes |-> -(g1[i] - h1[i])]
    BY <1>5, <2>1 DEF Negated
  <2>3. \A i \in Axes : -(g1[i] - h1[i]) = h1[i] - g1[i]
    BY <2>1
  <2> QED BY <2>1, <2>2, <2>3
<1>6. ASSUME NEW k, NEW x \in PairsAt(k)
      PROVE  <<x[2], x[1]>> \in PairsAt(Negated(k)) /\ x = <<x[1], x[2]>>
  <2>1. x[1] \in W /\ x[2] \in W /\ Minus(x[1], x[2]) = k /\ x = <<x[1], x[2]>>
    BY DEF PairsAt
  <2>2. Minus(x[2], x[1]) = Negated(k)
    <3> HIDE DEF W
    <3> QED BY <1>5, <2>1
  <2> QED BY <2>1, <2>2 DEF PairsAt
<1>7. ASSUME NEW x \in S
      PROVE  r[x] \in T /\ r[x] = <<x[2], x[1]>> /\ g[r[x]] = Conj(f[x])
  <2>1. r[x] = <<x[2], x[1]>>
    OBVIOUS
  <2>2. r[x] \in T
    BY <1>6, <2>1
  <2>3. wfn(x[1]) \in Gaussian /\ wfn(x[2]) \in Gaussian
    BY WavesAreGaussian
  <2>4. ProductOf(<<x[2], x[1]>>) = Times(wfn(x[2]), Conj(wfn(x[1])))
    BY DEF ProductOf
  <2>5. Conj(ProductOf(x)) = Times(wfn(x[2]), Conj(wfn(x[1])))
    BY <2>3, ConjOfTimes DEF ProductOf
  <2> HIDE DEF r, g, f, T
  <2> QED BY <1>1, <1>2, <2>1, <2>2, <2>4, <2>5
<1>8. ASSUME NEW y \in T PROVE \E x \in S : r[x] = y
  <2> DEFINE x == <<y[2], y[1]>>
  <2>1. x \in PairsAt(Negated(m)) /\ y = <<y[1], y[2]>>
    BY <1>6
  <2>2. x \in S
    BY <1>3, <2>1
  <2>3. r[x] = <<x[2], x[1]>>
    BY <2>2
  <2>4. r[x] = y
    BY <2>1, <2>3
  <2> QED BY <2>2, <2>4
<1>9. ASSUME NEW x \in S, NEW z \in S, r[x] = r[z] PROVE x = z
  <2>1. r[x] = <<x[2], x[1]>> /\ r[z] = <<z[2], z[1]>>
    OBVIOUS
  <2>2. r[x][1] = x[2] /\ r[x][2] = x[1] /\ r[z][1] = z[2] /\ r[z][2] = z[1]
    BY <2>1
  <2>3. x = <<x[1], x[2]>> /\ z = <<z[1], z[2]>>
    BY <1>6
  <2> HIDE DEF r
  <2> QED BY <1>9, <2>2, <2>3
<1>10. DOMAIN r = S /\ DOMAIN c = S /\ \A x \in S : c[x] = Conj(f[x])
  OBVIOUS
<1>11. r \in [S -> T]
  <2>1. r = [x \in S |-> r[x]]
    OBVIOUS
  <2> HIDE DEF r, S, T
  <2> QED BY <1>7, <2>1
<1> HIDE DEF S, T, f, g, c, r, m
<1>12. r \in Bijection(S, T)
  BY <1>8, <1>9, <1>11 DEF Bijection, Injection, Surjection, IsInjective
<1>13. \A x \in S : c[x] \in Gaussian /\ g[r[x]] = c[x]
  BY <1>1, <1>7, <1>10, TimesGaussian
<1>14. Total(g) = Total(c)
  BY <1>1, <1>2, <1>10, <1>12, <1>13, TotalRenamed
<1>15. \A x \in S : f[x] \in Gaussian
  BY <1>1
<1>16. Total(c) = Conj(Total(f))
  BY <1>1, <1>10, <1>15, TotalConj
<1> QED BY <1>1, <1>2, <1>14, <1>16 DEF m

-----------------------------------------------------------------------------
(* What the operations do to coefficients.                                 *)

\* What the detection guarantees of an operation.
LEMMA OperationFacts ==
  ASSUME InputInv, NEW op \in operations
  PROVE  /\ IsRotation(op.rotation, cell.metric) /\ op.rotation \in Matrix
         /\ IsUnimodular(op.rotation) /\ IsMatrix(op.rotation)
         /\ IsMatrix(Transpose(op.rotation)) /\ IsVector(op.translation)
         /\ \A n \in [Axes -> Int] : Carried(op, n) \in [Axes -> Int]
<1>1. op \in FindSymmetryOperations(cell) /\ IsCrystal(cell)
  BY CellIsCrystal, DetectedFacts
<1>2. /\ IsRotation(op.rotation, cell.metric) /\ op.rotation \in Matrix
      /\ IsUnimodular(op.rotation) /\ IsMatrix(op.rotation)
      /\ IsVector(op.translation)
  BY <1>1, FoundOperation
<1>3. IsMatrix(Transpose(op.rotation))
  BY <1>2, DetOfTranspose
<1>4. \A n \in [Axes -> Int] : Carried(op, n) \in [Axes -> Int]
  BY <1>3, VectorOperators DEF Carried
<1> QED BY <1>2, <1>3, <1>4

\* Carried along, a difference is one, and nothing else is.
LEMMA CarriedDifference ==
  ASSUME InputInv, BasisIsCutoffSphere, NEW op \in operations, NEW n \in [Axes -> Int]
  PROVE  IsDifference(Carried(op, n)) <=> IsDifference(n)
<1> DEFINE r == op.rotation
           s == InverseRotation(r)
           m == Carried(op, n)
<1>1. IsRotation(r, cell.metric) /\ IsMetric(cell.metric) /\ r \in Matrix /\ IsUnimodular(r)
  BY OperationFacts, CellIsCrystal
<1>2. IsRotation(s, cell.metric)
  BY <1>1, RotationsInvert
<1>3. m = Apply(Transpose(r), n) /\ Apply(Transpose(s), m) = n
  BY <1>1, TransposeUndoes DEF Carried
<1> HIDE DEF r, s, m
<1>4. IsDifference(n) => IsDifference(m)
  BY <1>1, <1>3, DifferencesRotate
<1>5. IsDifference(m) => IsDifference(n)
  BY <1>2, <1>3, DifferencesRotate
<1> QED BY <1>4, <1>5 DEF m

\* Of two indices on the same point, one of them a difference and the other
\* read back, both are the same.
LEMMA SamePoint ==
  ASSUME InputInv, Dims, Covers, NEW m, IsDifference(m),
         NEW n, flat_to_miller(miller_to_idx(n)) = n, miller_to_idx(m) = miller_to_idx(n)
  PROVE  m = n
<1>1. flat_to_miller(miller_to_idx(m)) = m
  BY CoversIsRoom
<1> QED BY <1>1

\* On a sound grid the density is read at the rotated index, even if that
\* wraps: what wraps has no coefficient, and nothing that has one wraps onto
\* it.
LEMMA RotatedIsRead ==
  ASSUME InputInv, Dims, SoundGrid, NEW op \in operations,
         NEW n \in [Axes -> Int], flat_to_miller(miller_to_idx(n)) = n
  PROVE  /\ miller_to_idx(Carried(op, n)) \in Points
         /\ compute_density[miller_to_idx(Carried(op, n))] = Unwrapped(Carried(op, n))
<1> DEFINE r == op.rotation
           s == InverseRotation(r)
           m == Carried(op, n)
           q == miller_to_idx(m)
           k == flat_to_miller(q)
           u == Apply(Transpose(s), k)
<1>1. /\ IsRotation(r, cell.metric) /\ r \in Matrix /\ IsUnimodular(r) /\ IsMatrix(r)
      /\ m \in [Axes -> Int] /\ IsMetric(cell.metric)
  BY OperationFacts, CellIsCrystal
<1>2. Covers /\ BasisIsCutoffSphere /\ Keeps(r, dims) /\ IsGrid(dims)
  BY DEF SoundGrid, GridIsMapped, Keeps, IsGrid, Dims
<1>3. q \in Points
  <2>1. \A i \in Axes : m[i] \in Int
    BY <1>1, VectorOperators
  <2> HIDE DEF m
  <2> QED BY <2>1, WrappedIsPoint
<1>4. k \in [Axes -> Int] /\ miller_to_idx(k) = q
  <2>1. (\A i \in Axes : k[i] \in Int) /\ miller_to_idx(k) = q
    <3> HIDE DEF q
    <3> QED BY <1>3, PointIndices
  <2>2. k = [i \in Axes |-> k[i]]
    BY DEF flat_to_miller
  <2> HIDE DEF k
  <2> QED BY <2>1, <2>2
<1>5. compute_density[q] = Unwrapped(k)
  <2>1. Room
    BY <1>2, CoversIsRoom
  <2> HIDE DEF q
  <2>2. compute_density[q] = TrueCoefficient(TrueDensity, flat_to_miller(q))
    BY <1>3, <2>1, ProductsDoNotAlias
  <2> QED BY <2>2 DEF Unwrapped
<1>6. Unwrapped(k) = Unwrapped(m)
  <2>1. CASE IsDifference(m)
    <3> HIDE DEF m
    <3>1. k = m
      BY <1>2, <2>1, CoversIsRoom
    <3> QED BY <3>1
  <2>2. CASE IsDifference(k)
    <3>1. IsRotation(s, cell.metric) /\ IsMatrix(s) /\ IsUnimodular(s) /\ Keeps(s, dims)
      <4> HIDE DEF r
      <4>1. IsRotation(s, cell.metric)
        BY <1>1, RotationsInvert
      <4>2. Keeps(s, dims)
        BY <1>1, <1>2, KeptByInverse
      <4> HIDE DEF s
      <4> QED BY <4>1, <4>2 DEF IsRotation, IsUnimodular
    <3>2. IsDifference(u)
      <4> HIDE DEF s, k
      <4> QED BY <1>2, <2>2, <3>1, DifferencesRotate
    <3>3. Apply(Transpose(s), m) = n
      BY <1>1, TransposeUndoes DEF Carried
    <3>4. OnGrid(dims, k, m)
      <4> HIDE DEF k, m
      <4>1. \A i \in Axes : Alike(dims[i], k[i], m[i])
        BY <1>4, WrapAlike DEF q
      <4> QED BY <4>1 DEF Alike, OnGrid, SameResidue
    <3>5. OnGrid(dims, u, n)
      <4>1. IsVector(k) /\ IsVector(m)
        BY <1>1, <1>4, VectorOperators
      <4> HIDE DEF s, k, m
      <4>2. OnGrid(dims, Apply(Transpose(s), k), Apply(Transpose(s), m))
        BY <1>2, <3>1, <3>4, <4>1, KeepsResidues
      <4> QED BY <3>3, <4>2
    <3>6. miller_to_idx(u) = miller_to_idx(n)
      <4> HIDE DEF u
      <4>1. \A i \in Axes : Alike(dims[i], u[i], n[i])
        BY <3>5 DEF Alike, OnGrid, SameResidue
      <4> QED BY <4>1, WrapAlike
    <3>7. u = n
      <4> HIDE DEF u
      <4> QED BY <1>2, <3>2, <3>6, SamePoint
    <3>8. IsDifference(m)
      <4>1. IsDifference(n)
        BY <3>2, <3>7
      <4> QED BY <1>2, <4>1, CarriedDifference
    <3> QED BY <2>1, <3>8
  <2>3. CASE ~ IsDifference(m) /\ ~ IsDifference(k)
    <3> HIDE DEF m, k
    <3>1. Unwrapped(m) = Zero /\ Unwrapped(k) = Zero
      BY <2>3, UnwrappedFacts
    <3> QED BY <3>1
  <2> QED BY <2>1, <2>2, <2>3
<1> QED BY <1>3, <1>5, <1>6

-----------------------------------------------------------------------------
(* The average over the operations.                                        *)

Term(op, n) == Times(Twist(op, n), Unwrapped(Carried(op, n)))
Average(n) == Total([op \in operations |-> Term(op, n)])

\* Four quarters make a whole turn, and a turn back is the conjugate.
LEMMA Turns ==
  ASSUME NEW k \in Int
  PROVE  /\ PowerOfI(-k) = Conj(PowerOfI(k))
         /\ \A l \in Int : PowerOfI(k + l) = Times(PowerOfI(k), PowerOfI(l))
         /\ \A l \in Int : k % 4 = l % 4 => PowerOfI(k) = PowerOfI(l)
<1> DEFINE P(j) == <<<<1, 0>>, <<0, 1>>, <<-1, 0>>, <<0, -1>>>>[j + 1]
<1>1. \A l \in Int : /\ l % 4 \in 0 .. 3
                     /\ PowerOfI(l) = P(l % 4)
  BY DEF PowerOfI
<1>2. P(0) = <<1, 0>> /\ P(1) = <<0, 1>> /\ P(2) = <<-1, 0>> /\ P(3) = <<0, -1>>
  OBVIOUS
<1>3. k % 4 \in 0 .. 3 /\ k % 4 \in {0, 1, 2, 3}
  BY <1>1
<1> HIDE DEF P
<1>4. PowerOfI(-k) = Conj(PowerOfI(k))
  <2>1. (-k) % 4 = IF k % 4 = 0 THEN 0 ELSE 4 - (k % 4)
    OBVIOUS
  <2>2. Conj(P(0)) = P(0) /\ Conj(P(1)) = P(3) /\ Conj(P(2)) = P(2) /\ Conj(P(3)) = P(1)
    BY <1>2 DEF Conj
  <2> QED BY <1>1, <1>3, <2>1, <2>2
<1>5. ASSUME NEW l \in Int PROVE PowerOfI(k + l) = Times(PowerOfI(k), PowerOfI(l))
  <2>1. (k + l) % 4 = ((k % 4) + (l % 4)) % 4
    OBVIOUS
  <2>2. \A i, j \in {0, 1, 2, 3} : Times(P(i), P(j)) = P((i + j) % 4)
    BY <1>2 DEF Times
  <2>3. k % 4 \in {0, 1, 2, 3} /\ l % 4 \in {0, 1, 2, 3} /\ k + l \in Int
    BY <1>1, <1>3
  <2> QED BY <1>1, <2>1, <2>2, <2>3
<1> QED BY <1>1, <1>4, <1>5

\* Scalar products of integer vectors, and of opposite ones.
LEMMA DotOfNegated ==
  ASSUME NEW n \in [Axes -> Int], NEW t, IsVector(t)
  PROVE  Dot(n, t) \in Int /\ Dot(Negated(n), t) = - Dot(n, t)
<1> DEFINE a == n[1]
           b == n[2]
           c == n[3]
           x == t[1]
           y == t[2]
           z == t[3]
<1>1. /\ a \in Int /\ b \in Int /\ c \in Int /\ x \in Int /\ y \in Int /\ z \in Int
      /\ Negated(n)[1] = -a /\ Negated(n)[2] = -b /\ Negated(n)[3] = -c
  BY DEF IsVector, Negated, Axes
<1>2. /\ Dot(n, t) = a * x + b * y + c * z
      /\ Dot(Negated(n), t) = (-a) * x + (-b) * y + (-c) * z
  BY <1>1 DEF Dot
<1> HIDE DEF a, b, c, x, y, z
<1>3. (-a) * x + (-b) * y + (-c) * z = -(a * x + b * y + c * z) /\ a * x + b * y + c * z \in Int
  BY <1>1
<1> QED BY <1>2, <1>3

\* The parts of a term, and of the term at the opposite index.
LEMMA TermFacts ==
  ASSUME InputInv, NEW op \in operations, NEW n \in [Axes -> Int]
  PROVE  /\ Twist(op, n) \in Gaussian /\ Term(op, n) \in Gaussian
         /\ Unwrapped(Carried(op, n)) \in Gaussian
         /\ Twist(op, Negated(n)) = Conj(Twist(op, n))
         /\ Carried(op, Negated(n)) = Negated(Carried(op, n))
<1> DEFINE r == Transpose(op.rotation)
           t == op.translation
<1>1. IsMatrix(r) /\ IsVector(t)
  BY OperationFacts
<1>2. /\ Negated(n) \in [Axes -> Int] /\ IsVector(n)
      /\ Dot(n, t) \in Int /\ Dot(Negated(n), t) = - Dot(n, t)
  BY <1>1, VectorOperators, DotOfNegated
<1>3. Twist(op, n) = PowerOfI(- Dot(n, t)) /\ Twist(op, Negated(n)) = PowerOfI(-(- Dot(n, t)))
  BY <1>2 DEF Twist
<1>4. - Dot(n, t) \in Int
  BY <1>2
<1>5. Twist(op, n) \in Gaussian /\ Twist(op, Negated(n)) = Conj(Twist(op, n))
  BY <1>3, <1>4, PowersAreGaussian, Turns
<1>6. Unwrapped(Carried(op, n)) \in Gaussian
  BY UnwrappedFacts
<1>7. Carried(op, Negated(n)) = Negated(Carried(op, n))
  <2> HIDE DEF r
  <2>1. Apply(r, n) \in [Axes -> Int] /\ Apply(r, Negated(n)) \in [Axes -> Int]
    BY <1>1, <1>2, VectorOperators
  <2>2. \A i \in Axes : Apply(r, Negated(n))[i] = - Apply(r, n)[i]
    BY <1>1, <1>2, ApplyIsLinear
  <2>3. /\ Negated(Apply(r, n)) \in [Axes -> Int]
        /\ \A i \in Axes : Negated(Apply(r, n))[i] = - Apply(r, n)[i]
    BY <2>1, VectorOperators
  <2>4. Apply(r, Negated(n)) = Negated(Apply(r, n))
    BY <2>1, <2>2, <2>3, VectorEqual
  <2> QED BY <2>4 DEF Carried, r
<1> QED BY <1>5, <1>6, <1>7, TimesGaussian DEF Term

\* There are finitely many operations, the identity among them.
LEMMA OperationsFinite ==
  ASSUME InputInv
  PROVE  IsFiniteSet(operations) /\ Cardinality(operations) \in Nat /\ IdentityOp \in operations
BY CellIsCrystal, DetectedFacts, FS_CardinalityType

\* The average is real.
LEMMA AverageIsReal ==
  ASSUME InputInv, NEW n \in [Axes -> Int]
  PROVE  Average(n) \in Gaussian /\ Average(Negated(n)) = Conj(Average(n))
<1> DEFINE f == [op \in operations |-> Term(op, n)]
           g == [op \in operations |-> Term(op, Negated(n))]
<1>1. ASSUME NEW op \in operations
      PROVE  Term(op, Negated(n)) = Conj(Term(op, n)) /\ Term(op, n) \in Gaussian
  <2>1. /\ Twist(op, n) \in Gaussian /\ Unwrapped(Carried(op, n)) \in Gaussian
        /\ Twist(op, Negated(n)) = Conj(Twist(op, n))
        /\ Carried(op, Negated(n)) = Negated(Carried(op, n))
        /\ Term(op, n) \in Gaussian
    BY TermFacts
  <2>2. Unwrapped(Negated(Carried(op, n))) = Conj(Unwrapped(Carried(op, n)))
    BY OperationFacts, UnwrappedIsReal
  <2> QED BY <2>1, <2>2, ConjOfTimes DEF Term
<1>2. /\ IsFiniteSet(operations) /\ DOMAIN f = operations /\ DOMAIN g = operations
      /\ Average(n) = Total(f) /\ Average(Negated(n)) = Total(g)
  BY OperationsFinite DEF Average
<1>3. \A op \in operations : f[op] \in Gaussian /\ g[op] = Conj(f[op])
  BY <1>1
<1> HIDE DEF f, g
<1>4. \A op \in operations : f[op] \in Gaussian
  BY <1>3
<1> QED BY <1>2, <1>3, <1>4, TotalConj, TotalIsGaussian

\* It has coefficients at differences only.
LEMMA AverageOutside ==
  ASSUME InputInv, BasisIsCutoffSphere, NEW n \in [Axes -> Int], ~ IsDifference(n)
  PROVE  Average(n) = Zero
<1>1. ASSUME NEW op \in operations PROVE Term(op, n) = Zero
  <2>1. Unwrapped(Carried(op, n)) = Zero
    BY CarriedDifference, UnwrappedFacts
  <2>2. Twist(op, n) \in Gaussian
    BY TermFacts
  <2> QED BY <2>1, <2>2, ConjOfTimes DEF Term
<1> DEFINE f == [op \in operations |-> Term(op, n)]
<1>2. DOMAIN f = operations /\ \A op \in operations : f[op] = Zero
  BY <1>1
<1> HIDE DEF f
<1>3. Total(f) = Zero
  BY <1>2, TotalOfZeros
<1> QED BY <1>3 DEF Average, f

-----------------------------------------------------------------------------
(* Symmetrizing.                                                           *)

\* What a point of a sound grid accumulates is the average at its index.
LEMMA AccumulatedIsAverage ==
  ASSUME InputInv, Dims, SoundGrid, rho_g = compute_density, NEW p \in Points
  PROVE  Accumulated(p) = Average(flat_to_miller(p))
<1> DEFINE n == flat_to_miller(p)
           f == [op \in operations |->
                   Times(Phase(op, n), rho_g[miller_to_idx(Rotated(op, n))])]
           g == [op \in operations |-> Term(op, n)]
<1>1. n \in [Axes -> Int] /\ flat_to_miller(miller_to_idx(n)) = n
  <2>1. (\A i \in Axes : n[i] \in Int) /\ miller_to_idx(n) = p
    BY PointIndices
  <2>2. n = [i \in Axes |-> n[i]]
    BY DEF flat_to_miller
  <2>3. flat_to_miller(miller_to_idx(n)) = n
    BY <2>1
  <2> HIDE DEF n
  <2> QED BY <2>1, <2>2, <2>3
<1>2. ASSUME NEW op \in operations PROVE f[op] = g[op]
  <2> HIDE DEF n
  <2>1. compute_density[miller_to_idx(Carried(op, n))] = Unwrapped(Carried(op, n))
    BY <1>1, RotatedIsRead
  <2>2. Rotated(op, n) = Carried(op, n) /\ Phase(op, n) = Twist(op, n)
    BY DEF Rotated, Carried, Phase, Twist
  <2> QED BY <2>1, <2>2 DEF Term
<1>3. DOMAIN f = operations /\ DOMAIN g = operations
  OBVIOUS
<1>4. Accumulated(p) = Total(f)
  BY DEF Accumulated
<1> HIDE DEF f, g, n
<1>5. Total(f) = Total(g)
  BY <1>2, <1>3, TotalEqual
<1> QED BY <1>4, <1>5 DEF Average, g, n

\* What the opposite point accumulates is its conjugate.
LEMMA OppositeIsConjugate ==
  ASSUME InputInv, Dims, SoundGrid, rho_g = compute_density, NEW p \in Points
  PROVE  Conj(Accumulated(miller_to_idx(Negated(p)))) = Average(flat_to_miller(p))
<1> DEFINE n == flat_to_miller(p)
           q == miller_to_idx(Negated(p))
           k == flat_to_miller(q)
           m == Negated(n)
<1>1. /\ n \in [Axes -> Int] /\ miller_to_idx(n) = p /\ p \in [Axes -> Int]
  <2>1. /\ \A i \in Axes : n[i] \in Int /\ p[i] \in Int
        /\ miller_to_idx(n) = p /\ p = [i \in Axes |-> p[i]]
    BY PointIndices
  <2>2. n = [i \in Axes |-> n[i]]
    BY DEF flat_to_miller
  <2> HIDE DEF n
  <2> QED BY <2>1, <2>2
<1>2. q \in Points
  <2>1. \A i \in Axes : Negated(p)[i] \in Int
    BY <1>1, VectorOperators
  <2> QED BY <2>1, WrappedIsPoint
<1>3. k \in [Axes -> Int] /\ miller_to_idx(k) = q
  <2>1. (\A i \in Axes : k[i] \in Int) /\ miller_to_idx(k) = q
    <3> HIDE DEF q
    <3> QED BY <1>2, PointIndices
  <2>2. k = [i \in Axes |-> k[i]]
    BY DEF flat_to_miller
  <2> HIDE DEF k
  <2> QED BY <2>1, <2>2
<1>4. m \in [Axes -> Int] /\ Negated(m) = n /\ \A i \in Axes : m[i] = -n[i]
  <2> HIDE DEF n
  <2>1. m \in [Axes -> Int] /\ \A i \in Axes : m[i] = -n[i] /\ n[i] \in Int
    BY <1>1, VectorOperators
  <2> HIDE DEF m
  <2>2. Negated(m) \in [Axes -> Int] /\ \A i \in Axes : Negated(m)[i] = -m[i]
    BY <2>1, VectorOperators
  <2>3. \A i \in Axes : Negated(m)[i] = n[i]
    BY <2>1, <2>2
  <2> QED BY <1>1, <2>1, <2>2, <2>3, VectorEqual
<1>5. ASSUME NEW x \in [Axes -> Int], NEW y \in [Axes -> Int], miller_to_idx(x) = miller_to_idx(y)
      PROVE  miller_to_idx(Negated(x)) = miller_to_idx(Negated(y))
  <2>1. ASSUME NEW i \in Axes PROVE Alike(dims[i], Negated(x)[i], Negated(y)[i])
    <3> DEFINE d == dims[i]
               a == x[i]
               b == y[i]
    <3>1. a \in Int /\ b \in Int /\ d \in Nat \ {0} /\ Alike(d, a, b)
      BY <1>5, WrapAlike DEF Dims
    <3>2. Negated(x)[i] = -a /\ Negated(y)[i] = -b
      BY VectorOperators
    <3> HIDE DEF a, b, d
    <3>3. PICK t \in Int : a = b + d * t
      BY <3>1, AlikeShift
    <3>4. -a = -b + d * (-t) /\ -t \in Int /\ -a \in Int /\ -b \in Int
      BY <3>1, <3>3
    <3>5. Alike(d, -a, -b)
      BY <3>1, <3>4, AlikeShift
    <3> QED BY <3>2, <3>5 DEF d
  <2> QED BY <2>1, WrapAlike
<1>6. miller_to_idx(m) = q
  <2>1. miller_to_idx(n) = miller_to_idx(p)
    <3>1. miller_to_idx(p) = p
      <4>1. \A i \in Axes : p[i] \in Int /\ 0 <= p[i] /\ p[i] < dims[i] /\ dims[i] \in Nat \ {0}
        BY PointIndices DEF Dims
      <4>2. ASSUME NEW i \in Axes PROVE p[i] % dims[i] = p[i]
        <5> DEFINE a == p[i]
                   d == dims[i]
        <5>1. a \in Int /\ 0 <= a /\ a < d /\ d \in Nat \ {0}
          BY <4>1
        <5> HIDE DEF a, d
        <5>2. a % d = a
          BY <5>1
        <5> QED BY <5>2 DEF a, d
      <4>3. miller_to_idx(p) = [i \in Axes |-> p[i]]
        BY <4>2 DEF miller_to_idx
      <4> QED BY <1>1, <4>3
    <3> QED BY <1>1, <3>1
  <2> HIDE DEF n
  <2> QED BY <1>1, <1>5, <2>1
<1>7. Covers /\ BasisIsCutoffSphere
  BY DEF SoundGrid
<1>8. flat_to_miller(miller_to_idx(n)) = n /\ flat_to_miller(miller_to_idx(k)) = k
  BY <1>1, <1>3
<1>9. Accumulated(q) = Average(k)
  <2> HIDE DEF q
  <2> QED BY <1>2, AccumulatedIsAverage
<1> HIDE DEF n, q, k, m
<1>10. Average(m) = Conj(Average(n)) /\ Average(n) \in Gaussian
  BY <1>1, AverageIsReal DEF m
<1>11. CASE IsDifference(n)
  <2>1. IsDifference(m)
    BY <1>11, DifferencesNegate DEF m
  <2>2. m = k
    BY <1>3, <1>6, <1>7, <1>8, <2>1, SamePoint
  <2> QED BY <1>9, <1>10, <2>2, ConjOfTimes DEF n, q
<1>12. CASE IsDifference(k)
  <2>1. IsDifference(Negated(k)) /\ Negated(k) \in [Axes -> Int]
    BY <1>3, <1>12, DifferencesNegate, VectorOperators
  <2>2. miller_to_idx(Negated(k)) = miller_to_idx(n)
    BY <1>3, <1>4, <1>5, <1>6
  <2>3. Negated(k) = n
    BY <1>7, <1>8, <2>1, <2>2, SamePoint
  <2> QED BY <1>11, <2>1, <2>3
<1>13. CASE ~ IsDifference(n) /\ ~ IsDifference(k)
  <2>1. Average(n) = Zero /\ Average(k) = Zero
    BY <1>1, <1>3, <1>7, <1>13, AverageOutside
  <2>2. Conj(Zero) = Zero
    BY <1>10, ConjOfTimes
  <2> QED BY <1>9, <2>1, <2>2 DEF n, q
<1> QED BY <1>11, <1>12, <1>13

\* What leaves a point is accumulated there and at the opposite point.
Summed(p) ==
  LET a == Accumulated(p)
      b == Conj(Accumulated(miller_to_idx(Negated(p))))
  IN  <<a[1] + b[1], a[2] + b[2]>>

\* Every plane that was written holds the sums over the operations, whatever
\* the order of the tasks.
SymInv ==
  /\ BInv
  /\ pc = "symmetrize" => slabs = {}
  /\ pc = "accumulate" =>
       /\ Cardinality(operations) > 1
       /\ \A p \in Points : p[1] \in slabs => rho_g_sym[p] = Accumulated(p)
  /\ pc = "done" =>
       /\ Cardinality(operations) > 1 => \A p \in Points : rho[p] = Summed(p)
       /\ Cardinality(operations) <= 1 => rho = rho_g

\* It holds initially.
LEMMA SymInvInit == Init => SymInv
BY BInvInit DEF Init, SymInv

\* A task writes the points of its own plane.
LEMMA SlabKeeps ==
  ASSUME SymInv, NEW ix \in Planes(1), SymmetrizeSlab(ix), NEW p \in Points,
         p[1] \in slabs'
  PROVE  rho_g_sym'[p] = Accumulated(p)
<1>1. /\ pc = "accumulate" /\ slabs' = slabs \cup {ix}
      /\ rho_g_sym' = [q \in Points |-> IF q[1] = ix THEN Accumulated(q) ELSE rho_g_sym[q]]
  BY DEF SymmetrizeSlab
<1>2. rho_g_sym'[p] = IF p[1] = ix THEN Accumulated(p) ELSE rho_g_sym[p]
  BY <1>1
<1>3. p[1] \in slabs => rho_g_sym[p] = Accumulated(p)
  BY <1>1 DEF SymInv
<1> QED BY <1>1, <1>2, <1>3

\* The sums depend on the input, the grid and the density alone.
LEMMA SumsAsBefore ==
  ASSUME UNCHANGED <<input, dims, rho_g>>
  PROVE  /\ Points' = Points /\ Cardinality(operations)' = Cardinality(operations)
         /\ \A p : Accumulated(p)' = Accumulated(p)
         /\ \A p : Summed(p)' = Summed(p)
<1>1. UNCHANGED <<operations, dims, rho_g>>
  BY DEF input
<1>2. Points' = Points
  BY <1>1 DEF Points, Planes
<1>3. \A p : Accumulated(p)' = Accumulated(p)
  BY <1>1 DEF Accumulated, flat_to_miller, miller_to_idx
<1>4. \A p : Summed(p)' = Summed(p)
  BY <1>1 DEF Summed, Accumulated, flat_to_miller, miller_to_idx
<1> QED BY <1>1, <1>2, <1>3, <1>4

\* Every step keeps it.
LEMMA SymInvNext == SymInv /\ [Next]_vars => SymInv'
<1> SUFFICES ASSUME SymInv, [Next]_vars PROVE SymInv'
  OBVIOUS
<1>1. BInv'
  BY BInvNext DEF SymInv
<1>2. CASE StartGrid \/ TrySize \/ CheckGrid
  BY <1>1, <1>2 DEF SymInv, StartGrid, TrySize, CheckGrid
<1>3. CASE BuildDensity
  <2>1. pc' = "symmetrize" /\ slabs' = slabs /\ slabs = {}
    BY <1>3 DEF BuildDensity, SymInv, BInv, GridInv, SlabInv
  <2> QED BY <1>1, <2>1 DEF SymInv
<1>4. CASE SkipSymmetry
  <2>1. /\ pc' = "done" /\ rho' = rho_g /\ rho_g' = rho_g
        /\ UNCHANGED <<input, dims, rho_g>>
        /\ Cardinality(operations) <= 1
    BY <1>4 DEF SkipSymmetry
  <2>2. Cardinality(operations)' = Cardinality(operations) /\ Cardinality(operations) \in Nat
    BY <2>1, SumsAsBefore, OperationsFinite DEF SymInv, BInv, GridInv
  <2>3. ~ (Cardinality(operations)' > 1)
    BY <2>1, <2>2
  <2> QED BY <1>1, <2>1, <2>3 DEF SymInv
<1>5. CASE StartSymmetry
  <2>1. /\ pc' = "accumulate" /\ UNCHANGED <<input, dims, rho_g>> /\ slabs' = slabs /\ slabs = {}
        /\ Cardinality(operations) > 1
    BY <1>5 DEF StartSymmetry, SymInv
  <2>2. Cardinality(operations)' > 1
    BY <2>1, SumsAsBefore
  <2> QED BY <1>1, <2>1, <2>2 DEF SymInv
<1>6. ASSUME NEW ix \in Planes(1), SymmetrizeSlab(ix) PROVE SymInv'
  <2>1. /\ pc = "accumulate" /\ pc' = "accumulate" /\ UNCHANGED <<input, dims, rho_g>>
    BY <1>6 DEF SymmetrizeSlab
  <2>2. /\ Points' = Points /\ Cardinality(operations)' = Cardinality(operations)
        /\ \A p : Accumulated(p)' = Accumulated(p)
    BY <2>1, SumsAsBefore
  <2>3. \A p \in Points : p[1] \in slabs' => rho_g_sym'[p] = Accumulated(p)
    BY <1>6, SlabKeeps
  <2>4. Cardinality(operations) > 1
    BY <2>1 DEF SymInv
  <2>5. \A p \in Points' : p[1] \in slabs' => rho_g_sym'[p] = Accumulated(p)'
    BY <2>2, <2>3
  <2> QED BY <1>1, <2>1, <2>2, <2>4, <2>5 DEF SymInv
<1>7. CASE TakeRealPart
  <2>1. /\ pc = "accumulate" /\ pc' = "done" /\ UNCHANGED <<input, dims, rho_g>>
        /\ slabs = Planes(1)
        /\ rho' = [p \in Points |->
                     LET a == rho_g_sym[p]
                         b == Conj(rho_g_sym[miller_to_idx(Negated(p))])
                     IN  <<a[1] + b[1], a[2] + b[2]>>]
    BY <1>7 DEF TakeRealPart
  <2>2. Dims
    BY <2>1 DEF SymInv, BInv, GridInv, DimsInv, Dims
  <2>3. \A p \in Points : rho_g_sym[p] = Accumulated(p)
    <3> TAKE p \in Points
    <3>1. p[1] \in Planes(1)
      BY DEF Points
    <3> QED BY <2>1, <3>1 DEF SymInv
  <2>4. ASSUME NEW p \in Points PROVE rho'[p] = Summed(p)
    <3>1. miller_to_idx(Negated(p)) \in Points
      <4>1. \A i \in Axes : Negated(p)[i] \in Int
        <5>1. \A i \in Axes : p[i] \in Int
          BY <2>2, PointIndices
        <5> QED BY <5>1 DEF Negated
      <4> QED BY <2>2, <4>1, WrappedIsPoint
    <3>2. rho_g_sym[p] = Accumulated(p)
          /\ rho_g_sym[miller_to_idx(Negated(p))] = Accumulated(miller_to_idx(Negated(p)))
      BY <2>3, <3>1
    <3>3. rho'[p] = LET a == rho_g_sym[p]
                        b == Conj(rho_g_sym[miller_to_idx(Negated(p))])
                    IN  <<a[1] + b[1], a[2] + b[2]>>
      BY <2>1
    <3> QED BY <3>2, <3>3 DEF Summed
  <2>5. /\ Points' = Points /\ Cardinality(operations)' = Cardinality(operations)
        /\ \A p : Summed(p)' = Summed(p)
    BY <2>1, SumsAsBefore
  <2>6. Cardinality(operations) > 1 /\ Cardinality(operations) \in Nat
    BY <2>1, OperationsFinite DEF SymInv, BInv, GridInv
  <2>7. ~ (Cardinality(operations)' <= 1)
    BY <2>5, <2>6
  <2>8. \A p \in Points' : rho'[p] = Summed(p)'
    BY <2>4, <2>5
  <2> QED BY <1>1, <2>1, <2>7, <2>8 DEF SymInv
<1>8. CASE UNCHANGED vars
  <2>1. UNCHANGED <<input, dims, rho_g>> /\ UNCHANGED <<pc, slabs, rho_g_sym, rho>>
    BY <1>8 DEF vars
  <2>2. /\ Points' = Points /\ Cardinality(operations)' = Cardinality(operations)
        /\ \A p : Accumulated(p)' = Accumulated(p)
        /\ \A p : Summed(p)' = Summed(p)
    BY <2>1, SumsAsBefore
  <2>3. pc' = "symmetrize" => slabs' = {}
    BY <2>1 DEF SymInv
  <2>4. pc' = "accumulate" =>
          /\ Cardinality(operations)' > 1
          /\ \A p \in Points' : p[1] \in slabs' => rho_g_sym'[p] = Accumulated(p)'
    BY <2>1, <2>2 DEF SymInv
  <2>5. pc' = "done" =>
          /\ Cardinality(operations)' > 1 => \A p \in Points' : rho'[p] = Summed(p)'
          /\ Cardinality(operations)' <= 1 => rho' = rho_g'
    BY <2>1, <2>2 DEF SymInv
  <2> QED BY <1>1, <2>3, <2>4, <2>5 DEF SymInv
<1> QED BY <1>2, <1>3, <1>4, <1>5, <1>6, <1>7, <1>8 DEF Next

-----------------------------------------------------------------------------
(* What leaves is the average, and is invariant.                           *)

Norm == IF Cardinality(operations) > 1 THEN <<2, 0>> ELSE <<1, 0>>

\* Of one operation the average is the density itself.
LEMMA AverageOfOne ==
  ASSUME InputInv, Cardinality(operations) <= 1, NEW n \in [Axes -> Int]
  PROVE  Average(n) = Unwrapped(n)
<1>1. operations = {IdentityOp}
  <2>1. IsFiniteSet(operations) /\ Cardinality(operations) \in Nat /\ IdentityOp \in operations
    BY OperationsFinite
  <2>2. Cardinality(operations) # 0
    BY <2>1, FS_EmptySet
  <2>3. Cardinality(operations) = 1
    BY <2>1, <2>2
  <2>4. \E x : operations = {x}
    BY <2>1, <2>3, FS_Singleton
  <2> QED BY <2>1, <2>4
<1>2. Carried(IdentityOp, n) = n
  <2>1. /\ IdentityOp.rotation = Identity /\ Transpose(Identity) = Identity
    BY IdentityIsMatrix, IdentityIsSymmetric
  <2>2. \A i \in Axes : Apply(Identity, n)[i] = n[i]
    BY VectorOperators, IdentityFixes
  <2>3. Apply(Identity, n) \in [Axes -> Int]
    BY VectorOperators, IdentityIsMatrix
  <2> QED BY <2>1, <2>2, <2>3, VectorEqual DEF Carried
<1>3. Twist(IdentityOp, n) = <<1, 0>>
  <2>1. \A i \in Axes : IdentityOp.translation[i] = 0
    <3>1. 0 % Unit = 0
      BY UnitAssumption
    <3>2. ASSUME NEW i \in Axes PROVE <<0, 0, 0>>[i] = 0
      BY DEF Axes
    <3> QED BY <3>1, <3>2 DEF IdentityOp, Operation, Wrap
  <2>2. \A i \in Axes : n[i] \in Int
    OBVIOUS
  <2>3. Dot(n, IdentityOp.translation) = 0
    <3> DEFINE t == IdentityOp.translation
    <3>1. t[1] = 0 /\ t[2] = 0 /\ t[3] = 0 /\ n[1] \in Int /\ n[2] \in Int /\ n[3] \in Int
      BY <2>1, <2>2 DEF Axes
    <3> HIDE DEF t
    <3>2. n[1] * t[1] + n[2] * t[2] + n[3] * t[3] = 0
      BY <3>1
    <3> QED BY <3>2 DEF Dot, t
  <2>4. \A k \in Int : k = 0 => PowerOfI(-k) = <<1, 0>>
    BY DEF PowerOfI
  <2> QED BY <2>3, <2>4 DEF Twist
<1>4. Term(IdentityOp, n) = Unwrapped(n) /\ Unwrapped(n) \in Gaussian
  <2> DEFINE a == Unwrapped(n)[1]
             b == Unwrapped(n)[2]
  <2>1. Unwrapped(n) \in Gaussian
    BY UnwrappedFacts
  <2>2. Unwrapped(n) = <<a, b>> /\ a \in Int /\ b \in Int
    BY <2>1 DEF Gaussian
  <2>3. Term(IdentityOp, n) = <<1 * a - 0 * b, 1 * b + 0 * a>>
    BY <1>2, <1>3 DEF Term, Times
  <2> HIDE DEF a, b
  <2>4. 1 * a - 0 * b = a /\ 1 * b + 0 * a = b
    BY <2>2
  <2> QED BY <2>1, <2>2, <2>3, <2>4
<1>5. Average(n) = Unwrapped(n)
  <2> DEFINE S == {IdentityOp}
             f == [op \in S |-> Term(op, n)]
             a == [op \in S |-> f[op][1]]
             b == [op \in S |-> f[op][2]]
  <2>1. Average(n) = Total(f)
    BY <1>1 DEF Average
  <2>2. /\ DOMAIN f = S /\ f[IdentityOp] = Unwrapped(n) /\ \A op \in S : f[op] \in Gaussian
    BY <1>4
  <2>3. \A op \in S : a[op] = f[op][1] /\ b[op] = f[op][2]
    OBVIOUS
  <2>4. IdentityOp \in S /\ IsFiniteSet(S)
    BY FS_Singleton
  <2>5. /\ SumFunctionOnSet(a, S) = a[IdentityOp] /\ SumFunctionOnSet(b, S) = b[IdentityOp]
    <3>1. a[IdentityOp] \in Int /\ b[IdentityOp] \in Int
      BY <2>2, <2>3, <2>4 DEF Gaussian
    <3> HIDE DEF a, b
    <3> QED BY <3>1, SumSingleton
  <2> HIDE DEF S, f, a, b
  <2>6. Total(f) = <<SumFunctionOnSet(a, S), SumFunctionOnSet(b, S)>>
    BY <2>2, <2>3, <2>4, TotalIsSum
  <2>7. Total(f) = <<Unwrapped(n)[1], Unwrapped(n)[2]>>
    BY <2>2, <2>3, <2>4, <2>5, <2>6
  <2>8. Unwrapped(n) = <<Unwrapped(n)[1], Unwrapped(n)[2]>>
    BY <1>4 DEF Gaussian
  <2> QED BY <2>1, <2>7, <2>8
<1> QED BY <1>5

\* The density that leaves, point by point.
LEMMA DoneIsAverage ==
  ASSUME SymInv, pc = "done", SoundGrid, NEW p \in Points
  PROVE  rho[p] = Times(Norm, Average(flat_to_miller(p)))
<1> DEFINE n == flat_to_miller(p)
           a == Average(n)[1]
           b == Average(n)[2]
<1>1. InputInv /\ Dims /\ rho_g = compute_density
  BY DEF SymInv, BInv, Built, GridInv, DimsInv, Dims
<1>2. n \in [Axes -> Int]
  <2>1. \A i \in Axes : n[i] \in Int
    BY <1>1, PointIndices
  <2>2. n = [i \in Axes |-> n[i]]
    BY DEF flat_to_miller
  <2> HIDE DEF n
  <2> QED BY <2>1, <2>2
<1> HIDE DEF n
<1>3. Average(n) = <<a, b>> /\ a \in Int /\ b \in Int
  BY <1>1, <1>2, AverageIsReal DEF Gaussian
<1>4. Cardinality(operations) \in Nat
  BY <1>1, OperationsFinite
<1>5. CASE Cardinality(operations) > 1
  <2>1. rho[p] = Summed(p)
    BY <1>5 DEF SymInv
  <2>2. /\ Accumulated(p) = Average(n)
        /\ Conj(Accumulated(miller_to_idx(Negated(p)))) = Average(n)
    BY <1>1, AccumulatedIsAverage, OppositeIsConjugate DEF n
  <2>3. rho[p] = <<a + a, b + b>>
    BY <2>1, <2>2 DEF Summed
  <2>4. Times(Norm, Average(n)) = <<2 * a - 0 * b, 2 * b + 0 * a>>
    BY <1>3, <1>5 DEF Times, Norm
  <2> HIDE DEF a, b
  <2>5. 2 * a - 0 * b = a + a /\ 2 * b + 0 * a = b + b
    BY <1>3
  <2> QED BY <2>3, <2>4, <2>5 DEF n
<1>6. CASE Cardinality(operations) <= 1
  <2>1. rho = compute_density /\ ~ (Cardinality(operations) > 1)
    BY <1>1, <1>4, <1>6 DEF SymInv
  <2>2. Room
    BY <1>1, CoversIsRoom DEF SoundGrid
  <2>3. compute_density[p] = Unwrapped(n)
    BY <1>1, <2>2, ProductsDoNotAlias DEF Unwrapped, n
  <2>4. Average(n) = Unwrapped(n)
    BY <1>1, <1>2, <1>6, AverageOfOne
  <2>5. Times(Norm, Average(n)) = <<1 * a - 0 * b, 1 * b + 0 * a>>
    BY <1>3, <2>1 DEF Times, Norm
  <2> HIDE DEF a, b
  <2>6. 1 * a - 0 * b = a /\ 1 * b + 0 * a = b
    BY <1>3
  <2> QED BY <1>3, <2>1, <2>3, <2>4, <2>5, <2>6 DEF n
<1> QED BY <1>4, <1>5, <1>6

\* So it always holds.
LEMMA SymInvariant == Spec => []SymInv
BY SymInvInit, SymInvNext, PTL DEF Spec

\* On a sound grid, symmetrizing is exactly the average over the operations of
\* the unwrapped density (g_space.rs:83), for every cell, cutoff, state and
\* grid: no coefficient is lost, moved or made up where an index wraps, and the
\* real part drops nothing (translations by quarters of the cell).
THEOREM SymmetrizingAverages == Spec => []SymmetrizedIsGroupAverage
<1>1. SymInv => SymmetrizedIsGroupAverage
  <2> SUFFICES ASSUME SymInv, pc = "done", SoundGrid, NEW p \in Points
               PROVE  rho[p] = Times(Norm, Total([op \in operations |->
                        Times(Twist(op, flat_to_miller(p)),
                              TrueCoefficient(TrueDensity, Carried(op, flat_to_miller(p))))]))
    BY DEF SymmetrizedIsGroupAverage, Norm
  <2>1. rho[p] = Times(Norm, Average(flat_to_miller(p)))
    BY DoneIsAverage
  <2> QED BY <2>1 DEF Average, Term, Unwrapped
<1> QED BY <1>1, SymInvariant, PTL

\* Wrapping a vector does not change its scalar products by more than whole
\* turns.
LEMMA DotOfWrapped ==
  ASSUME NEW n \in [Axes -> Int], NEW t, IsVector(t)
  PROVE  Dot(n, Wrap(t)) \in Int /\ Dot(n, Wrap(t)) % 4 = Dot(n, t) % 4
<1> DEFINE w == Wrap(t)
           f(i) == n[i] * w[i]
           g(i) == n[i] * t[i]
<1>1. IsVector(w) /\ SamePlace(w, t) /\ Unit = 4 /\ 4 \in Nat \ {0}
  BY WrapStays, DensityAssumption DEF DensityAssumption
<1>2. ASSUME NEW i \in Axes
      PROVE  f(i) \in Int /\ g(i) \in Int /\ SameResidue(4, f(i), g(i))
  <2> DEFINE x == w[i]
             y == t[i]
             k == n[i]
  <2>1. x \in Int /\ y \in Int /\ k \in Int /\ SameResidue(4, x, y)
    BY <1>1 DEF IsVector, SamePlace, SameResidue
  <2> HIDE DEF x, y, k, w
  <2>2. SameResidue(4, k * x, k * y)
    BY <1>1, <2>1, ResiduesScale
  <2>3. f(i) = k * x /\ g(i) = k * y
    BY DEF k, x, y
  <2> QED BY <2>1, <2>2, <2>3
<1>3. Dot(n, w) = f(1) + f(2) + f(3) /\ Dot(n, t) = g(1) + g(2) + g(3)
  BY DEF Dot
<1>4. 1 \in Axes /\ 2 \in Axes /\ 3 \in Axes
  BY DEF Axes
<1> HIDE DEF f, g
<1>5. /\ f(1) \in Int /\ f(2) \in Int /\ f(3) \in Int
      /\ g(1) \in Int /\ g(2) \in Int /\ g(3) \in Int
      /\ SameResidue(4, f(1), g(1)) /\ SameResidue(4, f(2), g(2)) /\ SameResidue(4, f(3), g(3))
  BY <1>2, <1>4
<1>6. SameResidue(4, f(1) + f(2), g(1) + g(2))
  BY <1>1, <1>5, ResiduesAdd
<1>7. SameResidue(4, (f(1) + f(2)) + f(3), (g(1) + g(2)) + g(3))
  <2>1. f(1) + f(2) \in Int /\ g(1) + g(2) \in Int
    BY <1>5
  <2> QED BY <1>1, <1>5, <1>6, <2>1, ResiduesAdd
<1>8. Dot(n, w) \in Int
  BY <1>3, <1>5
<1> QED BY <1>3, <1>7, <1>8 DEF SameResidue

\* A rotation on one side of a scalar product is its transpose on the other.
LEMMA DotMovesRotation ==
  ASSUME NEW n \in [Axes -> Int], NEW r, IsMatrix(r), NEW t, IsVector(t), NEW u, IsVector(u)
  PROVE  Dot(n, Plus(Apply(r, t), u)) = Dot(Apply(Transpose(r), n), t) + Dot(n, u)
<1> DEFINE x == n[1]
           y == n[2]
           z == n[3]
           a == r[1][1]
           b == r[1][2]
           c == r[1][3]
           d == r[2][1]
           e == r[2][2]
           f == r[2][3]
           g == r[3][1]
           h == r[3][2]
           k == r[3][3]
           p == t[1]
           q == t[2]
           s == t[3]
           u1 == u[1]
           u2 == u[2]
           u3 == u[3]
           v == Plus(Apply(r, t), u)
           w == Apply(Transpose(r), n)
<1>1. /\ a \in Int /\ b \in Int /\ c \in Int
      /\ d \in Int /\ e \in Int /\ f \in Int
      /\ g \in Int /\ h \in Int /\ k \in Int
  BY MatrixEntries
<1>2. /\ x \in Int /\ y \in Int /\ z \in Int /\ p \in Int /\ q \in Int /\ s \in Int
      /\ u1 \in Int /\ u2 \in Int /\ u3 \in Int
  BY DEF IsVector, Axes
<1>3. /\ v[1] = a * p + b * q + c * s + u1
      /\ v[2] = d * p + e * q + f * s + u2
      /\ v[3] = g * p + h * q + k * s + u3
  BY DEF Plus, Apply, Axes
<1>4. /\ w[1] = a * x + d * y + g * z
      /\ w[2] = b * x + e * y + h * z
      /\ w[3] = c * x + f * y + k * z
  BY DEF Apply, Transpose, Axes
<1>5. /\ Dot(n, v) = x * v[1] + y * v[2] + z * v[3]
      /\ Dot(w, t) = w[1] * p + w[2] * q + w[3] * s
      /\ Dot(n, u) = x * u1 + y * u2 + z * u3
  BY DEF Dot
<1> HIDE DEF x, y, z, a, b, c, d, e, f, g, h, k, p, q, s, u1, u2, u3, v, w
<1>6. x * (a * p + b * q + c * s + u1) + y * (d * p + e * q + f * s + u2)
        + z * (g * p + h * q + k * s + u3)
      = (a * x + d * y + g * z) * p + (b * x + e * y + h * z) * q
        + (c * x + f * y + k * z) * s + (x * u1 + y * u2 + z * u3)
  BY <1>1, <1>2
<1>7. Dot(n, v) = Dot(w, t) + Dot(n, u)
  BY <1>3, <1>4, <1>5, <1>6
<1> QED BY <1>7 DEF v, w

\* The term of a composition is that of its second operation, carried and
\* twisted by the first.
LEMMA TermOfComposition ==
  ASSUME InputInv, NEW a \in operations, NEW b \in operations, Compose(a, b) \in operations,
         NEW n \in [Axes -> Int]
  PROVE  Term(Compose(a, b), n) = Times(Twist(a, n), Term(b, Carried(a, n)))
<1> DEFINE r == a.rotation
           s == b.rotation
           t == b.translation
           u == a.translation
           m == Carried(a, n)
           v == Plus(Apply(r, t), u)
           c == Compose(a, b)
<1>1. /\ IsMatrix(r) /\ IsMatrix(s) /\ r \in Matrix /\ s \in Matrix
      /\ IsVector(t) /\ IsVector(u) /\ m \in [Axes -> Int]
      /\ IsMatrix(Transpose(r)) /\ IsMatrix(Transpose(s))
  BY OperationFacts
<1>2. c.rotation = Product(r, s) /\ c.translation = Wrap(v)
  BY DEF Compose, Operation
<1>3. IsVector(v)
  BY <1>1, ApplyIsVector, VectorSums
<1>4. Carried(c, n) = Carried(b, m)
  <2> DEFINE L == Apply(Transpose(Product(r, s)), n)
             R == Apply(Transpose(s), Apply(Transpose(r), n))
             P == Product(Transpose(s), Transpose(r))
  <2>1. Transpose(Product(r, s)) = P
    BY <1>1, TransposeOfProduct
  <2>2. \A i \in Axes : Apply(P, n)[i] = R[i]
    <3>1. IsVector(n)
      BY VectorOperators
    <3> QED BY <1>1, <3>1, ProductActs
  <2>3. Apply(P, n) \in [Axes -> Int] /\ R \in [Axes -> Int]
    <3>1. IsMatrix(P)
      BY <1>1, ProductEntries
    <3> HIDE DEF P
    <3>2. Apply(Transpose(r), n) \in [Axes -> Int]
      BY <1>1, VectorOperators
    <3> QED BY <1>1, <3>1, <3>2, VectorOperators
  <2>4. L = R
    <3> HIDE DEF R, P
    <3> QED BY <2>1, <2>2, <2>3, VectorEqual
  <2> QED BY <1>2, <2>4 DEF Carried
<1>5. Twist(c, n) = Times(Twist(a, n), Twist(b, m))
  <2> DEFINE A == Dot(n, u)
             B == Dot(m, t)
             C == Dot(n, Wrap(v))
  <2>1. A \in Int /\ B \in Int
    BY <1>1, DotOfNegated
  <2>2. Dot(n, v) = B + A
    BY <1>1, DotMovesRotation DEF Carried
  <2>3. C \in Int /\ C % 4 = Dot(n, v) % 4
    BY <1>3, DotOfWrapped
  <2>4. Twist(c, n) = PowerOfI(-C) /\ Twist(a, n) = PowerOfI(-A) /\ Twist(b, m) = PowerOfI(-B)
    BY <1>2 DEF Twist
  <2> HIDE DEF A, B, C, m, v
  <2>5. (-C) % 4 = ((-A) + (-B)) % 4 /\ -A \in Int /\ -B \in Int /\ -C \in Int
    BY <2>1, <2>2, <2>3
  <2>6. PowerOfI(-C) = PowerOfI((-A) + (-B))
    BY <2>5, Turns
  <2>7. PowerOfI((-A) + (-B)) = Times(PowerOfI(-A), PowerOfI(-B))
    BY <2>5, Turns
  <2> QED BY <2>4, <2>6, <2>7
<1>6. /\ Twist(a, n) \in Gaussian /\ Twist(b, m) \in Gaussian
      /\ Unwrapped(Carried(b, m)) \in Gaussian
  BY <1>1, TermFacts
<1> HIDE DEF c, m
<1>7. Term(c, n) = Times(Times(Twist(a, n), Twist(b, m)), Unwrapped(Carried(b, m)))
  BY <1>4, <1>5 DEF Term
<1>8. Term(c, n) = Times(Twist(a, n), Term(b, m))
  BY <1>6, <1>7, TimesAssociates DEF Term
<1> QED BY <1>8 DEF c, m

\* So the average is invariant where the operations are a group.
LEMMA AverageIsInvariant ==
  ASSUME InputInv, RadiusCovers(cell.metric), IsPrimitive(cell.atoms),
         NEW a \in operations, NEW n \in [Axes -> Int]
  PROVE  Average(n) = Times(Twist(a, n), Average(Carried(a, n)))
<1> DEFINE m == Carried(a, n)
           z == Twist(a, n)
           f == [b \in operations |-> Term(b, m)]
           g == [b \in operations |-> Times(z, Term(b, m))]
           h == [b \in operations |-> Term(b, n)]
           r == [b \in operations |-> Compose(a, b)]
<1>1. r \in Bijection(operations, operations)
  BY CellIsCrystal, CompositionPermutes
<1>2. ASSUME NEW b \in operations PROVE Compose(a, b) \in operations /\ r[b] = Compose(a, b)
  <2>1. r[b] = Compose(a, b)
    OBVIOUS
  <2> HIDE DEF r
  <2>2. r[b] \in operations
    BY <1>1 DEF Bijection, Injection, Surjection
  <2> QED BY <2>1, <2>2
<1>3. m \in [Axes -> Int] /\ z \in Gaussian
  BY OperationFacts, TermFacts
<1>4. ASSUME NEW b \in operations
      PROVE  f[b] \in Gaussian /\ g[b] = Times(z, f[b]) /\ g[b] \in Gaussian /\ h[r[b]] = g[b]
  <2>1. Term(Compose(a, b), n) = Times(z, Term(b, m))
    BY <1>2, TermOfComposition
  <2>2. f[b] = Term(b, m) /\ g[b] = Times(z, Term(b, m))
    OBVIOUS
  <2>3. h[r[b]] = Term(Compose(a, b), n)
    BY <1>2
  <2> HIDE DEF f, g, h, r, m, z
  <2>4. Term(b, m) \in Gaussian
    BY <1>3, TermFacts
  <2> QED BY <1>3, <2>1, <2>2, <2>3, <2>4, TimesGaussian
<1>5. /\ DOMAIN f = operations /\ DOMAIN g = operations /\ DOMAIN h = operations
      /\ Average(n) = Total(h) /\ Average(m) = Total(f)
      /\ IsFiniteSet(operations)
  BY OperationsFinite DEF Average
<1> HIDE DEF f, g, h, r, m, z
<1>6. Total(g) = Times(z, Total(f))
  <2>1. \A b \in operations : f[b] \in Gaussian
    BY <1>4
  <2>2. \A b \in operations : g[b] = Times(z, f[b])
    BY <1>4
  <2> QED BY <1>3, <1>5, <2>1, <2>2, TotalTimes
<1>7. Total(h) = Total(g)
  <2>1. \A b \in operations : g[b] \in Gaussian
    BY <1>4
  <2>2. \A b \in operations : h[r[b]] = g[b]
    BY <1>4
  <2> QED BY <1>1, <1>5, <2>1, <2>2, TotalRenamed
<1> QED BY <1>5, <1>6, <1>7 DEF m, z

\* The symmetrized density has every symmetry it was averaged over
\* (g_space.rs:183): in a primitive cell whose search radius covers it, on a
\* sound grid, the coefficients of all indices on an orbit agree up to the
\* phase of the translation, for every cutoff, state, grid and order of the
\* tasks.  The cell's points are its quarters (Unit = 4): crystals with atoms or
\* translations at thirds or sixths are outside.
THEOREM SymmetrizedIsInvariant ==
  Spec => [](RadiusCovers(cell.metric) /\ IsPrimitive(cell.atoms) => SymmetrizedDensityIsInvariant)
<1>1. SymInv => (RadiusCovers(cell.metric) /\ IsPrimitive(cell.atoms) => SymmetrizedDensityIsInvariant)
  <2> SUFFICES ASSUME SymInv, RadiusCovers(cell.metric), IsPrimitive(cell.atoms),
                      pc = "done", SoundGrid, NEW op \in operations, NEW p \in Points
               PROVE  rho[p] = Times(Twist(op, flat_to_miller(p)),
                                     Coefficient(Carried(op, flat_to_miller(p))))
    BY DEF SymmetrizedDensityIsInvariant
  <2> DEFINE n == flat_to_miller(p)
             m == Carried(op, n)
             z == Twist(op, n)
  <2>1. InputInv /\ Dims /\ Covers /\ BasisIsCutoffSphere
    BY DEF SymInv, BInv, GridInv, DimsInv, Dims, SoundGrid
  <2>2. n \in [Axes -> Int]
    <3>1. \A i \in Axes : n[i] \in Int
      BY <2>1, PointIndices
    <3>2. n = [i \in Axes |-> n[i]]
      BY DEF flat_to_miller
    <3> HIDE DEF n
    <3> QED BY <3>1, <3>2
  <2>3. rho[p] = Times(Norm, Average(n))
    BY DoneIsAverage
  <2> HIDE DEF n
  <2>4. m \in [Axes -> Int] /\ z \in Gaussian
    BY <2>1, <2>2, OperationFacts, TermFacts
  <2>5. Average(n) = Times(z, Average(m)) /\ Average(m) \in Gaussian
    BY <2>1, <2>2, <2>4, AverageIsInvariant, AverageIsReal DEF m, z
  <2> HIDE DEF m, z
  <2>6. Norm \in Gaussian
    BY DEF Norm, Gaussian
  <2>7. Coefficient(m) = Times(Norm, Average(m))
    <3>1. miller_to_idx(m) \in Points
      BY <2>1, <2>4, WrappedIsPoint
    <3>2. CASE flat_to_miller(miller_to_idx(m)) = m
      BY <3>1, <3>2, DoneIsAverage DEF Coefficient
    <3>3. CASE flat_to_miller(miller_to_idx(m)) # m
      <4>1. ~ IsDifference(m)
        BY <2>1, <3>3, CoversIsRoom
      <4>2. Average(m) = Zero
        BY <2>1, <2>4, <4>1, AverageOutside
      <4>3. Times(Norm, Zero) = Zero
        BY <2>6, ConjOfTimes
      <4> QED BY <3>3, <4>2, <4>3 DEF Coefficient
    <3> QED BY <3>2, <3>3
  <2>8. Times(Norm, Times(z, Average(m))) = Times(z, Times(Norm, Average(m)))
    <3>1. /\ Times(Norm, Times(z, Average(m))) = Times(Times(Norm, z), Average(m))
          /\ Times(z, Times(Norm, Average(m))) = Times(Times(z, Norm), Average(m))
      BY <2>4, <2>5, <2>6, TimesAssociates
    <3>2. Times(Norm, z) = Times(z, Norm)
      BY <2>4, <2>6, ConjOfTimes
    <3> QED BY <3>1, <3>2
  <2>9. rho[p] = Times(z, Coefficient(m))
    BY <2>3, <2>5, <2>7, <2>8
  <2> QED BY <2>9 DEF n, m, z
<1> QED BY <1>1, SymInvariant, PTL
=============================================================================
