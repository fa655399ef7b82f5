--------------------------- MODULE DensityOnGrid ---------------------------
(***************************************************************************)
(* From the plane waves of a cell to a symmetrized density on its FFT      *)
(* grid: basis.rs (the cutoff sphere), fft.rs and scf/grid.rs (the grid    *)
(* and its wrapped Miller indices), the accumulation of scf/density.rs and *)
(* the G-space symmetrizer of symmetry/density/g_space.rs.                 *)
(*                                                                         *)
(* A point of the grid is the triple of its indices, last axis fastest in  *)
(* the flat array.  A state is the sum of two plane waves, so that every   *)
(* coefficient of its density is exact; coefficients are Gaussian integers *)
(* and the averages are not divided by what they are averaged over.        *)
(***************************************************************************)
EXTENDS SpaceGroup, FiniteSetsExt

CONSTANTS
  Cells,        \* records of metric, atoms and cutoff (of adj(metric), |G|^2)
  Ratios,       \* ecutrho_ratio
  FftGrids,     \* BasisSettings::fft_grid, explicit dimensions, or None
  MAX_FFT_DIM,  \* 1024
  None          \* Option::None

ASSUME DensityAssumption ==
  /\ Unit = 4              \* translations in quarters: phases are powers of i
  /\ \A c \in Cells :   \* lattices have positive definite metrics
       /\ c.metric \in [Axes -> [Axes -> Int]]
       /\ \A i, j \in Axes : c.metric[i][j] = c.metric[j][i]
       /\ \A i \in Axes : c.metric[i][i] > 0 /\ Cofactor(c.metric, i, i) \in Nat \ {0}
       /\ Det(c.metric) > 0
       /\ c.atoms \in Seq([z : Nat, position : [Axes -> Int]])
       /\ c.cutoff \in Nat \ {0}
  /\ Ratios \subseteq Nat \ {0}
  /\ \A d \in FftGrids : d # None => d \in [Axes -> Nat \ {0}]
  /\ MAX_FFT_DIM \in Nat

VARIABLES
  cell, ecutrho_ratio, fft_grid,
  operations,   \* SymmetryInfo::operations
  psi,          \* the state: two waves of the basis, and the power of i between
  pc,
  dims,         \* FftGrid::dims
  rho_g,        \* coefficients before symmetrization
  rho_g_sym,    \* and the accumulated ones
  slabs,        \* xy-planes written so far
  rho           \* coefficients of the density that leaves

input == <<cell, ecutrho_ratio, fft_grid, operations, psi>>
vars == <<input, pc, dims, rho_g, rho_g_sym, slabs, rho>>

-----------------------------------------------------------------------------
(* Complex numbers.                                                        *)

Zero == <<0, 0>>
Times(a, b) == <<a[1] * b[1] - a[2] * b[2], a[1] * b[2] + a[2] * b[1]>>
Conj(a) == <<a[1], -a[2]>>
PowerOfI(k) == <<<<1, 0>>, <<0, 1>>, <<-1, 0>>, <<0, -1>>>>[(k % 4) + 1]

\* Sum of the values of a function, most of which are zero.
Total(f) ==
  LET terms == {x \in DOMAIN f : f[x] # Zero}
      part(i) == SumFunctionOnSet([x \in terms |-> f[x][i]], terms)
  IN  <<part(1), part(2)>>

-----------------------------------------------------------------------------
(* The basis.                                                              *)

Abs(n) == IF n < 0 THEN -n ELSE n

\* det(M) |G|^2, where M is the metric of the direct lattice.
NormSquared(c, n) == DotMetric(n, n, [i \in Axes |-> [j \in Axes |-> Cofactor(c.metric, i, j)]])

\* -n_i_max ..= n_i_max with n_i_max = ceil(g_max / |b_i|).
LoopRange(c, i) ==
  {n \in -(c.cutoff + 1) .. c.cutoff + 1 :
     n = 0 \/ (Abs(n) - 1) * (Abs(n) - 1) * Cofactor(c.metric, i, i) < c.cutoff}

Basis(c) ==
  {n \in LoopRange(c, 1) \X LoopRange(c, 2) \X LoopRange(c, 3) :
     NormSquared(c, n) <= c.cutoff}

\* The order in which the loops push them.
Lexicographic(g, h) ==
  \E i \in Axes : g[i] < h[i] /\ \A j \in 1 .. i - 1 : g[j] = h[j]

n_max(i) == Max({Abs(n[i]) : n \in Basis(cell)})

-----------------------------------------------------------------------------
(* The grid.                                                               *)

\* (mutant of Scale: isqrt rounded down)
ScaleRoundedDown(ratio) == Max({s \in 1 .. ratio : s * s <= ratio})

\* ceil(sqrt(ecutrho_ratio))
Scale(ratio) == CHOOSE s \in 1 .. ratio : ratio <= s * s /\ (s - 1) * (s - 1) < ratio

\* is_fft_friendly: nothing is left after dividing by 2, 3 and 5.
IsFftFriendly(n) ==
  LET friendly[k \in 1 .. n] ==
        \/ k = 1
        \/ \E p \in {2, 3, 5} : k % p = 0 /\ friendly[k \div p]
  IN  friendly[n]

Unfriendly == {i \in Axes : ~ IsFftFriendly(dims[i])}

\* ((n % d) + d) % d on each axis, with the remainder of Rust, is n % d here.
miller_to_idx(n) == [i \in Axes |-> n[i] % dims[i]]

flat_to_miller(p) ==
  [i \in Axes |-> IF p[i] > dims[i] \div 2 THEN p[i] - dims[i] ELSE p[i]]

Planes(i) == 0 .. dims[i] - 1
Points == Planes(1) \X Planes(2) \X Planes(3)

Init ==
  /\ cell \in Cells
  /\ operations \in {FindSymmetryOperations(cell), {IdentityOp}}
  /\ ecutrho_ratio \in Ratios
  /\ fft_grid \in FftGrids
  /\ fft_grid # None => ecutrho_ratio = Max(Ratios)   \* it is not read then
  /\ psi \in [first : Basis(cell), second : Basis(cell), power : {0, 1}]
  /\ Lexicographic(psi.first, psi.second)
  /\ pc = "grid"
  /\ dims = <<0, 0, 0>>
  /\ rho_g = None /\ rho_g_sym = None /\ slabs = {} /\ rho = None

\* FftGrid::new: explicit dimensions, or the first candidates for the search.
StartGrid ==
  /\ pc = "grid"
  /\ IF fft_grid # None
     THEN dims' = fft_grid /\ pc' = "check"
     ELSE /\ dims' = [i \in Axes |-> 2 * (Scale(ecutrho_ratio) * n_max(i)) + 1]
          /\ pc' = "search"
  /\ UNCHANGED <<input, rho_g, rho_g_sym, slabs, rho>>

\* fft_grid_size, axis by axis.
TrySize ==
  /\ pc = "search"
  /\ IF Unfriendly = {}
     THEN dims' = dims /\ pc' = "check"
     ELSE dims' = [dims EXCEPT ![Min(Unfriendly)] = @ + 1] /\ pc' = pc
  /\ UNCHANGED <<input, rho_g, rho_g_sym, slabs, rho>>

\* (mutant of TooLarge: an && for an ||)
TooLargeEverywhere == \A i \in Axes : dims[i] > MAX_FFT_DIM

TooLarge == \E i \in Axes : dims[i] > MAX_FFT_DIM

CheckGrid ==
  /\ pc = "check"
  /\ pc' = IF TooLarge THEN "panicked" ELSE "density"
  /\ UNCHANGED <<input, dims, rho_g, rho_g_sym, slabs, rho>>

-----------------------------------------------------------------------------
(* The density of the state.                                               *)

\* Its coefficient of the plane wave g.
wfn(g) == IF g = psi.first THEN <<1, 0>>
          ELSE IF g = psi.second THEN PowerOfI(psi.power) ELSE Zero

\* psi_g[g_to_fft[ig]] = wfn[ig] in the order of the basis: the last plane
\* wave of a point stays.
psi_g(p) ==
  LET here == {g \in Basis(cell) : miller_to_idx(g) = p}
  IN  wfn(CHOOSE g \in here : \A h \in here : h = g \/ Lexicographic(h, g))

Minus(g, h) == Plus(g, Negated(h))

\* Sums of the products of two amplitudes, by their difference.
Correlation(amplitude, difference) ==
  [d \in {difference[x] : x \in DOMAIN difference} |->
     Total([x \in {y \in DOMAIN difference : difference[y] = d} |->
              Times(amplitude[x[1]], Conj(amplitude[x[2]]))])]

\* |psi(r)|^2 on the grid, forward transformed: a circular correlation.
CircularCorrelation ==
  LET points == {miller_to_idx(g) : g \in {psi.first, psi.second}}
  IN  Correlation([p \in points |-> psi_g(p)],
                  [x \in points \X points |-> miller_to_idx(Minus(x[1], x[2]))])

compute_density ==
  LET products == CircularCorrelation
  IN  [p \in Points |-> IF p \in DOMAIN products THEN products[p] ELSE Zero]

BuildDensity ==
  /\ pc = "density"
  /\ rho_g' = compute_density
  /\ pc' = "symmetrize"
  /\ UNCHANGED <<input, dims, rho_g_sym, slabs, rho>>

-----------------------------------------------------------------------------
(* symmetrize_density_g.                                                   *)

Dot(n, tau) == n[1] * tau[1] + n[2] * tau[2] + n[3] * tau[3]

\* (mutant of Rotated: the rotation of direct space)
RotatedDirectly(op, n) == Apply(op.rotation, n)

Rotated(op, n) == Apply(Transpose(op.rotation), n)

\* (mutant of Phase: of the source, not the destination)
PhaseOfSource(op, n) == PowerOfI(-Dot(Rotated(op, n), op.translation))

\* exp(-i 2 pi n . tau)
Phase(op, n) == PowerOfI(-Dot(n, op.translation))

\* Sum over the operations at the point p.
Accumulated(p) ==
  LET n_dst == flat_to_miller(p)
  IN  Total([op \in operations |->
        Times(Phase(op, n_dst), rho_g[miller_to_idx(Rotated(op, n_dst))])])

\* n_ops <= 1
SkipSymmetry ==
  /\ pc = "symmetrize"
  /\ Cardinality(operations) <= 1
  /\ rho' = rho_g
  /\ pc' = "done"
  /\ UNCHANGED <<input, dims, rho_g, rho_g_sym, slabs>>

StartSymmetry ==
  /\ pc = "symmetrize"
  /\ Cardinality(operations) > 1
  /\ rho_g_sym' = [p \in Points |-> Zero]
  /\ pc' = "accumulate"
  /\ UNCHANGED <<input, dims, rho_g, slabs, rho>>

\* One rayon task per xy-plane, in any order.
SymmetrizeSlab(ix) ==
  /\ pc = "accumulate"
  /\ ix \notin slabs
  /\ slabs' = slabs \cup {ix}
  /\ rho_g_sym' = [p \in Points |-> IF p[1] = ix THEN Accumulated(p) ELSE rho_g_sym[p]]
  /\ UNCHANGED <<input, pc, dims, rho_g, rho>>

\* Twice the real part in real space.
TakeRealPart ==
  /\ pc = "accumulate"
  /\ slabs = Planes(1)
  /\ rho' = [p \in Points |->
       LET a == rho_g_sym[p]
           b == Conj(rho_g_sym[miller_to_idx(Negated(p))])
       IN  <<a[1] + b[1], a[2] + b[2]>>]
  /\ pc' = "done"
  /\ UNCHANGED <<input, dims, rho_g, rho_g_sym, slabs>>

Next ==
  \/ StartGrid \/ TrySize \/ CheckGrid \/ BuildDensity
  \/ SkipSymmetry \/ StartSymmetry \/ TakeRealPart
  \/ \E ix \in Planes(1) : SymmetrizeSlab(ix)
Spec == Init /\ [][Next]_vars

-----------------------------------------------------------------------------
\* The variables hold values of their types, and no grid beyond the limit the
\* i32 casts rely on is used (grid.rs:75).
GridTypeOK ==
  /\ pc \in {"grid", "search", "check", "panicked"}
             \cup {"density", "symmetrize", "accumulate", "done"}
  /\ pc # "grid" => \A i \in Axes : dims[i] \in Nat \ {0}
  /\ pc \in {"density", "symmetrize", "accumulate", "done"} =>
       \A i \in Axes : dims[i] <= MAX_FFT_DIM
  /\ slabs \subseteq Planes(1)
  /\ rho_g # None => DOMAIN rho_g = Points
  /\ pc = "done" => DOMAIN rho = Points

\* The density of the state, by Miller indices that are not wrapped.
TrueDensity ==
  LET waves == {psi.first, psi.second}
  IN  Correlation([g \in waves |-> wfn(g)],
                  [x \in waves \X waves |-> Minus(x[1], x[2])])
TrueCoefficient(density, n) == IF n \in DOMAIN density THEN density[n] ELSE Zero

\* On a grid the code chooses, from an ecutrho_ratio of 2 on, every product of
\* two plane waves sits at its own point and is read back at its own Miller
\* index: nothing wraps (grid.rs:142).
DefaultGridDoesNotAlias ==
  pc = "done" /\ fft_grid = None /\ ecutrho_ratio >= 2 =>
    LET density == TrueDensity
    IN  \A p \in Points : rho_g[p] = TrueCoefficient(density, flat_to_miller(p))

\* The operations take grid points to grid points: the image of the point
\* k / dims has the coordinates R_ij k_j / dims_j.  The SCF does not see to it.
GridIsMapped ==
  \A op \in operations : \A i, j \in Axes :
    (op.rotation[i][j] * dims[i]) % dims[j] = 0

\* Room for every difference of two plane waves.
Covers == \A i \in Axes : dims[i] > 4 * n_max(i)

\* basis.rs:27: all reciprocal lattice vectors that satisfy the cutoff.
\* (n_i is G . a_i / 2 pi, so n_i^2 is at most |G|^2 M_ii.)
CutoffSphere(c) ==
  LET bound(i) == c.cutoff * c.metric[i][i]
      range(i) == {n \in -bound(i) .. bound(i) : n * n * Det(c.metric) <= bound(i)}
  IN  {n \in range(1) \X range(2) \X range(3) : NormSquared(c, n) <= c.cutoff}
BasisIsCutoffSphere == Basis(cell) = CutoffSphere(cell)

\* What an operation does to Fourier coefficients: the coefficient at n of the
\* moved density is Twist times the one at Carried.
Carried(op, n) == Apply(Transpose(op.rotation), n)
Twist(op, n) == PowerOfI(-Dot(n, op.translation))

\* A grid that the operations map onto itself, with room for the density of a
\* complete basis.
SoundGrid == Covers /\ GridIsMapped /\ BasisIsCutoffSphere

\* On a sound grid symmetrizing is exactly the average over the operations of
\* the unwrapped density, a translation of a quarter on a grid not divisible by
\* four included: no coefficient is lost, moved or made up, and taking the real
\* part drops nothing (g_space.rs:83).
SymmetrizedIsGroupAverage ==
  pc = "done" /\ SoundGrid =>
    LET density == TrueDensity
        average(n) == Total([op \in operations |->
                        Times(Twist(op, n), TrueCoefficient(density, Carried(op, n)))])
        norm == IF Cardinality(operations) > 1 THEN <<2, 0>> ELSE <<1, 0>>
    IN  \A p \in Points : rho[p] = Times(norm, average(flat_to_miller(p)))

\* The coefficient a density on the grid has at the Miller index n.
Coefficient(n) ==
  IF flat_to_miller(miller_to_idx(n)) = n THEN rho[miller_to_idx(n)] ELSE Zero

\* The symmetrized density has every symmetry it was averaged over: the average
\* is a projector (g_space.rs:183).  Grids that the rotations do not map onto
\* themselves, which the code neither rejects nor avoids, are excluded: there
\* coefficients outside the sphere wrap onto it (g_space.rs:104).
SymmetrizedDensityIsInvariant ==
  pc = "done" /\ SoundGrid =>
    \A op \in operations : \A p \in Points :
      LET n == flat_to_miller(p)
      IN  rho[p] = Times(Twist(op, n), Coefficient(Carried(op, n)))
=============================================================================
