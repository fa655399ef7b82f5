# A TLA+ model of pwdft-rs

pwdft-rs is a plane-wave density-functional-theory code in Rust: it reads a
crystal and pseudopotentials, reduces the Brillouin zone by symmetry, and runs a
self-consistent-field (SCF) loop that solves one Hermitian eigenproblem per
k-point and spin channel until density and energy settle. This directory holds
TLA+ modules that model the part of it which is *control*: the loop and its
parallel tasks, the hand-over of buffers between iterations, the warm starts and
sizes of the eigensolvers, the Fermi search and what the density does with its
occupations, the mixers' histories, the plane-wave basis and FFT grid, and the
exact integer arithmetic of the symmetry code. Numerical kernels are abstracted to what the
control can tell apart. TLC checks small instances; TLAPS proves the main
properties for all of them.

Source paths below are relative to `src/pwdft/pwdft-core/src/`; `faer` is the
vendored linear-algebra library `src/pwdft/faer/faer/src/`.

## 1. The system

| Component | State it keeps | Operations | Talks to |
|---|---|---|---|
| SCF drivers (`scf/driver.rs`, `driver_spin.rs`, `potentials.rs`, `context.rs`, `mod.rs`) | input density (r- and G-space), `h_scratch` matrices reused by every iteration, warm-start cache, `last_delta`, `e_prev` | build V_eff, fill and accumulate each Hamiltonian, solve (rayon tasks), occupations, new density, residual, energy, return or mix | eigensolvers (call per task), mixer (call per iteration), symmetry (weights in, symmetrizer out) |
| Eigensolvers (`eigensolver/`) | none between calls; one process-wide static, `ITERATIVE_FALLBACK_WARNED` | full dense, dense on a warm-start subspace with a residual gate, Arnoldi through faer with a dense fallback | faer; the drivers' warm-start cache |
| Density mixing (`scf/mixing/`) | bounded histories, previous pair, adaptive beta with its streak | Anderson, Periodic Pulay, Broyden; `AdaptiveBeta::update`; a linear solve with a singular fallback | drivers |
| Symmetry and k-points (`symmetry/`, `kpoints.rs`) | the detected operations, the visited bitmap of the reduction | detect operations, Monkhorst-Pack grid, reduce, symmetrize a density | settings, drivers |
| Occupations (`scf/smearing.rs`, `scf/density.rs`) | the bracket of a search | Fermi-level bisection, four smearing schemes, entropy, density accumulation and rescaling | drivers |
| Basis, grid and density (`basis.rs`, `fft.rs`, `scf/grid.rs`, `symmetry/density/`) | grid dimensions, the array being symmetrized | cutoff sphere, 2-3-5 smooth sizes, scatter/gather of Miller indices, G-space symmetrizer with a rayon task per plane | all of the above |
| GPU offload (`gpu/mod.rs`) | pooled device buffers | FP32 kernels behind a feature | drivers |
| Settings and entry (`settings.rs`, `calculation.rs`, `main.rs`) | none | YAML, validation, assembling a run | everything |
| Pseudopotentials, functionals, Ewald, band paths, reports, validation harness | none | pure computation and I/O | drivers, settings |

What is hard here, and what makes each part correct:

* **Drivers.** All (spin, k-point) tasks of an iteration run concurrently on
  disjoint slices of one scratch vector which is never cleared; the nonlocal term
  is *accumulated*, so correctness rests on "fill first, then add" and on the
  slices being the right ones. Two spin channels are joined, and an error in
  either must end the run. A NaN channel is invisible to `f64::max`. Correct
  means: every task solves exactly its own matrix of this iteration, warm starts
  come from the same task one iteration earlier, no failure is lost, a converged
  result is genuine, a failure is honest, and the call returns.
* **Eigensolver sizing.** Two libraries clamp one dimension from two sides, and
  faer's self-adjoint path panics unless `max_dim < n`. Correct means: the chain
  of inequalities between bands, request, Krylov dimension and matrix size holds
  for every size, a result of Arnoldi holds its bands and an `Err` means it could not,
  and the call ends although Krylov vectors collapse.
* **Warm starts.** The dense solver reuses last iteration's subspace behind a gate
  on residuals, which sees neither that pairs are not the lowest nor that they are
  NaN. Correct means: what comes back are eigenpairs of this Hamiltonian, and the
  conditions under which they are the wrong ones or never finite again are known.
* **Occupations.** A bisection over a count that is not monotone for two of four
  schemes, jumps without smearing and is NaN if one eigenvalue is; a density that
  skips what the search counted and is rescaled silently; two Fermi levels of which
  only the mean is passed on; tails that leave something of every state empty. Correct
  means: the bracket keeps its meaning, a level that exists is found, and the density
  holds the electrons the search counted.
* **Grids.** Every Miller index wraps unchecked; phases and rotations of the
  symmetrizer come in pairs of which the wrong one works in simple crystals. Correct
  means: nothing wraps on a grid the code chooses, and symmetrizing is exactly the
  group average of the unwrapped density.
* **Mixing.** Two histories trimmed side by side, a linear system that is singular
  near convergence, a beta that is clamped from both sides over long call
  sequences. Correct means: histories stay aligned and recent, the mixed density
  keeps the electron number, beta stays in range and moves only as documented.
* **Symmetry.** The reducer rotates k-points by `(R^-1)^T`, the symmetrizer rotates
  Miller indices by `R^T`: a mistake in either is invisible in orthogonal cells.
  Correct means: the operations form a group, the reduction partitions the grid,
  is complete, and symmetrizing the weighted representatives gives the sum over
  the whole zone.

`PROJECT.json` lists every hazard with its line and the properties that would
catch it; those no property covers yet carry the reason.

## 2. The modules

| Module | Models | Proofs |
|---|---|---|
| `FloatOrder` | comparisons, `(a - b).abs()` and `f64::max` on finite values, NaN and infinity | |
| `ScfPromise` | what `run_scf` gives its caller, the inside of an iteration hidden | |
| `ScfLoop` | both SCF drivers, with rayon tasks, buffers, fallback and criteria; implements `ScfPromise` | `ScfLoopProofs` |
| `KrylovSolve` | `diagonalize_lowest_iterative`, its dense escape, faer's clamps, restart loop and reorthogonalization loop | `EigensolverProofs` |
| `SubspaceSolve` | `diagonalize_lowest` and `diagonalize_subspace` over the iterations of a run | `EigensolverProofs` |
| `Occupations` | `find_fermi_energy`, the occupation functions, the drivers' occupation steps, what `compute_density` skips and rescales | `OccupationsProofs` |
| `AdaptiveBeta` | the residual monitor | `MixerProofs` |
| `Mixer` | the three mixers, each driven by `AdaptiveBeta` | `MixerProofs` |
| `SpaceGroup` | group operations and their detection | `SpaceGroupProofs` |
| `KPointReduction` | symmetry set-up, Monkhorst-Pack grid, `reduce_kpoints`, the symmetrizer's weights; extends `SpaceGroup` | `KPointReductionProofs` |
| `DensityOnGrid` | basis, FFT grid, Miller wrapping, products on the grid, the symmetrizer; extends `SpaceGroup` | `DensityOnGridProofs` |

`IntegerFolds` holds what most proof modules need on finite sets of integers: least
and greatest members, the sums of `FiniteSetsExt` and powers of two. `ScfLoop` abstracts what `SubspaceSolve`,
`Occupations` and `Mixer` model in detail (which orbitals are finite, whether the
density is); the detailed modules each take one task, one iteration or one mixer.

An `MC` module per specification gives the instances for TLC. Operators named
"(mutant of X)" are plausible bugs of `X`, defined next to it; no specification uses
them. Each is put in place of `X` to confirm that the property it threatens would
notice.

### ScfLoop

`params.nspin` selects the driver; both have the same skeleton.

| Action | Code |
|---|---|
| `BuildPotentials` | loop head to V_eff: Hartree from `rho_g` (nspin = 1) or from `rho_up + rho_down` (nspin = 2), XC from `rho_r` |
| `FillHamiltonian(t)`, `AddNonlocal(t)` | `fill_hamiltonian_with_v_eff` overwrites the task's slot, `add_to_hamiltonian` accumulates onto it |
| `Solve(t)`, `ArnoldiFails(t)`, `FallBackToDense(t)`, `DenseFails(t)` | `diagonalize_dispatch` and its static `swap` |
| `JoinOk`, `JoinErr` | `collect::<Result<Vec<_>>>()` and the `?`s; the warm-start cache is refreshed only here |
| `Evaluate` | occupations, densities, residual, energy and the dual criterion |
| `Mix`, `GiveUp` | mixing and the next iteration; `ConvergenceFailure` after the last |

A task's steps interleave with every other task's: the rayon closure is split at
each write of shared state. A density or potential is the iteration it belongs
to and whether it is finite; a matrix is what was last written into its slot and
how many nonlocal terms it holds; wavefunctions are the task and iteration that
made them. Residuals and energies are levels around the thresholds, or NaN. NaNs
arise where the code can make them (potentials of a diverged density), and are
followed through solver, warm start, occupations and mixing; without smearing, a
NaN eigenvalue gets occupation 0, so the density stays finite and only the energy
shows it. `deltas` and `energies` are history variables.

### KrylovSolve

All arithmetic is that of `iterative.rs` and of faer's clamps. Of the numerics it
keeps how many wanted pairs are locked after a restart and how many vectors are
kept. A restart is a sweep (`StartSweep`), whose reorthogonalization loop runs pass by
pass (`Reorthogonalize`; one column stands for all of a sweep, the one that takes
longest), and the projected eigenproblem, which may fail (`LeaveFaer`) or lock pairs
(`Restart`). A vector that `collapsed` into the basis, or holds a NaN, passes no test
relative to its own norm: the loop ends only because the vendored copy counts its passes
(`MAX_REORTH`). `n_wanted` is the argument `n_bands` and `stage` the control
point: the names differ from those of `SubspaceSolve` so that `EigensolverProofs` can
extend both.

### SubspaceSolve

| Action | Code |
|---|---|
| `SolveFully` | no usable seed: `diagonalize_lowest` |
| `Rotate` | Rayleigh-Ritz in the span of the seed, gate passed |
| `FallBack` | gate tripped: `diagonalize_lowest` after all |
| `Fail` | `PwdftError::Eigensolver` for a matrix with NaN |
| `Iterate` | the driver caches the eigenvectors and builds the next Hamiltonian |

A Hamiltonian is block diagonal in the symmetry classes of its k-point. Each block
lies in a *frame*, which an update changes if it mixes the block's states by more
than `WFRX_RESIDUAL_TOL`; levels are integers, and levels of different blocks may
cross. A Ritz vector is an eigenvector wherever the seed holds its block whole or the
block's frame is unchanged. That is all the residual gate can see. `at_full` is a
history variable.

### Occupations

| Action | Code |
|---|---|
| `Bracket`, `BracketNothing` | the fold over the eigenvalues and the margin; no finite eigenvalue |
| `Bisect`, `ReturnLevel` | one step of the loop; the midpoint |
| `Occupy` | `compute_occupations`, per channel at its own level |
| `BuildDensity` | `compute_density`: skipped bands, integral, rescaling |

With `tot_magnetization` the spin driver searches twice ("up", then "down"), else
once over "both". Energies count halves of sigma, occupations 1e-5 of a state (tables of
the four functions). Their tails are not rounded away: what the code tells from nothing,
at its threshold of 1e-15, is one unit at least, out to 69 halves of sigma for
Fermi-Dirac (`FermiReach`) and 11 for the others, so that a state is full or empty in
the model only where it is in f64. The final bracket is one unit, of which the code may return either end: where the midpoint of
1e-14 falls is rounding. NaN passes through every arithmetic operation and fails
every comparison, as in the code.

### AdaptiveBeta and Mixer

beta is an integer number of `1/Unit`; products and quotients round down. A
density is the call it came from, so a mixed density is two rows of integer
weights (of the densities and of the residuals) over a denominator, 0 for a density
that is not finite. A residual is its norm and whether it is finite: an infinite norm may
be that of a finite residual whose squares overflow (`overflowed`). The linear system may
return any vector of `Coefficients`, the fallback the code uses for a singular matrix, or,
once an overflowed residual is among its calls, a vector that is not finite, which the
guard `abs() < 1e-15` lets through. Whatever it returns, a residual that is not finite
makes the mixed density so, and that density makes the next residual so. Finite norms
stand for residuals whose products, system and step stay in the range of f64.
`decreases` is a history variable: the number of good ratios since one that was not,
whatever iterations without a ratio lie between. `mixing_ndim` is not validated, so
histories of length 0 are among the inputs, and `panicked` records what then happens.

### SpaceGroup and KPointReduction

Metrics, rotations and positions are exact integers; the code compares floats
with small tolerances (a setting for the detection, `1e-6` for the grid), which on
exact coordinates decide alike. A
k-point is an integer triple over twice the number of grid points, so the
wrapping, the half-shift and the test "is on the grid" are the code's, exactly.
`CrystalAssumption` says no more of a crystal than that its metric is symmetric with a
positive diagonal; its atoms may be none, for which the code needs no translation.
`Fed(p, q)` are the terms of the symmetrizer's average at the k-point `p` and its
time-reversed partner that read the density at `q`, and `SymmetrizedWeight(p)` counts
them over the weighted representatives. Two predicates name the cells in which the
detection is complete: `RadiusCovers` (no integer vector as long as a basis vector lies
outside the search radius) and `IsPrimitive` (no translation but the lattice's maps the
atoms onto themselves).

### DensityOnGrid

| Action | Code |
|---|---|
| `StartGrid`, `TrySize`, `CheckGrid` | `FftGrid::new`, one step of `fft_grid_size` per action, the `MAX_FFT_DIM` assertion |
| `BuildDensity` | `compute_density` of one state: scatter, product, the circular correlation an FFT makes of it |
| `SkipSymmetry`, `StartSymmetry`, `SymmetrizeSlab(ix)`, `TakeRealPart` | `symmetrize_density_g`: the early return, the zeroed array, one rayon task per plane, the real part |

A state is two plane waves with a relative phase, so that every density coefficient
is a Gaussian integer; the density is bilinear in the wave, hence a sum over such
pairs. Translations are quarters of a lattice vector, phases powers of i, and the
average is left undivided. Lengths are exact through the metric tensor. Properties
compare with `TrueDensity`: the same sums of products by their difference
(`Correlation`), without wrapping. `SoundGrid` is their premise: a grid with room for all
differences of two plane waves (`Covers`), which the operations map onto itself
(`GridIsMapped`), and a basis that is the whole cutoff sphere. The code checks none of
the three; the first holds on the grids it chooses from ratio 2 on.

## 3. The runs

| Run | Question | Distinct states |
|---|---|---|
| `scf_tasks` | Two k-points, one or two channels, two iterations, every interleaving and failure: is every Hamiltonian and warm start the task's own and current, is no error lost, is the fallback announced once? | 740 376 |
| `scf_promise` | One k-point, three iterations, all residual and energy histories with NaN: does the loop implement `ScfPromise`, terminate, converge genuinely, fail honestly, NaN densities included? | 256 480 |
| `subspace_warm` | Two classes of two states, one to five bands, any chain of Hamiltonians, finite or not: are results eigenpairs of this Hamiltonian, when are they the wrong ones, does a NaN seed ever leave? | 472 320 |
| `krylov_sizes` | Sizes on both sides of every threshold, outside the window of `krylov_small`: ceiling chain, faer's assertion, room to restart, bands or `Err`, and does the call end whatever vectors collapse? | 121 818 |
| `occupations_levels` | Two k-points of different weight, all schemes, channels and magnetizations, NaN and degenerate levels, bands full, too few or empty: does the bracket hold, is a level found wherever the tails leave one, does the density hold what was counted? | 419 024 |
| `mixer_histories` | Six calls, three modes, histories of 0 to 3, all residuals, not finite and overflowing ones included: aligned recent histories, affine weights or a density known not to be finite, beta in range, raised only when earned, a panic only without history | 163 261 |
| `density_grid` | Four crystals, ratios 1, 2 and 4 and explicit grids, every pair of plane waves, slabs in any order: does anything wrap, is symmetrizing the group average, is its result invariant, is the size limit kept? | 13 860 |
| `kpoint_zone` | Diamond, zincblende, hcp, triclinic, trigonal (a screw axis) on four grids: partition and its weights, completeness, symmetrizer undoes the reduction, operations form a group | 1 248 |
| `krylov_small`, `occupations_step`, `basis_cell`, `kpoint_cell` | one claim of the text each, refuted: section 6 | |

**Why the bounds are enough.** `scf_tasks`: a leak between slots needs two tasks
of a channel or two channels, one across time needs two iterations. (Proved for
all.) `scf_promise`: an energy comparison spans two iterates, and three tell "the
previous" from "the first"; energy levels 0, 1, 2 with threshold 2 separate close
neighbours from a drift; per-k-point detail is irrelevant to it. `krylov_sizes`
takes both sides of 64 (faer's floor), 128 (the Krylov floor), 500 (the large-basis
margin), of `n = 2 n_bands + 2` (the dense escape), and 0. `mixer_histories`: six
calls exceed a history of 3 by the three calls needed to see it slide, contain a
full restore window with a degenerate norm inside, and with period 3 two extrapolations; the norms 0, 1, 3, 8,
NaN and infinity meet every band of the monitor; `BetaStart = 30` in thousandths
lets a few dampings reach the floor. `kpoint_zone`: an obtuse metric and an fcc
one distinguish `R^T`, `R^-1` and `(R^-1)^T`; GaAs, selenium and the polar crystal have no
inversion, so that time reversal matters; hcp, diamond and selenium have fractional
translations; grids are Gamma-centred, shifted, mixed and anisotropic, some of
which the operations do not preserve. `subspace_warm`: with two states in each of
two classes one to three bands hold a class whole, in part or not at all, and five
are more than there are plane waves; levels of the same and of different classes
change places, and two Hamiltonians in a row may be gate-passing. (Proved for all.)
`occupations_levels`: levels at distance 0, 1 and 7 half-sigmas are degenerate, within
a smearing and several sigma apart; weights 1 and 3 tell k-points apart; two electrons
of one channel fill the band, three are more than it holds, and magnetization 3 has no
solution; a `Margin` of twenty halves is the code's ten sigma, where Fermi-Dirac leaves
4.5e-5 of a state. `density_grid`: `Checkered` needs half translations, `Dimer` a
quarter one, `Hexagonal` tells `R` from `R^T`; cells short along one axis keep the
grids small and put one or five slabs across it; ratio 1 and the explicit grids do
wrap, and `MAX_FFT_DIM = 8` is exceeded along one axis only by one of them. With the same model Si has 8 irreducible
points on a Gamma-centred 4x4x4 grid and 10 on the shifted one, as the comment in
`kpoints.rs` says. Assumptions in `MCKPointReduction` make TLC evaluate that every
crystal of `kpoint_zone` satisfies `RadiusCovers` and `IsPrimitive`, and that each of
the two of `kpoint_cell` lacks one of them.

`CHECK_DEADLOCK FALSE` everywhere: each model is one call or one run, which ends.

**Fairness.** `scf_promise` and `krylov_sizes` use it: weak fairness of the whole
next-state relation, which says that as long as the program can do something it
eventually does. The drivers never wait for anything but the rayon tasks they spawned,
tasks take no locks, and rayon runs every spawned task or skips it after an error, so
this is all that the thread pool guarantees and no more: which task moves is never
constrained. `ArnoldiFails` cannot repeat within a task and the counter is bounded, so
nothing stronger is needed. `ScfLoop` takes an eigensolver call as a step, so `Terminates`
and `Implements` are conditional on every call returning or failing. For the dense path
that is taken of faer's direct decomposition; for Arnoldi it is `SolveReturns`, which
needs no more fairness than that the call's one thread runs. The condition fails in the
window of `krylov_small`, where the call panics and the run ends without returning, and
in the published faer 0.24, whose loop has no bound (section 6).

## 4. What is proved

TLAPS checks every leaf; the assumptions are the named `ASSUME`s of the modules
(at least one k-point, thresholds and levels are integers, NaN and the markers are
distinct from them, ...). `PROJECT.json` lists the theorems.

**ScfLoop**, for every number of k-points, `max_iter` (0 included) and set of
levels. The invariant is a conjunction of named parts, each needed by the next:

* `TypeOK` and `Control`: inside an iteration the counter is below `max_iter`, and
  a run has an outcome exactly when it has returned.
* `MatrixInv`: both copies of the density and V_eff belong to this iteration, and
  what each slot holds in each phase of its task. `HamiltonianIsCurrent` speaks only
  of assembled matrices; for an accumulation to end at one nonlocal term, the
  invariant must say that a filled slot has none. `SlotsDisjoint` supplies the
  frame: another task's write goes elsewhere.
* `FlowInv`: where wavefunctions come from. The cache holds the previous iteration's
  results of the same task, a solved task's `found` is this iteration's, finiteness
  travels from density to potential to matrix to orbital, and warnings and failures
  are still visible where they were raised.
* `LogInv`: the logs are filled for the iterates done, `e_prev` and `last_delta` are
  those of the last one, and no logged iterate met the criteria while the loop runs.
* `ChannelInv`: a converged run is below the threshold in each channel with finite
  orbitals. It carries `ConvergedIsGenuine` past `f64::max`: an energy that passed
  has all orbitals finite, hence no residual is NaN, and then a maximum below the
  threshold bounds both channels.

From it: `TypeCorrect`, `HamiltonianStaysCurrent`, `WarmStartStaysPrevious`,
`ErrorsAreNotSwallowed`, `WarnsOnce`, `ConvergenceIsGenuine`, `FailuresAreHonest`,
and `LoopImplementsPromise`, the safety part of the refinement (of a promise that, unlike
`scf/mod.rs:342`, has no error for a NaN density): initial states map to initial states, `Evaluate` to `Iterate`, `JoinErr` to `Break`, `GiveUp` to
`GiveUp`, and every other step to a stutter.

**KrylovSolve**, for every set of sizes: `CeilingChainHolds` from the escape tests
alone; `RestartsHaveRoom` and `BandsOrErrors` from it and the bounds of `Kept` (a result
of Arnoldi holds all the bands, an `Err` means fewer converged, the dense escape returns
`min(n_bands, n)` pairs, none for an empty matrix); and
`AssertionHoldsOutsideWindow`, that faer's assertion can fail for no problem outside
`2 n_bands + 2 <= n <= 64`. The run `krylov_small` fails inside that window.

**SubspaceSolve**, for every set of states, classes, frames, levels and band counts.
The invariant (theorem `SubspaceInvariant`) says of the cache what the gate needs to
be worth anything: its vectors name each state once, there are `min(n_bands, n)` of
them, and whatever set is returned is the lowest at some past levels, those of
`at_full`, since no gate-passing step changes which states are in it. From it:
`SubspaceTypeCorrect`; `EigenpairsAreCurrent`, since a Ritz vector that is no
eigenvector trips the gate; `LostBandsCrossed`: a set that was lowest and no longer
is holds a level that has risen above one left out; and `NaNSeedsStay`.

**Occupations**, for every finite set of states and energies, weights, electron
numbers and magnetizations:

* `BracketKeepsItsMeaning` and `OccupationTypeCorrect`. The bracket invariant needs no
  monotony of the count, only that each end moved by the test it is compared with; that
  the first bracket is one rests on least and greatest elements of finite sets.
* `DensityHoldsElectrons` and `NaNReachesDensity`, from `DensityInv`: occupations and
  density are functions of the levels that the steps since have left alone. The sum over
  the orbitals the density keeps is the sum over all of them less the skipped ones, which
  are zero or negative (`SkippingKeepsElectrons`).
* `LevelCarriesElectrons`, from `EndInv`: as long as the bracket is wider than one unit,
  as many halvings as it needs are left (`Halving`; `BisectionAssumption`: 200 halvings
  suffice for any spectrum below 1e46 Hartree). At the ends of the first bracket no more
  is counted, or missing, than the tails of the smearing at ten sigma (`EdgesCount`). Where
  the target keeps that distance from an empty and from a full set of states, each end of
  the last bracket counts on its own side, whether it has moved or not. Where no level
  counts the electrons (`NeverEnough`: more than the states hold, or all of them under
  Fermi-Dirac, of which `FermiNeverFull` shows that it fills no state in the bracket),
  the lower end moves in every step and the upper one never, and an end of the first
  bracket is returned.

**DensityOnGrid**, for every set of cells with integral metrics, ratios and explicit
grids: `GridTypeCorrect`, and `DefaultGridHasRoom`: from ratio 2 on the search ends
at dimensions of at least `4 n_max + 1` (the scale is at least 2 and the search only
goes up), Miller indices of a difference are at most `2 n_max`, and division with
remainder does the rest. `NothingAliases` is what the room is for: two waves of the
basis have different points, so the scatter keeps both (`AmplitudeAtPoint`); pairs of
waves have the same difference exactly where their points have the same wrapped one
(`AlikeShift`, `WrapAlike`); hence the sum of products at a point is, renamed
(`TotalRenamed`), the one at the Miller index it is read back at. `BInv` adds to the
grid's invariant that what is symmetrized is this density.

`SymmetrizingAverages` (on sound grids) and `SymmetrizedIsInvariant` (there, and where the
cell satisfies `RadiusCovers` and `IsPrimitive`) are what the symmetrizer is for, for every
state, explicit grid and order of the tasks. `SymInv` says that each plane written so far
holds the sums over the operations. The rest is about those sums:

* The basis is a ball in the metric of the reciprocal lattice, which the transposed
  rotations preserve (`ReciprocalLength`, through the adjugate of the metric), so they
  take differences of plane waves to such differences and, as the inverse rotation is
  one too, nothing else (`SphereIsRound`, `CarriedDifference`).
* The rotated index may wrap. If it is a difference it does not. If it is none, but wraps
  onto one, the inverse rotation takes that one to an index on the destination's point
  (`KeepsResidues`; that the inverse keeps the grid as well is `KeptByInverse`), which
  must then be the destination itself: a contradiction. If neither is, both coefficients
  are zero. So `rho_g` is read right in all cases (`RotatedIsRead`). This is where
  `GridIsMapped` is needed.
* The opposite point accumulates the conjugate, the Nyquist planes of an even axis
  included (`OppositeIsConjugate`), so the real part drops nothing.
* Composing with an operation permutes the operations found (`CompositionPermutes`), and
  the term of a composition is the term of its second factor, carried and twisted by the
  first (`TermOfComposition`, where wrapping the translation costs whole turns only);
  renaming the sum gives the invariance.

**Mixer**, for every starting beta, set of norms, history length (0 included) and
number of calls: `BetaInRange` (for a start not below the floor), `GrowthNeverRaises`,
`RestoresAreEarned`, `HistoriesAreRecent` and `PanicsWithoutHistory`. `RestoresAreEarned`
needs that the code's streak never exceeds the true number of drops. For the histories,
"they agree" is not inductive: the invariant says which calls each entry is from and,
for Broyden, that the saved pair is the latest call; that a mixer panics only without
history follows from the lengths it gives. `MixerTypes` and `MixingConservesElectrons`
rest on `MixInv`: the weights of the mixed density sum to their denominator, those of the
residuals are the same ones, and none lies outside the window; where the denominator is 0,
the density not being finite, the latest residual is not finite either or the products of
one in the window overflowed. The
differences of two densities that the mixers add carry no electrons, so whatever the
solver returns leaves the sum alone (`AndersonMixes`, `BroydenMixes`).

**KPointReduction**, for every mesh, half-shift, crystal and metric. Whatever
the detection finds:

* `WeightsAreClassSizes`: the classes of the representatives partition the grid and the
  weights are their sizes, which sum to the number of points. The arithmetic half shows
  that `FracToGridIndex` inverts `Fractional` (`AxisRoundTrip`: the half-shift cancels
  and wrapping by lattice vectors disappears), so the identity maps every point to
  itself, and that every other image is a grid point or `OffGrid`; it rests on division
  with remainder (`DivMod`, `DivModUnique`) and row-major flattening. The inductive half,
  `PInv`, says that the points behind the counter are visited, that visited points belong
  to listed representatives behind the counter, each listed once, and that a
  representative belongs to itself; so a new orbit takes nothing from an earlier class.
  No group property is used: the weights are right even in the cells of section 6, where
  the density is not.
* `KPointTypes`: the detection never misses the identity, so the panic of the set-up is
  unreachable, whatever the metric.
* `RepresentativesInequivalent`, the completeness of the reduction, if for each operation
  found there is one with the inverse rotation. The invariant `CInv` gives half of it
  (every image of a representative is visited, so no later one is an image of an
  earlier); the other half needs that an operation taking `p` to `q` is undone on the
  grid (`ImageUndone`), which rests on the adjugate being the inverse of a unimodular
  matrix (`RowExpansion`) and on a grid point determining its coordinate up to lattice
  vectors (`CoordinateOfPoint`).

What the detection finds is another matter. Its search for rotation columns is bounded
by a radius which a skewed cell exceeds, and it keeps one translation per rotation; the
premises `RadiusCovers` and `IsPrimitive` say when neither matters, and `kpoint_cell` has a
cell for each that refutes `OperationsFormGroup` without it.

* `DetectedOperationsFormGroup` (both premises). That an inverse or a product preserves
  the metric is matrix algebra; that the *search* meets it needs the bound of Cauchy and
  Schwarz for an integral metric, `n_i^2 det M <= |n|^2 cofactor_ii`, which is proved as
  an explicit sum of squares. That its translation is the one kept is where primitivity
  enters: two translations for one rotation differ by a symmetry translation.
* `CoveredCellsReduceCompletely` and `ReductionIsUndone` (`RadiusCovers`: k-points do not
  see translations). For the second, `SInv` says that the owners of two points agree
  exactly if an operation or time reversal relates them, that is, the classes are the
  stars of a group acting on the grid (`GInv`: what the operations are; `CInv`: what has
  been visited). Then the terms that feed a point from one representative are as many as
  those from any other point of its star (`FedAlike`, by an injection each way), so the
  weight times one count is the sum of the counts over the star (`StarCounts`), and each
  term of the average is fed by one point.

Sums over sets are the recursive function of `FiniteSetsExt`. The library's induction
theorems cannot be instantiated here, but induction over the subsets of a finite set can
be stated for a *set* of subsets instead of a predicate (`SubsetInduction`), and the
facts on sums that the theorems above need follow from it.

Only model-checked:

* `Terminates`, `SolveReturns` and the fairness part of `Implements` (liveness is out of
  the prover's reach);
* outside `RadiusCovers` and `IsPrimitive`, `OperationsFormGroup`, completeness and
  `SymmetrizedSumIsFullSum` are false in some cells (`kpoint_cell`), true in others, such
  as `SymmetrizedDensityIsInvariant` in the one cell of `density_grid` that is not
  primitive.

## 5. Not modelled

* **Formulas over reals without control flow**: XC functionals, local and nonlocal
  form factors, Ewald sums, energies, superposed atomic densities and their
  transplant to another grid, gradients, the Kerker factor, the FFT itself, the
  residuals and orthogonality of the eigensolvers. Where control depends on them
  (a residual gate, a convergence test) the models let them take every value.
* **The magnetization mixer.** The spin driver mixes total density and magnetization
  with two instances of `Mixer` that share nothing but the iteration, so what is shown
  for one holds for both. Their betas differ, and a mixed channel can be negative; no
  text says otherwise.
* **Validation** (`ScfParams::validate`) is a list of independent comparisons. What it
  guarantees appears as the assumptions on the constants; what it lets through
  (`mixing_ndim = 0`, any `tot_magnetization`, too few bands, any `fft_grid`) are inputs
  of the models. It also lets NaN thresholds through, with which no run converges.
* **GPU buffers** (a feature, off by default): each pooled call uploads all its inputs
  and waits for its outputs on the one thread that uses them; only |G|^2 survives a call.
* **I/O and presentation**: UPF and YAML parsing, the command line, reports, band paths,
  the validation harness.
* **The entropy** is a formula over the eigenvalues and one level, on which no state
  depends. The level it is given with a fixed magnetization is in section 6.
* **faer**, except where `KrylovSolve` (the partial eigensolver's clamps, restart loop and
  reorthogonalization loop) and `SubspaceSolve` (NaN in a tridiagonal solve) enter it. It is a vendored
  general-purpose library of more than a hundred thousand lines, most of which pwdft
  never calls; it is the bulk of the repository's Rust code, so a map of this project
  covers a small share of the whole.
* The summation order of parallel reductions is below the abstraction.

## 6. Where code and text disagree

Four runs check one claim of the text each, and TLC refutes it.

* `krylov_small`: `krylov_max_dim` caps the Krylov dimension at `n - 2` so that
  faer's assertion "is never violated", but faer raises it again to at least 64 and
  caps it at `n`; for `n <= 64` with `2 n_bands + 2 <= n` it panics.
* `occupations_step`: the Fermi level is "such that" the occupations sum to N, but
  without smearing the bisection ends where the count jumps, within the tolerance of
  the highest occupied level, whose orbital then counts as half occupied; with
  nspin = 1 the density is rescaled silently.
* `basis_cell`: the basis "includes all reciprocal lattice vectors" below the cutoff,
  but the loops end at `ceil(g_max / |b_i|)`, too early in a cell whose reciprocal
  vectors are not orthogonal. The same holds for bcc, rhombohedral and hexagonal cells.
* `kpoint_cell`: "all" matrices and "all" operations are found, never without closure.
  In a skewed basis of the simple cubic lattice the search radius for rotation columns
  is too small, the rest is no group, and the density of the reduced grid is not that
  of the full grid. In a conventional cell one translation is kept per rotation, so the
  operations are not closed.

Others came up on the way, and properties are worded around them:

* With `mixing_beta < 0.01` "damping" raises beta to its floor (`GrowthNeverRaisesBeta`).
* A zero or non-finite norm does not end the streak of "consecutive" good ratios
  (`RestoreIsEarned`; a magnetization of zero has such norms).
* `mixing_ndim = 0` passes validation and panics at the first mix
  (`MixPanicsOnlyWithoutHistory`), which `anderson.rs:219-221` says needs a call before
  any history.
* `dense.rs:175-178` says the subspace path cannot degrade accuracy, but the gate does not
  see that pairs are not the lowest (`WrongSetNeedsCrossing`) or NaN (`NaNSeedStays`).
* `occupation` documents a range of `[0, spin_factor]`; Methfessel-Paxton and cold
  smearing leave it (`OccupationTypeOK`, `DensityHoldsTheCountedElectrons`). Cold
  smearing is documented with `f(E_F) = 1/2`, and computes 0.401.
* `scf/mod.rs:342` lists a "NaN density" among the errors `run_scf` propagates. Neither
  driver tests for one: a NaN meets no criterion, and the run goes on to `max_iter` and
  `ConvergenceFailure`, or ends at the first eigensolve that fails on it. `ScfPromise`
  states what the drivers do (`Implements`, `FailureIsHonest`, `Terminates`).
* `iterative.rs:7-15` says that faer's reorthogonalization loop "can spin indefinitely" and
  that SCF loops "can sporadically hang". The vendored faer, which the workspace builds,
  bounds the loop (`self_adjoint_eigen/mod.rs:42-77`), and the integration test
  (`tests/itev_iterative_eigensolver.rs`) says that the hang is fixed there.
  `SolveReturns` is what the bound is worth; its mutant is the loop without it.
* `iterative.rs:312-315` promises an `Err` for an empty matrix; lines 329-334 return `Ok`
  without a pair (`BandsOrError` says so for `n = 0`). With fewer plane waves than bands
  the dense escape also returns fewer pairs than asked for, without an `Err`.
* `smearing.rs:43-44` promises a level that counts N electrons. With all bands full, which
  validation lets pass, Fermi-Dirac smearing has none in the bracket: `e_max` plus ten
  sigma (65-66) leaves 4.5e-5 of the highest states empty (128), the count at 79 is always
  too small, and the search returns that end unreported. With nspin = 1 the density is
  rescaled to the electrons all the same; the other schemes come within rounding of the
  full count, and which side of it they fall is not modelled (`LevelCarriesTheElectrons`).
  Where the margin of 1 eV is more than some 35 sigma (sigma below 0.029), f64 has no such
  rest to count and the level is found within rounding.
* With a fixed magnetization `driver_spin.rs:616-622` evaluates the entropy at the mean of
  the two levels (449-450), at which no channel was occupied, while `scf/mod.rs:257-259`
  calls the total energy that contains it "the Mermin free-energy functional". For two
  different levels it is not the entropy of the occupations the run used.
* `linalg.rs:10-13` has the fallback so that the mixer does not emit "NaNs downstream", but
  the guard `abs() < 1e-15` (38) is false for a NaN pivot, so a system with NaN or
  overflowed entries is solved as it is and the coefficients are NaN
  (`MixConservesElectrons`).
* `g_space.rs:117-128` says that at the default ratio rotations never wrap, and that at
  ratios 1, 2 and 3 they can. Ratios 2 and 3 have the room of 4 (`DefaultGridHasRoom`);
  in a skewed cell a default grid such as 5 x 9 x 5 for a cubic crystal is not mapped
  onto itself at any ratio (`SoundGrid`).
* `symmetry/density/mod.rs:25-27` says that a grid point maps to a grid point "if and only if"
  `R_ij n_j` is a multiple of `n_i`, which is what `check_grid_compatibility` tests. The
  image of the point `k / n` has the coordinates `R_ij k_j / n_j`, so it takes `R_ij n_i` a
  multiple of `n_j`. The two differ where an operation mixes axes of different sizes:
  the square lattice in the basis `a`, `a - b` has the fourfold rotation
  `((1, 2), (-1, -1))`, with which the test accepts a 4 x 2 grid, where (1/4, 0) goes to
  (1/4, -1/4), and rejects the 2 x 4 one, which is mapped onto itself. The SCF does not
  call the function.

## 7. Running

    tlc -config MCScfLoop_tasks.cfg MCScfLoop
    tlapm ScfLoopProofs.tla

Each run finishes within two minutes; the proofs within minutes each,
`SpaceGroupProofs`, `KPointReductionProofs` and `DensityOnGridProofs` within half an
hour.
