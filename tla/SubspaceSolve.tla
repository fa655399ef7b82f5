--------------------------- MODULE SubspaceSolve ---------------------------
(***************************************************************************)
(* eigensolver/dense.rs as one (spin, k-point) sees it over the iterations *)
(* of an SCF run: diagonalize_lowest, and diagonalize_subspace seeded with *)
(* the eigenvectors the previous iteration returned.                       *)
(*                                                                         *)
(* A Hamiltonian is block diagonal in the symmetry classes of its k-point. *)
(* Its eigenvectors are the states of the blocks, each named with the      *)
(* frame of its block: a potential update that mixes the states of a block *)
(* by more than WFRX_RESIDUAL_TOL gives the block another frame, a smaller *)
(* one or a mere shift of the levels keeps it.  States of different blocks *)
(* never mix, which is why their levels may cross.  A set of vectors       *)
(* stands for the columns of a matrix and for the subspace they span.      *)
(***************************************************************************)
EXTENDS Integers, FiniteSets

CONSTANTS
  State,       \* the plane-wave space, as the states its blocks hold
  BlockOf,     \* the symmetry class of each state
  Frame,       \* ways in which a block's eigenvectors can lie
  Level,       \* eigenvalues
  BandCounts,  \* ScfParams::n_bands
  None         \* Option::None

Blocks == {BlockOf[s] : s \in State}
Vector == State \X Frame
NRows == Cardinality(State)          \* h.nrows()

ASSUME SubspaceAssumption ==
  /\ IsFiniteSet(State)
  /\ BlockOf \in [State -> Blocks]
  /\ Level \subseteq Int
  /\ BandCounts \subseteq Nat \ {0}  \* validate rejects n_bands = 0
  /\ None \notin [vecs : SUBSET Vector, finite : BOOLEAN]

\* Levels of different states differ: a degenerate eigenspace is one frame.
Hamiltonian ==
  [level : {f \in [State -> Level] : \A s, t \in State : f[s] = f[t] => s = t},
   frame : [Blocks -> Frame],
   finite : BOOLEAN]
Columns == [vecs : SUBSET Vector, finite : BOOLEAN]  \* finite: no vector holds NaN

VARIABLES
  n_bands,  \* ScfParams::n_bands
  wfrx,     \* Dense with ScfParams::wfrx_subspace
  h,        \* the Hamiltonian of this iteration
  v_prev,   \* the cached eigenvectors of the previous iteration
  result,   \* what the dispatch returned in this iteration
  pc,
  at_full   \* history: the levels at the last full solve

vars == <<n_bands, wfrx, h, v_prev, result, pc, at_full>>

Init ==
  /\ n_bands \in BandCounts
  /\ wfrx \in BOOLEAN
  /\ h \in Hamiltonian
  /\ v_prev = None
  /\ result = None
  /\ pc = "solve"
  /\ at_full = h.level

States(V) == {v[1] : v \in V}
Eigenvector(H, s) == <<s, H.frame[BlockOf[s]]>>
Eigenvectors(H) == {Eigenvector(H, s) : s \in State}

\* (mutant of Truncated: all columns of the full decomposition are returned)
AllColumns == NRows

\* n_bands.min(full.eigenvalues.len())
Truncated == IF n_bands < NRows THEN n_bands ELSE NRows

AreLowest(S, level) == \A s \in S, t \in State \ S : level[s] < level[t]

\* Eigenvectors of a size x size matrix: NaN spreads over all of them, but a
\* 1 x 1 matrix has the eigenvector 1 even if its element is NaN.
VectorsFinite(size) == h.finite \/ size = 1

\* (mutant of DiagonalizeLowest: the first n_bands columns in some other order)
DiagonalizeAny ==
  /\ \E S \in SUBSET State :
       /\ Cardinality(S) = Truncated
       /\ result' = [vecs |-> {Eigenvector(h, s) : s \in S}, finite |-> VectorsFinite(NRows)]
  /\ at_full' = h.level

\* The lowest levels first, then the cut.
DiagonalizeLowest ==
  /\ \E S \in SUBSET State :
       /\ Cardinality(S) = Truncated
       /\ AreLowest(S, h.level)
       /\ result' = [vecs |-> {Eigenvector(h, s) : s \in S}, finite |-> VectorsFinite(NRows)]
  /\ at_full' = h.level

\* v_prev is Some and holds n_bands columns.
SeedFits ==
  /\ wfrx
  /\ v_prev # None
  /\ ~ Cardinality(v_prev.vecs) < n_bands

WholeBlock(V, s) == {t \in State : BlockOf[t] = BlockOf[s]} \subseteq States(V)

\* Rayleigh-Ritz in the span of V: eigenvectors of H wherever V holds all that
\* they are made of, else vectors that H still mixes with ones outside.
Ritz(V, H) ==
  {IF WholeBlock(V, v[1]) THEN Eigenvector(H, v[1]) ELSE v : v \in V}

AllFinite == h.finite /\ v_prev.finite

\* (mutant of ResidualGateTrips: only the lowest pair's residual is looked at)
ResidualGateTripsOnLowest ==
  /\ AllFinite
  /\ \E v \in Ritz(v_prev.vecs, h) :
       /\ v \notin Eigenvectors(h)
       /\ \A w \in v_prev.vecs : h.level[v[1]] <= h.level[w[1]]

\* (mutant of ResidualGateTrips: a NaN residual trips it, too)
ResidualGateTripsOnNaN ==
  ~ AllFinite \/ ~ Ritz(v_prev.vecs, h) \subseteq Eigenvectors(h)

\* max_residual > WFRX_RESIDUAL_TOL: the fold starts at 0.0 and f64::max drops
\* the NaN residuals of a seed or matrix that is not finite.
ResidualGateTrips ==
  AllFinite /\ ~ Ritz(v_prev.vecs, h) \subseteq Eigenvectors(h)

SolveFully ==
  /\ pc = "solve"
  /\ ~ SeedFits
  /\ DiagonalizeLowest
  /\ pc' = "return"
  /\ UNCHANGED <<n_bands, wfrx, h, v_prev>>

Rotate ==
  /\ pc = "solve"
  /\ SeedFits
  /\ ~ ResidualGateTrips
  /\ result' = [vecs |-> Ritz(v_prev.vecs, h),
                finite |-> v_prev.finite /\ VectorsFinite(n_bands)]
  /\ pc' = "return"
  /\ UNCHANGED <<n_bands, wfrx, h, v_prev, at_full>>

FallBack ==
  /\ pc = "solve"
  /\ SeedFits
  /\ ResidualGateTrips
  /\ DiagonalizeLowest
  /\ pc' = "return"
  /\ UNCHANGED <<n_bands, wfrx, h, v_prev>>

\* PwdftError::Eigensolver, from the full matrix or the projected one.
Fail ==
  /\ pc = "solve"
  /\ ~ h.finite \/ (SeedFits /\ ~ v_prev.finite)
  /\ pc' = "error"
  /\ UNCHANGED <<n_bands, wfrx, h, v_prev, result, at_full>>

\* The driver caches the eigenvectors if warm starts are on, and the next
\* iteration builds another Hamiltonian.
Iterate ==
  /\ pc = "return"
  /\ v_prev' = IF wfrx THEN result ELSE None
  /\ h' \in Hamiltonian
  /\ pc' = "solve"
  /\ UNCHANGED <<n_bands, wfrx, result, at_full>>

Next == SolveFully \/ Rotate \/ FallBack \/ Fail \/ Iterate
Spec == Init /\ [][Next]_vars

-----------------------------------------------------------------------------
\* The variables hold values of their types; eigenvectors name a state once,
\* and there are never more of them than the caller asked for.
SubspaceTypeOK ==
  /\ n_bands \in BandCounts
  /\ wfrx \in BOOLEAN
  /\ h \in Hamiltonian
  /\ at_full \in [State -> Level]
  /\ v_prev \in Columns \cup {None}
  /\ result \in Columns \cup {None}
  /\ pc \in {"solve", "return", "error"}
  /\ result # None =>
       /\ \A v, w \in result.vecs : v[1] = w[1] => v = w
       /\ Cardinality(result.vecs) <= n_bands

\* Whatever chain of warm starts led here, a task with a finite Hamiltonian and
\* no NaN in its seed gets min(n_bands, n) pairs, all finite, and all of them
\* eigenpairs of the Hamiltonian of THIS iteration: the residual gate lets no
\* vector of an earlier one through (dense.rs:248).
ResultsAreEigenpairs ==
  pc = "return" /\ h.finite /\ (SeedFits => v_prev.finite) =>
    /\ result.finite
    /\ result.vecs \subseteq Eigenvectors(h)
    /\ Cardinality(result.vecs) = Truncated

\* The gate cannot see that eigenpairs are not the lowest ones.  They can only
\* fail to be if, compared with the last FULL solve (not with the previous
\* iteration), a level it kept has risen above one it left out, and then only
\* with warm starts: an avoided crossing never loses a band (dense.rs:176).
WrongSetNeedsCrossing ==
  pc = "return" /\ result.finite /\ ~ AreLowest(States(result.vecs), h.level) =>
    /\ wfrx
    /\ \E s \in States(result.vecs), t \in State \ States(result.vecs) :
         /\ at_full[s] < at_full[t]
         /\ h.level[t] < h.level[s]

\* Once a NaN is among the eigenvectors a warm start is taken from, it stays:
\* no later Hamiltonian, finite or not, trips the gate and brings a full solve
\* (dense.rs:249), the run can only fail or go on with NaN orbitals.
NaNSeedStays ==
  [][v_prev # None /\ ~ v_prev.finite /\ n_bands <= NRows /\ v_prev' # v_prev
       => ~ v_prev'.finite]_vars
=============================================================================
