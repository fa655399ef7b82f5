--------------------------- MODULE KPointReduction ---------------------------
(***************************************************************************)
(* From a crystal and a Monkhorst-Pack grid to the irreducible k-points    *)
(* and back: the symmetry set-up of a run (settings.rs, symmetry/mod.rs),  *)
(* the loop of symmetry/kpoints.rs over the grid, and the G-space          *)
(* symmetrizer that turns the weighted sum over representatives into the   *)
(* sum over the whole zone.                                                *)
(*                                                                         *)
(* Fractional reciprocal coordinates are exact: they count 1 / Scale.      *)
(***************************************************************************)
EXTENDS SpaceGroup, FiniteSetsExt

CONSTANTS
  Crystals,   \* records of a metric tensor and a sequence of atoms
  Grids       \* records of mesh counts n and half-shift flags

ASSUME GridAssumption ==
  \A g \in Grids : \A j \in Axes : g.n[j] \in Nat \ {0} /\ g.flags[j] \in Nat

\* Metrics are symmetric with positive diagonals, as those of lattices are.
ASSUME CrystalAssumption ==
  \A c \in Crystals :
    /\ c.metric \in [Axes -> [Axes -> Int]]
    /\ \A i, j \in Axes : c.metric[i][j] = c.metric[j][i]
    /\ \A i \in Axes : c.metric[i][i] > 0
    /\ c.atoms \in Seq([z : Nat, position : [Axes -> Int]])

VARIABLES
  crystal, grid,      \* the input
  enabled,            \* settings: symmetry.enabled
  time_reversal,      \* settings: symmetry.time_reversal
  pc,                 \* "settings", "reducing", "reduced" or "panicked"
  operations,         \* SymmetryInfo::operations
  has_time_reversal,  \* SymmetryInfo::has_time_reversal
  idx,                \* the loop counter over the full grid
  visited,            \* grid points already in an orbit
  ibz,                \* ibz_kpoints: representatives and their orbit counts
  owner               \* history: the representative that visited a point

vars == <<crystal, grid, enabled, time_reversal, pc, operations,
          has_time_reversal, idx, visited, ibz, owner>>

NTotal == grid.n[1] * grid.n[2] * grid.n[3]
Points == 0 .. NTotal - 1
OffGrid == -1
Scale == 2 * NTotal

\* Grid indices of the flat point p, last axis fastest.
GridIndex(p) ==
  <<p \div (grid.n[2] * grid.n[3]), (p \div grid.n[3]) % grid.n[2], p % grid.n[3]>>

\* Wrap into the first Brillouin zone: f - floor(f + 1/2).
WrapToZone(f) == f - Scale * ((2 * f + Scale) \div (2 * Scale))

\* mp_fractional_coord: i / N + k / 2N on each axis.
Fractional(p) ==
  [j \in Axes |-> WrapToZone((2 * GridIndex(p)[j] + grid.flags[j])
                               * (Scale \div (2 * grid.n[j])))]

\* (mutant of Flat: the strides of the first two axes use the wrong counts)
FlatWrongStride(i) == i[1] * grid.n[1] * grid.n[2] + i[2] * grid.n[2] + i[3]

Flat(i) == i[1] * grid.n[2] * grid.n[3] + i[2] * grid.n[3] + i[3]

\* frac_to_grid_index: f N - k / 2 on each axis, if that is an integer.
FracToGridIndex(f) ==
  LET twice(j) == 2 * (f[j] % Scale) * grid.n[j] - grid.flags[j] * Scale
  IN  IF \A j \in Axes : twice(j) % (2 * Scale) = 0
      THEN Flat([j \in Axes |-> (twice(j) \div (2 * Scale)) % grid.n[j]])
      ELSE OffGrid

\* Where an operation takes a k-point: (R^-1)^T in reciprocal space, and its
\* negative under time reversal.
Image(op, sign, p) ==
  LET k_rot == Apply(InverseTranspose(op.rotation), Fractional(p))
  IN  FracToGridIndex([j \in Axes |-> sign * k_rot[j]])

Signs == IF has_time_reversal THEN {1, -1} ELSE {1}
-----------------------------------------------------------------------------
Init ==
  /\ crystal \in Crystals
  /\ grid \in Grids
  /\ enabled \in BOOLEAN /\ time_reversal \in BOOLEAN
  /\ pc = "settings"
  /\ operations = {} /\ has_time_reversal = FALSE
  /\ idx = 0
  /\ visited = {}
  /\ ibz = <<>>
  /\ owner = [p \in 0 .. NTotal - 1 |-> OffGrid]

\* to_symmetry_info: the detected operations, or the identity alone without
\* time reversal.  A detection that misses the identity panics.
SetUpSymmetry ==
  /\ pc = "settings"
  /\ operations' = IF enabled THEN FindSymmetryOperations(crystal) ELSE {IdentityOp}
  /\ has_time_reversal' = (enabled /\ time_reversal)
  /\ pc' = IF IdentityOp \in operations' THEN "reducing" ELSE "panicked"
  /\ UNCHANGED <<crystal, grid, enabled, time_reversal, idx, visited, ibz, owner>>

\* if visited[idx] { continue }
SkipVisited ==
  /\ pc = "reducing"
  /\ idx \in visited
  /\ idx' = idx + 1
  /\ UNCHANGED <<crystal, grid, enabled, time_reversal, pc, operations,
                 has_time_reversal, visited, ibz, owner>>

\* (mutant of Orbit: the time-reversed images are not visited)
OrbitWithoutReversal(p) ==
  {Image(op, 1, p) : op \in operations} \ (visited \cup {OffGrid})

\* The unvisited grid points the operations take p to.
Orbit(p) ==
  {Image(op, sign, p) : op \in operations, sign \in Signs} \ (visited \cup {OffGrid})

\* (mutant of OrbitCount: every hit counts, first or not)
HitCount(p) == Cardinality(operations \X Signs)

OrbitCount(p) == Cardinality(Orbit(p))

\* An unvisited point becomes a representative; its orbit is visited, and its
\* weight is the orbit's count.
AddRepresentative ==
  /\ pc = "reducing"
  /\ idx \in Points \ visited
  /\ LET orbit == Orbit(idx) IN
     /\ visited' = visited \cup orbit
     /\ owner' = [p \in Points |-> IF p \in orbit THEN idx ELSE owner[p]]
  /\ ibz' = Append(ibz, [point |-> idx, weight |-> OrbitCount(idx)])
  /\ idx' = idx + 1
  /\ UNCHANGED <<crystal, grid, enabled, time_reversal, pc, operations,
                 has_time_reversal>>

Finish ==
  /\ pc = "reducing"
  /\ idx = NTotal
  /\ pc' = "reduced"
  /\ UNCHANGED <<crystal, grid, enabled, time_reversal, operations,
                 has_time_reversal, idx, visited, ibz, owner>>

Next == SetUpSymmetry \/ SkipVisited \/ AddRepresentative \/ Finish

Spec == Init /\ [][Next]_vars
-----------------------------------------------------------------------------
\* The symmetrizer averages over the operations the coefficients at R^T of the
\* destination, so the density of a Bloch state at k' is fed by the k-points
\* +-R^T k'.
Source(op, p) == FracToGridIndex(Apply(Transpose(op.rotation), Fractional(p)))

Reversed(p) == FracToGridIndex(Negated(Fractional(p)))

\* The k-points whose density is that of p: its time-reversed partner, too.
Pair(p) == {p} \cup (IF has_time_reversal THEN {Reversed(p)} ELSE {})

\* The terms of the average at the pair of p that the density at q feeds.
Fed(p, q) == {x \in operations \X Pair(p) : Source(x[1], x[2]) = q}

\* Weight with which the density of the pair enters the symmetrized sum over
\* the representatives, times n_ops.
SymmetrizedWeight(p) ==
  SumFunction([i \in DOMAIN ibz |-> ibz[i].weight * Cardinality(Fed(p, ibz[i].point))])

\* The grid is mapped onto itself by every operation.
GridIsInvariant == \A op \in operations, p \in Points : Image(op, 1, p) # OffGrid

(* Properties *)

\* The loop stays on the grid and the detection never misses the identity.
KPointTypeOK ==
  /\ crystal \in Crystals /\ grid \in Grids
  /\ pc \in {"settings", "reducing", "reduced"}
  /\ idx \in 0 .. NTotal
  /\ visited \subseteq Points
  /\ \A i \in DOMAIN ibz : ibz[i].point \in Points /\ ibz[i].weight \in 1 .. NTotal
  /\ owner \in [Points -> Points \cup {OffGrid}]

\* The weights sum to 1: every visited grid point is in the class of exactly one
\* representative, whose weight is the size of the class, and when the loop has
\* ended the weights add up to all points (kpoints.rs:12-13), also on grids that
\* the operations leave.
WeightIsClassSize ==
  /\ \A i \in DOMAIN ibz :
       /\ owner[ibz[i].point] = ibz[i].point
       /\ ibz[i].weight = Cardinality({p \in Points : owner[p] = ibz[i].point})
  /\ visited = {p \in Points : owner[p] # OffGrid}
  /\ \A p \in visited : \E i \in DOMAIN ibz :
       \A j \in DOMAIN ibz : ibz[j].point = owner[p] <=> j = i
  /\ pc = "reduced" =>
       visited = Points /\ SumFunction([i \in DOMAIN ibz |-> ibz[i].weight]) = NTotal

\* The reduction is complete: no two representatives are related by an
\* operation or time reversal (kpoints.rs:25-28, 8 and 10 points for silicon).
RepresentativesAreInequivalent ==
  pc = "reduced" =>
    \A i, j \in DOMAIN ibz : i # j =>
      \A op \in operations, sign \in Signs :
        Image(op, sign, ibz[i].point) # ibz[j].point

\* What the reduction leaves out the symmetrizer puts back: on a grid the
\* operations map onto itself, averaging the weighted representatives over the
\* operations counts every k-point of the full grid exactly once.  The reducer
\* and the symmetrizer rotate by different matrices, in opposite directions.
SymmetrizedSumIsFullSum ==
  pc = "reduced" /\ GridIsInvariant =>
    \A p \in Points :
      SymmetrizedWeight(p) = Cardinality(operations) * Cardinality(Pair(p))

\* What verify_group_closure asserts, "never reachable from a properly-detected
\* SymmetryInfo" (symmetry/mod.rs:107-109): inverses and compositions of the
\* detected operations are detected.
OperationsFormGroup ==
  pc = "reducing" /\ idx = 0 =>
    \A a \in operations :
      /\ InverseOp(a) \in operations
      /\ \A b \in operations : Compose(a, b) \in operations
=============================================================================
