----------------------------- MODULE SpaceGroup -----------------------------
(***************************************************************************)
(* Symmetry operations {R | tau} in fractional coordinates                 *)
(* (symmetry/operations.rs) and their detection in a crystal               *)
(* (symmetry/detect.rs).                                                   *)
(*                                                                         *)
(* A rotation is the tuple of its integer rows.  Fractional coordinates    *)
(* count 1/Unit and the metric tensor is in integer units, so what the     *)
(* code compares within a tolerance is compared exactly.                   *)
(***************************************************************************)
EXTENDS Integers, Sequences

CONSTANT Unit   \* fractional coordinate 1.0

ASSUME UnitAssumption == Unit \in Nat \ {0}

Axes == 1 .. 3

\* wrap_to_unit_cell
Wrap(f) == [i \in Axes |-> f[i] % Unit]

Plus(f, g) == [i \in Axes |-> f[i] + g[i]]
Negated(f) == [i \in Axes |-> -f[i]]

Identity == <<<<1, 0, 0>>, <<0, 1, 0>>, <<0, 0, 1>>>>

Transpose(r) == [i \in Axes |-> [j \in Axes |-> r[j][i]]]

\* SymmOp::apply
Apply(r, f) == [i \in Axes |-> r[i][1] * f[1] + r[i][2] * f[2] + r[i][3] * f[3]]

\* SymmOp::compose
Product(a, b) == Transpose([j \in Axes |-> Apply(a, Transpose(b)[j])])

\* Signed minor of entry (i, j), by cyclic successors of the indices.
Cofactor(r, i, j) ==
  LET next(a) == (a % 3) + 1 IN
  r[next(i)][next(j)] * r[next(next(i))][next(next(j))]
    - r[next(i)][next(next(j))] * r[next(next(i))][next(j)]

Det(r) == r[1][1] * Cofactor(r, 1, 1) + r[1][2] * Cofactor(r, 1, 2)
            + r[1][3] * Cofactor(r, 1, 3)

\* SymmOp::inverse: the adjugate times det = +-1.
InverseRotation(r) == [i \in Axes |-> [j \in Axes |-> Det(r) * Cofactor(r, j, i)]]

\* (mutant of InverseTranspose: the transposition is forgotten)
InverseOnly(r) == InverseRotation(r)

InverseTranspose(r) == Transpose(InverseRotation(r))

\* SpaceGroupOp::new wraps the translation; inverse and compose go through it.
Operation(r, tau) == [rotation |-> r, translation |-> Wrap(tau)]

IdentityOp == Operation(Identity, <<0, 0, 0>>)

InverseOp(a) ==
  Operation(InverseRotation(a.rotation), Negated(Apply(InverseRotation(a.rotation), a.translation)))

\* (mutant of Compose: the wrong rotation acts on the wrong translation)
ComposeSwapped(a, b) ==
  Operation(Product(a.rotation, b.rotation),
            Plus(Apply(b.rotation, a.translation), b.translation))

Compose(a, b) ==
  Operation(Product(a.rotation, b.rotation),
            Plus(Apply(a.rotation, b.translation), a.translation))
-----------------------------------------------------------------------------
\* c . M d
DotMetric(c, d, metric) == LET md == Apply(metric, d) IN
  c[1] * md[1] + c[2] * md[2] + c[3] * md[3]

\* ((target / M_ii).sqrt() + 1.5) as i32: the largest r with r - 1.5 at most
\* the square root.
SearchRadius(target, diagonal) ==
  CHOOSE r \in 1 .. target + 2 :
    /\ r = 1 \/ (2 * r - 3) * (2 * r - 3) * diagonal <= 4 * target
    /\ (2 * r - 1) * (2 * r - 1) * diagonal > 4 * target

\* Integer vectors within the radius that are as long as basis vector j.
CandidateVectors(metric, j) ==
  LET range(i) == LET r == SearchRadius(metric[j][j], metric[i][i]) IN -r .. r IN
  {c \in range(1) \X range(2) \X range(3) :
     DotMetric(c, c, metric) = metric[j][j]}

\* The columns c (already of the right lengths) form R with det R = +-1 and
\* R^T M R = M.
PreservesMetric(c, metric) ==
  /\ Det(Transpose(c)) \in {1, -1}
  /\ DotMetric(c[1], c[2], metric) = metric[1][2]
  /\ DotMetric(c[1], c[3], metric) = metric[1][3]
  /\ DotMetric(c[2], c[3], metric) = metric[2][3]

MetricPreservingRotations(metric) ==
  {Transpose(c) : c \in
    {c \in CandidateVectors(metric, 1) \X CandidateVectors(metric, 2)
             \X CandidateVectors(metric, 3) : PreservesMetric(c, metric)}}

\* {R | tau} takes every atom to an atom of its species, modulo the lattice.
AllAtomsMap(atoms, r, tau) ==
  \A i \in DOMAIN atoms : \E j \in DOMAIN atoms :
    /\ atoms[j].z = atoms[i].z
    /\ Wrap(Plus(Apply(r, atoms[i].position), tau)) = Wrap(atoms[j].position)

\* The translation that takes atom 1, rotated, to atom i.
TranslationTo(atoms, r, i) ==
  Wrap(Plus(atoms[i].position, Negated(Apply(r, atoms[1].position))))

\* Atoms the rotated first atom can be taken to.
Targets(atoms, r) ==
  {i \in DOMAIN atoms :
     atoms[i].z = atoms[1].z /\ AllAtomsMap(atoms, r, TranslationTo(atoms, r, i))}

\* find_translation: the FIRST translation that works.  A cell without atoms
\* needs none.
HasTranslation(atoms, r) == atoms = <<>> \/ Targets(atoms, r) # {}

Translation(atoms, r) ==
  IF atoms = <<>> THEN <<0, 0, 0>>
  ELSE TranslationTo(atoms, r, CHOOSE i \in Targets(atoms, r) :
                                 \A j \in Targets(atoms, r) : i <= j)

\* One operation per rotation that has a translation.
FindSymmetryOperations(crystal) ==
  {Operation(r, Translation(crystal.atoms, r)) :
     r \in {s \in MetricPreservingRotations(crystal.metric) : HasTranslation(crystal.atoms, s)}}
-----------------------------------------------------------------------------
(* The cells in which the detection finds the whole space group.           *)

\* By Cauchy and Schwarz the components of an integer vector as long as basis
\* vector j are at most the square root of M_jj cofactor_ii / det M, which need
\* not be within the search radius of a skewed cell.
RadiusCovers(metric) ==
  /\ Det(metric) > 0
  /\ \A i \in Axes : Cofactor(metric, i, i) > 0
  /\ \A i, j \in Axes :
       LET r == SearchRadius(metric[j][j], metric[i][i])
       IN  Cofactor(metric, i, i) * metric[j][j] < (r + 1) * (r + 1) * Det(metric)

\* The atoms repeat only after lattice vectors; there are none to repeat in an
\* empty cell.
IsPrimitive(atoms) ==
  atoms # <<>> =>
    \A tau \in [Axes -> 0 .. Unit - 1] :
      AllAtomsMap(atoms, Identity, tau) => \A i \in Axes : tau[i] = 0
=============================================================================
