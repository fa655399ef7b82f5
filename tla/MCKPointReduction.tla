-------------------------- MODULE MCKPointReduction --------------------------
(***************************************************************************)
(* Crystals for TLC, coordinates in 1/12 of a lattice vector.              *)
(***************************************************************************)
EXTENDS KPointReduction

Atom(z, x, y, w) == [z |-> z, position |-> <<x, y, w>>]

CubicMetric == <<<<1, 0, 0>>, <<0, 1, 0>>, <<0, 0, 1>>>>
FccMetric == <<<<2, 1, 1>>, <<1, 2, 1>>, <<1, 1, 2>>>>
HexMetric == <<<<2, -1, 0>>, <<-1, 2, 0>>, <<0, 0, 5>>>>
TriclinicMetric == <<<<4, 1, 1>>, <<1, 5, 2>>, <<1, 2, 7>>>>

Silicon == [metric |-> FccMetric, atoms |-> <<Atom(14, 0, 0, 0), Atom(14, 3, 3, 3)>>]
GaAs == [metric |-> FccMetric, atoms |-> <<Atom(31, 0, 0, 0), Atom(33, 3, 3, 3)>>]
Magnesium == [metric |-> HexMetric, atoms |-> <<Atom(12, 4, 8, 3), Atom(12, 8, 4, 9)>>]
Polar == [metric |-> TriclinicMetric, atoms |-> <<Atom(3, 0, 0, 0), Atom(9, 1, 4, 5),
                                                  Atom(1, 6, 2, 3)>>]
\* Trigonal selenium: a chiral crystal with a threefold screw axis.
Selenium == [metric |-> HexMetric,
             atoms |-> <<Atom(34, 3, 0, 0), Atom(34, 0, 3, 4), Atom(34, 9, 9, 8)>>]
EmptyCell == [metric |-> CubicMetric, atoms |-> <<>>]
MCCrystals == {Silicon, GaAs, Magnesium, Polar, Selenium, EmptyCell}

Mesh(a, b, c, flags) == [n |-> <<a, b, c>>, flags |-> flags]
ASSUME \A c \in MCCrystals : RadiusCovers(c.metric) /\ IsPrimitive(c.atoms)

MCGrids == {Mesh(2, 2, 2, <<0, 0, 0>>), Mesh(2, 2, 2, <<1, 1, 1>>),
            Mesh(3, 3, 2, <<0, 0, 1>>), Mesh(1, 2, 3, <<0, 0, 0>>)}

\* The simple cubic lattice in the basis a, b - 2a, c.
SkewCubic == [metric |-> <<<<1, -2, 0>>, <<-2, 5, 0>>, <<0, 0, 1>>>>,
              atoms |-> <<Atom(84, 0, 0, 0)>>]
\* Silicon in its eight-atom conventional cell.
ConventionalSilicon == [metric |-> CubicMetric,
  atoms |-> <<Atom(14, 0, 0, 0), Atom(14, 0, 6, 6), Atom(14, 6, 0, 6), Atom(14, 6, 6, 0),
              Atom(14, 3, 3, 3), Atom(14, 3, 9, 9), Atom(14, 9, 3, 9), Atom(14, 9, 9, 3)>>]
\* Each of the two alone violates OperationsFormGroup: one because of the search
\* radius, the other because of its centring translations.
ASSUME ~ RadiusCovers(SkewCubic.metric) /\ IsPrimitive(SkewCubic.atoms)
ASSUME /\ RadiusCovers(ConventionalSilicon.metric)
       /\ ~ IsPrimitive(ConventionalSilicon.atoms)
MCUnusualCells == {SkewCubic, ConventionalSilicon}
MCSmallGrid == {Mesh(2, 2, 2, <<0, 0, 0>>)}
=============================================================================
