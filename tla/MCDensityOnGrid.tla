-------------------------- MODULE MCDensityOnGrid --------------------------
(***************************************************************************)
(* Cells for TLC, coordinates in quarters of a lattice vector.  A cell     *)
(* that is short along one axis has a basis and a default grid of one      *)
(* plane across it: along a one task symmetrizes it, along c five do.      *)
(***************************************************************************)
EXTENDS DensityOnGrid

Atom(z, x, y, w) == [z |-> z, position |-> <<x, y, w>>]
Cell(metric, atoms, cutoff) == [metric |-> metric, atoms |-> atoms, cutoff |-> cutoff]

SquareMetric == <<<<1, 0, 0>>, <<0, 4, 0>>, <<0, 0, 4>>>>
HexMetric == <<<<2, -1, 0>>, <<-1, 2, 0>>, <<0, 0, 1>>>>

Square == Cell(SquareMetric, <<Atom(84, 0, 0, 0)>>, 8)
\* Two species, so that a fourfold rotation needs a translation of one half.
Checkered == Cell(SquareMetric, <<Atom(31, 0, 1, 0), Atom(31, 0, 3, 2),
                                  Atom(33, 0, 0, 1), Atom(33, 0, 2, 3)>>, 4)
\* Inversion and two mirrors carry a quarter translation.
Dimer == Cell(SquareMetric, <<Atom(1, 0, 0, 0), Atom(1, 0, 1, 0)>>, 4)
Hexagonal == Cell(HexMetric, <<Atom(12, 0, 0, 0)>>, 2)
MCCells == {Square, Checkered, Dimer, Hexagonal}
MCRatios == {1, 2, 4}
MCFftGrids == {None, <<1, 6, 6>>, <<1, 5, 6>>, <<5, 9, 1>>}

\* The primitive cell of diamond, at the smallest cutoff for which the loops
\* over the basis end too early: 72 (2 pi / a)^2, for silicon 367 eV.
Diamond == Cell(<<<<2, 1, 1>>, <<1, 2, 1>>, <<1, 1, 2>>>>,
                <<Atom(14, 0, 0, 0), Atom(14, 1, 1, 1)>>, 72)
MCDiamondCells == {Diamond}
MCDefaultRatio == {4}
MCDefaultGrid == {None}
=============================================================================
