--------------------------- MODULE MCOccupations ---------------------------
(***************************************************************************)
(* Two k-points of weights 1/4 and 3/4 with one band each; levels one or   *)
(* six half-sigmas apart, equal, or NaN; up to three electrons in states   *)
(* for two; magnetizations with and without a solution.                    *)
(***************************************************************************)
EXTENDS Occupations

MCKPoints == {"k1", "k2"}
MCWeight == [k \in MCKPoints |-> IF k = "k1" THEN 1 ELSE 3]
MCEnergies == {0, 1, 7}
MCNElectrons == {1, 2, 3}
MCMagnetizations == {0, 1, 3}
=============================================================================
