----------------------------- MODULE MCScfLoop -----------------------------
(***************************************************************************)
(* Instances of ScfLoop for TLC.  Residuals 0 (below the threshold) and 1; *)
(* energies 0, 1, 2 with threshold 2, so that neighbours are close and a   *)
(* drift over two iterations is not.                                       *)
(***************************************************************************)
EXTENDS ScfLoop

MCDeltaLevels == {0, 1}
MCEnergyLevels == {0, 1, 2}
=============================================================================
