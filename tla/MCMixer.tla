------------------------------ MODULE MCMixer ------------------------------
(***************************************************************************)
(* Instances of Mixer: norms whose ratios fall in each band of the monitor *)
(* (8 to 3, 3 to 1: below 0.5; 1 to 3, 3 to 8: above 1.2; equal: between)  *)
(* and 0, besides NaN and Infinity.                                        *)
(***************************************************************************)
EXTENDS Mixer

MCModes == {"anderson", "pulay", "broyden"}
MCNorms == {0, 1, 3, 8}
MCCoefficients == {-1, 2}
=============================================================================
