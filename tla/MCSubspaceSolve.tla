-------------------------- MODULE MCSubspaceSolve --------------------------
(***************************************************************************)
(* Two symmetry classes of two states each: one to three bands hold a      *)
(* class whole, in part or not at all, five are more than there are plane  *)
(* waves, and levels of the same and of different classes change places.   *)
(***************************************************************************)
EXTENDS SubspaceSolve

MCState == {"a1", "a2", "b1", "b2"}
MCBlockOf == [s \in MCState |-> IF s \in {"a1", "a2"} THEN "a" ELSE "b"]
MCLevel == 1 .. 4
MCFrame == {0, 1}
MCBandCounts == {1, 2, 3, 5}
=============================================================================
