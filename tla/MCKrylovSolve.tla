--------------------------- MODULE MCKrylovSolve ---------------------------
(***************************************************************************)
(* Instances of KrylovSolve: sizes around each threshold of the heuristic  *)
(* (64: faer's floor, 128: MIN_KRYLOV_MAX_DIM, 500: LARGE_BASIS_THRESHOLD, *)
(* n = 2 * n_bands + 2: the dense escape).                                 *)
(***************************************************************************)
EXTENDS KrylovSolve

\* Bases of more than 64 plane waves, or so few that the escape is taken.
MCProblems ==
  {<<0, 1>>, <<1, 1>>, <<3, 1>>, <<5, 8>>, <<17, 8>>, <<63, 31>>, <<64, 32>>,
   <<65, 1>>, <<65, 31>>, <<65, 32>>, <<66, 32>>, <<67, 32>>, <<100, 8>>,
   <<129, 8>>, <<130, 20>>, <<131, 65>>, <<259, 8>>, <<499, 4>>, <<500, 4>>,
   <<500, 12>>, <<725, 8>>}

\* A basis below faer's floor that passes the dense escape.
MCSmallProblems == {<<m, b>> : m \in {3, 4, 20, 64}, b \in {1, 4, 8}}
=============================================================================
