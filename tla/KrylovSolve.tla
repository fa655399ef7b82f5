---------------------------- MODULE KrylovSolve ----------------------------
(***************************************************************************)
(* One call of diagonalize_lowest_iterative: the sizing of the Krylov      *)
(* subspace (eigensolver/iterative.rs), the dense escape for small         *)
(* matrices, and the restart loop of the vendored faer it hands the sizes  *)
(* to, whose self-adjoint path panics unless max_dim < n.                  *)
(*                                                                         *)
(* All arithmetic is the code's (usize; saturating_sub where it saturates). *)
(* Of the numerics only this is kept: how many of the wanted Ritz pairs    *)
(* are locked after a restart, how many more are retained, whether the     *)
(* projected eigenproblem failed, and whether a Krylov vector collapsed    *)
(* into the basis, which its reorthogonalization loop must survive.        *)
(***************************************************************************)
EXTENDS Integers

CONSTANTS
  Problems,     \* pairs <<n, n_bands>>: basis size at a k-point, bands asked for
  MaxRestarts   \* DEFAULT_MAX_RESTARTS

ASSUME KrylovAssumption ==
  /\ Problems \subseteq Nat \X (Nat \ {0})   \* validate rejects n_bands = 0
  /\ MaxRestarts \in Nat

LARGE_BASIS_THRESHOLD == 500
MIN_PADDING == 8
MIN_KRYLOV_MAX_DIM == 128
KRYLOV_MAX_DIM_DIVISOR == 2
MIN_DIM == 32                                \* faer's own floor
MAX_REORTH == 3                              \* passes of its orthogonalization

Larger(a, b) == IF a < b THEN b ELSE a
Smaller(a, b) == IF a < b THEN a ELSE b

VARIABLES
  n, n_wanted,  \* the arguments: basis size, n_bands
  stage,        \* "sizing", "faer", those of Iterating, "returned" or "panicked"
  n_request,    \* eigenpairs requested from faer
  max_dim,      \* Krylov dimension passed to faer
  basis,        \* faer's clamped [min_dim, max_dim]
  k,            \* Krylov vectors kept by the last restart
  active,       \* locked (converged) eigenpairs
  restart,      \* restarts done
  collapsed,    \* the next vector lies numerically in the span of the basis
  reorth,       \* passes made over it
  pairs,        \* eigenpairs in the EigenResult
  outcome       \* "none", "dense", "ok" or "err"

lanczosVars == <<collapsed, reorth>>
krylov_vars == <<n, n_wanted, stage, n_request, max_dim, basis, k, active,
                 restart, lanczosVars, pairs, outcome>>

KrylovInit ==
  /\ \E p \in Problems : n = p[1] /\ n_wanted = p[2]
  /\ stage = "sizing"
  /\ n_request = 0 /\ max_dim = 0
  /\ basis = [min_dim |-> 0, max_dim |-> 0]
  /\ k = 0 /\ active = 0 /\ restart = 0 /\ pairs = 0
  /\ collapsed = FALSE /\ reorth = 0
  /\ outcome = "none"
-----------------------------------------------------------------------------
\* n.saturating_sub(2)
MaxDimCeiling(size) == IF size < 2 THEN 0 ELSE size - 2
MaxRequestCeiling(size) == MaxDimCeiling(size) \div 2

\* (mutant of krylov_n_request: the cap by max_request is missing)
UncappedRequest(bands, n_pw, max_request) ==
  Larger(bands + bands \div 2, bands + 4)
    + IF n_pw >= LARGE_BASIS_THRESHOLD THEN Larger(bands, MIN_PADDING) ELSE 0

krylov_n_request(bands, n_pw, max_request) ==
  LET base == Larger(bands + bands \div 2, bands + 4)
      large_margin == IF n_pw >= LARGE_BASIS_THRESHOLD
                      THEN Larger(bands, MIN_PADDING) ELSE 0
  IN  Smaller(base + large_margin, max_request)

krylov_max_dim(request, n_pw, max_allowed) ==
  LET roomy == Larger(n_pw \div KRYLOV_MAX_DIM_DIVISOR, 2 * request)
  IN  Smaller(Larger(roomy, MIN_KRYLOV_MAX_DIM), max_allowed)

Request == krylov_n_request(n_wanted, n, MaxRequestCeiling(n))
MaxDim == krylov_max_dim(Request, n, MaxDimCeiling(n))

\* (mutant of TooSmall: only the second of the two tests)
TooSmallForBasis == n <= MaxDim

\* Either test sends the matrix to dense::diagonalize_lowest.
TooSmall == MaxRequestCeiling(n) < n_wanted \/ n <= MaxDim

\* (mutant of DensePairs: the full decomposition is not cut to n_bands)
AllPairs == n

\* dense::diagonalize_lowest keeps min(n_bands, n) pairs.
DensePairs == Smaller(n_wanted, n)

\* The dense escape; an empty matrix returns an empty result.
SolveDensely ==
  /\ stage = "sizing"
  /\ n = 0 \/ TooSmall
  /\ pairs' = DensePairs
  /\ outcome' = "dense"
  /\ stage' = "returned"
  /\ UNCHANGED <<n, n_wanted, n_request, max_dim, basis, k, active, restart, lanczosVars>>

\* run_partial_self_adjoint is called with the chosen sizes.
Size ==
  /\ stage = "sizing"
  /\ n > 0 /\ ~TooSmall
  /\ n_request' = Request
  /\ max_dim' = MaxDim
  /\ stage' = "faer"
  /\ UNCHANGED <<n, n_wanted, basis, k, active, restart, lanczosVars, pairs, outcome>>
-----------------------------------------------------------------------------
\* (mutant of FaerBasis: max_dim is left at its default too)
FaerDefaultBasis ==
  [min_dim |-> Smaller(Larger(MIN_DIM, Smaller(n_request, n)), n),
   max_dim |-> Smaller(Larger(2 * MIN_DIM, 2 * Smaller(n_request, n)), n)]

\* partial_self_adjoint_eigen: params.min_dim is left at its default 0.
FaerBasis ==
  [min_dim |-> Smaller(Larger(MIN_DIM, Smaller(n_request, n)), n),
   max_dim |-> Smaller(Larger(max_dim, Larger(2 * MIN_DIM, 2 * Smaller(n_request, n))), n)]

\* `if max_dim < n { .. } else { panic!() }`; its first sweep, to min_dim, is
\* taken as one with the first that extends it.
EnterFaer ==
  /\ stage = "faer"
  /\ basis' = FaerBasis
  /\ IF FaerBasis.max_dim < n
     THEN stage' = "restart" /\ k' = FaerBasis.min_dim
     ELSE stage' = "panicked" /\ k' = k
  /\ UNCHANGED <<n, n_wanted, n_request, max_dim, active, restart, lanczosVars, pairs, outcome>>

\* A vector that collapsed, or holds a NaN, passes no test relative to its norm.
PassResults == IF collapsed THEN {FALSE} ELSE BOOLEAN

\* iterate_lanczos from k + 1 to max_dim.  Every column goes through the same
\* loop: one stands for all, the one that takes longest.
StartSweep ==
  /\ stage = "restart"
  /\ restart < MaxRestarts
  /\ active < n_request
  /\ collapsed' \in BOOLEAN
  /\ reorth' = 0
  /\ stage' = "lanczos"
  /\ UNCHANGED <<n, n_wanted, n_request, max_dim, basis, k, active, restart, pairs, outcome>>

\* (mutant of LoopEnds: the loop of the published faer 0.24)
LoopEndsConverged(all_true) == all_true

\* Every component is orthogonal, or the passes are used up.
LoopEnds(all_true) == all_true \/ reorth + 1 >= MAX_REORTH

\* One pass of the reorthogonalization loop; reorth is only ever compared with
\* MAX_REORTH, and counted no further.
Reorthogonalize ==
  /\ stage = "lanczos"
  /\ reorth' = Smaller(reorth + 1, MAX_REORTH)
  /\ \E all_true \in PassResults :
       stage' = IF LoopEnds(all_true) THEN "projected" ELSE "lanczos"
  /\ UNCHANGED <<n, n_wanted, n_request, max_dim, basis, k, active, restart, collapsed, pairs,
                 outcome>>

\* How many Krylov vectors a restart with `locked` converged pairs keeps.
Kept(locked) ==
  LET ideal_size == Smaller(locked + basis.min_dim,
                            (basis.min_dim + basis.max_dim) \div 2)
  IN  n_request .. Larger(n_request, ideal_size)

\* The rest of a restart: locked pairs stay locked, wanted ones may join them.
Restart ==
  /\ stage = "projected"
  /\ \E locked \in active .. n_request :
       /\ active' = locked
       /\ k' \in Kept(locked)
  /\ restart' = restart + 1
  /\ stage' = "restart"
  /\ UNCHANGED <<n, n_wanted, n_request, max_dim, basis, lanczosVars, pairs, outcome>>

\* (mutant of Converged: everything requested must have converged)
ConvergedAllRequested == active >= n_request

\* n_converged >= n_bands
Converged == active >= n_wanted

\* All wanted pairs are locked, the restarts are used up, or the projected
\* eigenproblem failed (`break`, whatever is locked then counts).
LeaveFaer ==
  /\ \/ stage = "restart" /\ (active >= n_request \/ restart = MaxRestarts)
     \/ stage = "projected"
  /\ IF Converged
     THEN outcome' = "ok" /\ pairs' = n_wanted
     ELSE outcome' = "err" /\ pairs' = 0
  /\ stage' = "returned"
  /\ UNCHANGED <<n, n_wanted, n_request, max_dim, basis, k, active, restart, lanczosVars>>

KrylovNext ==
  \/ SolveDensely \/ Size \/ EnterFaer
  \/ StartSweep \/ Reorthogonalize \/ Restart \/ LeaveFaer

\* One thread that waits for nothing: it goes on as long as it can.
KrylovSpec == KrylovInit /\ [][KrylovNext]_krylov_vars /\ WF_krylov_vars(KrylovNext)
-----------------------------------------------------------------------------
(* Properties *)

Iterating == {"restart", "lanczos", "projected"}

KrylovTypeOK ==
  /\ n \in Nat /\ n_wanted \in Nat \ {0}
  /\ stage \in {"sizing", "faer", "returned", "panicked"} \cup Iterating
  /\ n_request \in Nat /\ max_dim \in Nat
  /\ basis \in [min_dim : Nat, max_dim : Nat]
  /\ k \in Nat /\ active \in 0 .. n_request /\ restart \in 0 .. MaxRestarts
  /\ collapsed \in BOOLEAN /\ reorth \in 0 .. MAX_REORTH
  /\ pairs \in 0 .. n_wanted
  /\ outcome \in {"none", "dense", "ok", "err"}

\* "guarantees faer's internal assertion max_dim < n is never violated"
\* (iterative.rs:271-272): the call never reaches faer's panic!().
FaerAssertionHolds == stage # "panicked"

\* The "ceiling chain" of iterative.rs:342-345 holds for every call that
\* reaches faer, at sizes on either side of every threshold of the heuristic:
\* max_dim <= n - 2, max_dim >= 2 * n_request, n_request >= n_bands.
CeilingChain ==
  stage \in {"faer"} \cup Iterating =>
    /\ n_wanted <= n_request
    /\ 2 * n_request <= max_dim
    /\ max_dim <= n - 2

\* The restart loop always has a column left to expand into: it keeps fewer
\* vectors than the basis holds, so V and H are never indexed past max_dim + 1
\* and the two columns swapped after a restart (k and max_dim) are distinct;
\* the basis is at least as large as pwdft asked for.
RestartHasRoom ==
  stage \in Iterating =>
    /\ n_request <= k /\ k < basis.max_dim
    /\ max_dim <= basis.max_dim /\ basis.max_dim < n

\* A result of Arnoldi holds all the bands asked for; an Err means that fewer
\* pairs converged, which is when the caller falls back (iterative.rs:298-301).
\* The dense escape promises less: it cuts the bands down to the basis size,
\* and an empty matrix gives Ok with no pair at all (iterative.rs:329-334),
\* where the code's own error list (iterative.rs:312-315) promises an Err.
BandsOrError ==
  stage = "returned" =>
    /\ outcome = "ok" => pairs = n_wanted /\ pairs <= active
    /\ outcome = "err" => active < n_wanted
    /\ outcome = "dense" => pairs = Smaller(n_wanted, n)
    /\ n = 0 => outcome = "dense" /\ pairs = 0

\* The call ends, whatever vectors collapse: the vendored loop gives up on one
\* after MAX_REORTH passes (faer self_adjoint_eigen/mod.rs:57), and restarts are
\* counted.  The module's own text (iterative.rs:7-15) still says of this very
\* loop that it "can spin indefinitely": true of the published faer 0.24, which
\* the mutant restores, not of the copy this repository builds.
SolveReturns == <>(stage \in {"returned", "panicked"})
=============================================================================
