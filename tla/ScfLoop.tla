------------------------------ MODULE ScfLoop ------------------------------
(***************************************************************************)
(* The Kohn-Sham SCF loop of scf/driver.rs (nspin = 1) and                 *)
(* scf/driver_spin.rs (nspin = 2): build V_eff from the input density,     *)
(* solve every (spin, k-point) eigenproblem as a rayon task, evaluate the  *)
(* residual and the energy, return or mix.                                 *)
(*                                                                         *)
(* Numbers are abstracted to what the control flow and the hand-over of    *)
(* buffers tell apart.  A density or potential is the iteration it belongs *)
(* to and whether it is finite; a Hamiltonian scratch matrix is what was   *)
(* written into it; wavefunctions are the iteration and task that produced *)
(* them; residuals and energies are levels around the thresholds, or NaN.  *)
(***************************************************************************)
EXTENDS FloatOrder

CONSTANTS
  NKpoints,         \* kpoints.len()
  MaxIter,          \* ScfParams::max_iter
  ConvThreshold,    \* ScfParams::conv_threshold
  EnergyThreshold,  \* ScfParams::energy_threshold
  DeltaLevels,      \* finite residuals density_diff can return
  EnergyLevels,     \* finite total energies
  Unset,            \* nothing recorded at this index of a log
  None              \* Option::None

ASSUME ScfAssumption ==
  /\ NKpoints \in Nat \ {0}          \* run_scf rejects an empty k-point list
  /\ MaxIter \in Nat                 \* max_iter is not validated: 0 is legal
  /\ ConvThreshold \in Int /\ EnergyThreshold \in Int
  /\ DeltaLevels \subseteq Int /\ EnergyLevels \subseteq Int
  /\ Unset \notin Int /\ Unset # NaN /\ Unset # Infinity

Spin == {"up", "down"}
KPoints == 0 .. NKpoints - 1
Task == Spin \X KPoints              \* one eigenproblem
Slots == 0 .. 2 * NKpoints - 1       \* indices of ctx.h_scratch
Iterates == 0 .. MaxIter - 1
Gen == -1 .. MaxIter                 \* iteration a buffer belongs to, -1: never filled

\* smearing: smearing_sigma >= 1e-15, below it occupations are step functions
Params == [nspin : {1, 2}, eigensolver : {"Dense", "Iterative"},
           wfrx_subspace : BOOLEAN, smearing : BOOLEAN]
Density == [gen : Gen, finite : BOOLEAN]
Potential == [spin : Spin, hartree : Gen, xc : Gen, finite : BOOLEAN]
Matrix == [pot : Potential, kpt : KPoints, vnl : Nat]
Wave == [iter : Iterates, task : Task, finite : BOOLEAN]
Level == Int \cup {NaN}

ASSUME NoneAssumption == None \notin Wave /\ None \notin Level

NoPotential == [spin |-> "up", hartree |-> -1, xc |-> -1, finite |-> TRUE]
ZeroMatrix == [pot |-> NoPotential, kpt |-> 0, vnl |-> 0]

\* h_scratch[..n_k] holds the up channel, h_scratch[n_k..] the down channel.
Slot(t) == IF t[1] = "up" THEN t[2] ELSE NKpoints + t[2]

VARIABLES
  params,      \* the ScfParams fields that steer the loop
  pc,          \* where the loop body is
  iter,        \* the loop counter
  rho_r,       \* input density (both channels: the mixer couples them)
  rho_g,       \* its G-space copy, kept across iterations by the nspin=1 driver
  v_eff,       \* effective potential per spin channel
  h_scratch,   \* ctx.h_scratch, reused by every iteration
  phase,       \* progress of each eigenproblem task
  seed,        \* the wavefunctions a task was warm-started with
  found,       \* the eigenvectors a task returned
  prev_wfn,    \* prev_wavefunctions / prev_wfn_up, prev_wfn_down
  warned,      \* ITERATIVE_FALLBACK_WARNED, a static of the process
  warnings,    \* log::warn! lines of this run about the fallback
  e_prev,      \* total energy of the previous iteration
  delta_sigma, \* delta_up, delta_down of the current iteration
  last_delta,  \* last_delta
  outcome,     \* the value run_scf returns
  deltas,      \* history: combined residual per completed iterate
  energies     \* history: total energy per completed iterate

taskVars == <<h_scratch, phase, seed, found, warned, warnings>>
logVars == <<e_prev, delta_sigma, last_delta, deltas, energies>>
vars == <<params, pc, iter, rho_r, rho_g, v_eff, taskVars, prev_wfn, logVars,
          outcome>>

LiveSpins == IF params.nspin = 1 THEN {"up"} ELSE Spin
Live == LiveSpins \X KPoints

CachePrevWavefunctions ==
  \/ params.wfrx_subspace /\ params.eigensolver = "Dense"
  \/ params.eigensolver = "Iterative"
-----------------------------------------------------------------------------
\* Superposition-of-atomic-densities guess; `warned` may already be set by an
\* earlier run_scf call of the same process.
Init ==
  /\ params \in Params
  /\ pc = "potentials"
  /\ iter = 0
  /\ rho_r = [gen |-> 0, finite |-> TRUE]
  /\ rho_g = [gen |-> 0, finite |-> TRUE]
  /\ v_eff = [s \in Spin |-> NoPotential]
  /\ h_scratch = [i \in Slots |-> ZeroMatrix]
  /\ phase = [t \in Task |-> "idle"]
  /\ seed = [t \in Task |-> None]
  /\ found = [t \in Task |-> None]
  /\ prev_wfn = [t \in Task |-> None]
  /\ warned \in BOOLEAN
  /\ warnings = 0
  /\ e_prev = None
  /\ delta_sigma = [s \in Spin |-> Unset]
  /\ last_delta = Infinity
  /\ outcome = "running"
  /\ deltas = [i \in Iterates |-> Unset]
  /\ energies = [i \in Iterates |-> Unset]

\* The nspin=1 driver reads Hartree from the stored rho_g, the spin driver
\* transforms rho_up + rho_down afresh.
HartreeInput == IF params.nspin = 1 THEN rho_g ELSE rho_r

\* (mutant of InIterationRange: an inclusive loop bound)
InIterationRangeInclusive == iter <= MaxIter

\* for iter in 0..params.max_iter
InIterationRange == iter < MaxIter

\* Hartree, XC and V_eff of iteration `iter`.  A finite density may still
\* overflow (a diverging mix) or meet non-finite pseudopotential data; a
\* non-finite one leaves no channel finite.
BuildPotentials ==
  /\ pc = "potentials"
  /\ InIterationRange
  /\ \E ok \in [Spin -> BOOLEAN] :
       /\ \A s \in LiveSpins : ok[s] => rho_r.finite /\ HartreeInput.finite
       /\ \A s \in Spin \ LiveSpins : ~ok[s]
       /\ v_eff' = [s \in Spin |->
            IF s \in LiveSpins
            THEN [spin |-> s, hartree |-> HartreeInput.gen, xc |-> rho_r.gen,
                  finite |-> ok[s]]
            ELSE v_eff[s]]
  /\ phase' = [t \in Task |-> "idle"]
  /\ pc' = "solving"
  /\ UNCHANGED <<params, iter, rho_r, rho_g, h_scratch, seed, found, warned,
                 warnings, prev_wfn, logVars, outcome>>

\* (mutant of Filled: the fill accumulates onto what the slot held)
FilledOnTop(t, h) == [pot |-> v_eff[t[1]], kpt |-> t[2], vnl |-> h.vnl]

\* fill_hamiltonian_with_v_eff writes every entry of the task's own slot.
Filled(t, h) == [pot |-> v_eff[t[1]], kpt |-> t[2], vnl |-> 0]

FillHamiltonian(t) ==
  /\ pc = "solving"
  /\ phase[t] = "idle"
  /\ h_scratch' = [h_scratch EXCEPT ![Slot(t)] = Filled(t, @)]
  /\ phase' = [phase EXCEPT ![t] = "filled"]
  /\ UNCHANGED <<params, pc, iter, rho_r, rho_g, v_eff, seed, found, warned,
                 warnings, prev_wfn, logVars, outcome>>

\* vnl.add_to_hamiltonian accumulates (Accum::Add) on top.
AddNonlocal(t) ==
  /\ pc = "solving"
  /\ phase[t] = "filled"
  /\ h_scratch' = [h_scratch EXCEPT ![Slot(t)].vnl = @ + 1]
  /\ phase' = [phase EXCEPT ![t] = "assembled"]
  /\ UNCHANGED <<params, pc, iter, rho_r, rho_g, v_eff, seed, found, warned,
                 warnings, prev_wfn, logVars, outcome>>
-----------------------------------------------------------------------------
\* (mutant of WarmStart: one cache shared by the two channels)
WarmStartFromUp(t) == prev_wfn[<<"up", t[2]>>]

\* v_prev_k: the cache entry of the task's own channel and k-point.
WarmStart(t) == prev_wfn[t]

\* diagonalize_subspace rotates the seed itself, and its residual gate, a fold
\* of f64::max, does not see NaN residuals.
SubspaceIsFinite(t) ==
  params.eigensolver = "Dense" /\ params.wfrx_subspace /\ WarmStart(t) # None
    => WarmStart(t).finite

\* The task's solver returned n_bands eigenpairs: finite ones for a finite
\* matrix and subspace, non-finite ones otherwise.
Returns(t) ==
  /\ found' = [found EXCEPT ![t] =
                 [iter |-> iter, task |-> t,
                  finite |-> h_scratch[Slot(t)].pot.finite /\ SubspaceIsFinite(t)]]
  /\ phase' = [phase EXCEPT ![t] = "solved"]

\* The first solver the dispatch calls succeeds: dense (full or on the
\* warm-start subspace) or Arnoldi.
Solve(t) ==
  /\ pc = "solving"
  /\ phase[t] = "assembled"
  /\ Returns(t)
  /\ seed' = [seed EXCEPT ![t] = WarmStart(t)]
  /\ UNCHANGED <<params, pc, iter, rho_r, rho_g, v_eff, h_scratch, warned,
                 warnings, prev_wfn, logVars, outcome>>

\* (mutant of SwapWarned: the flag is read and never set)
ReadWarned ==
  /\ warned' = warned
  /\ warnings' = IF warned THEN warnings ELSE warnings + 1

\* ITERATIVE_FALLBACK_WARNED.swap(true): read and set in one atomic step.
SwapWarned ==
  /\ warned' = TRUE
  /\ warnings' = IF warned THEN warnings ELSE warnings + 1

\* Arnoldi returns Err; the dispatch logs it and will solve densely.
ArnoldiFails(t) ==
  /\ pc = "solving"
  /\ params.eigensolver = "Iterative"
  /\ phase[t] = "assembled"
  /\ SwapWarned
  /\ seed' = [seed EXCEPT ![t] = WarmStart(t)]
  /\ phase' = [phase EXCEPT ![t] = "fallback"]
  /\ UNCHANGED <<params, pc, iter, rho_r, rho_g, v_eff, h_scratch, found,
                 prev_wfn, logVars, outcome>>

FallBackToDense(t) ==
  /\ pc = "solving"
  /\ phase[t] = "fallback"
  /\ Returns(t)
  /\ UNCHANGED <<params, pc, iter, rho_r, rho_g, v_eff, h_scratch, seed,
                 warned, warnings, prev_wfn, logVars, outcome>>

\* The dense solver, called first or as the fallback, finds no decomposition.
DenseFails(t) ==
  /\ pc = "solving"
  /\ phase[t] = IF params.eigensolver = "Dense" THEN "assembled" ELSE "fallback"
  /\ phase' = [phase EXCEPT ![t] = "failed"]
  /\ UNCHANGED <<params, pc, iter, rho_r, rho_g, v_eff, h_scratch, seed, found,
                 warned, warnings, prev_wfn, logVars, outcome>>
-----------------------------------------------------------------------------
\* (mutant of ChannelJoined: a failed k-point is skipped, not collected)
ChannelJoinedLossy(s) ==
  \A k \in KPoints : phase[<<s, k>>] \in {"solved", "failed"}

\* collect::<Result<Vec<_>>>() of a channel is Ok.
ChannelJoined(s) == \A k \in KPoints : phase[<<s, k>>] = "solved"

\* (mutant of ChannelErr: the down channel's `?` is missing)
ChannelErrUpOnly(s) == s = "up" /\ \E k \in KPoints : phase[<<s, k>>] = "failed"

\* collect::<Result<Vec<_>>>() of a channel is Err.
ChannelErr(s) == \E k \in KPoints : phase[<<s, k>>] = "failed"

\* collect::<Result<Vec<_>>>() of every live channel is Ok: the eigenvectors
\* become the next iteration's warm start if some backend reads them.
JoinOk ==
  /\ pc = "solving"
  /\ \A s \in LiveSpins : ChannelJoined(s)
  /\ prev_wfn' = IF CachePrevWavefunctions
                 THEN [t \in Task |-> IF t \in Live THEN found[t] ELSE None]
                 ELSE prev_wfn
  /\ pc' = "evaluate"
  /\ UNCHANGED <<params, iter, rho_r, rho_g, v_eff, taskVars, logVars, outcome>>

\* Some channel collected an Err and `?` returns it.  Tasks in flight run to
\* their end; rayon's short circuit may leave others of the SAME channel
\* unstarted.
JoinErr ==
  /\ pc = "solving"
  /\ \E s \in LiveSpins : ChannelErr(s)
  /\ \A t \in Live :
       \/ phase[t] \in {"solved", "failed"}
       \/ phase[t] = "idle" /\ ChannelErr(t[1])
  /\ pc' = "returned"
  /\ outcome' = "eigensolver_error"
  /\ UNCHANGED <<params, iter, rho_r, rho_g, v_eff, taskVars, prev_wfn, logVars>>
-----------------------------------------------------------------------------
\* All orbitals and eigenvalues of the channel are finite.
OrbitalsFinite(s) == \A k \in KPoints : found[<<s, k>>].finite

\* So is its new density: a NaN eigenvalue has a NaN occupation, except that
\* without smearing it is 0 and compute_density skips the orbital.
DensityFinite(s) == OrbitalsFinite(s) \/ ~params.smearing

\* The scalar residual: f64::max of the two channels in the spin driver.
Combine(d) ==
  IF params.nspin = 1 THEN d["up"] ELSE MaxIgnoringNaN(d["up"], d["down"])

\* (mutant of EnergyConverged: is_none_or for is_some_and)
EnergyConvergedIfFirst(e) ==
  e_prev = None \/ Below(Gap(e, e_prev), EnergyThreshold)

\* de.is_some_and(|de| de < energy_threshold)
EnergyConverged(e) == e_prev # None /\ Below(Gap(e, e_prev), EnergyThreshold)

\* (mutant of Converged: the residual of the previous iterate is tested)
ConvergedOnStaleDelta(delta, e) ==
  Below(last_delta, ConvThreshold) /\ EnergyConverged(e)

Converged(delta, e) == Below(delta, ConvThreshold) /\ EnergyConverged(e)

\* Densities, residuals and energy of the iteration, then the dual criterion.
\* A non-finite density makes the residual NaN, a non-finite eigenvalue the
\* band energy, whatever its occupation.
Evaluate ==
  /\ pc = "evaluate"
  /\ \E d \in [Spin -> DeltaLevels \cup {NaN, Unset}],
        e \in EnergyLevels \cup {NaN} :
       /\ \A s \in LiveSpins :
            d[s] \in IF rho_r.finite /\ DensityFinite(s) THEN DeltaLevels ELSE {NaN}
       /\ \A s \in Spin \ LiveSpins : d[s] = Unset
       /\ e \in IF \A s \in LiveSpins : OrbitalsFinite(s) THEN EnergyLevels ELSE {NaN}
       /\ delta_sigma' = d
       /\ last_delta' = Combine(d)
       /\ e_prev' = e
       /\ deltas' = [deltas EXCEPT ![iter] = Combine(d)]
       /\ energies' = [energies EXCEPT ![iter] = e]
       /\ IF Converged(Combine(d), e)
          THEN pc' = "returned" /\ outcome' = "converged"
          ELSE pc' = "mix" /\ outcome' = outcome
  /\ UNCHANGED <<params, iter, rho_r, rho_g, v_eff, taskVars, prev_wfn>>

\* Mix input and output densities.  The spin driver mixes (total, m) and
\* inverts, so a non-finite channel contaminates both; the nspin=1 driver also
\* refreshes the stored rho_g.
Mix ==
  LET mixed == [gen |-> iter + 1,
                finite |-> rho_r.finite /\ \A s \in LiveSpins : DensityFinite(s)]
  IN
  /\ pc = "mix"
  /\ rho_r' = mixed
  /\ rho_g' = IF params.nspin = 1 THEN mixed ELSE rho_g
  /\ iter' = iter + 1
  /\ delta_sigma' = [s \in Spin |-> Unset]
  /\ pc' = "potentials"
  /\ UNCHANGED <<params, v_eff, taskVars, prev_wfn, e_prev, last_delta, deltas,
                 energies, outcome>>

\* (mutant of Exhausted: the last allowed iteration is not run)
ExhaustedEarly == iter + 1 = MaxIter

Exhausted == iter = MaxIter

\* max_iter iterations without convergence: ConvergenceFailure { max_iter,
\* last_delta }.
GiveUp ==
  /\ pc = "potentials"
  /\ Exhausted
  /\ pc' = "returned"
  /\ outcome' = "not_converged"
  /\ UNCHANGED <<params, iter, rho_r, rho_g, v_eff, taskVars, prev_wfn, logVars>>
-----------------------------------------------------------------------------
TaskStep(t) ==
  \/ FillHamiltonian(t)
  \/ AddNonlocal(t)
  \/ Solve(t)
  \/ ArnoldiFails(t)
  \/ FallBackToDense(t)
  \/ DenseFails(t)

Next ==
  \/ BuildPotentials
  \/ \E t \in Live : TaskStep(t)
  \/ JoinOk
  \/ JoinErr
  \/ Evaluate
  \/ Mix
  \/ GiveUp

\* The loop and the rayon pool always make progress: no step waits on anything
\* but the tasks it joins.  That a solver call is a step that is taken assumes
\* that it returns.  The dense path is a direct factorization; for Arnoldi it
\* is KrylovSolve's SolveReturns, for the vendored faer whose sweep stops after
\* MAX_REORTH passes.  iterative.rs:7-15 still warns that such SCF loops "can
\* sporadically hang", as they did in faer before that bound.  A
\* matrix of KrylovSolve's panic window (krylov_small) unwinds the call
\* instead: no run of this module has one.
Spec == Init /\ [][Next]_vars /\ WF_vars(Next)
-----------------------------------------------------------------------------
(* Properties *)

TypeOK ==
  /\ params \in Params
  /\ pc \in {"potentials", "solving", "evaluate", "mix", "returned"}
  /\ iter \in 0 .. MaxIter
  /\ rho_r \in Density
  /\ rho_g \in Density
  /\ v_eff \in [Spin -> Potential]
  /\ h_scratch \in [Slots -> Matrix]
  /\ phase \in [Task -> {"idle", "filled", "assembled", "fallback", "solved", "failed"}]
  /\ seed \in [Task -> Wave \cup {None}]
  /\ found \in [Task -> Wave \cup {None}]
  /\ prev_wfn \in [Task -> Wave \cup {None}]
  /\ warned \in BOOLEAN
  /\ warnings \in Nat
  /\ e_prev \in Level \cup {None}
  /\ delta_sigma \in [Spin -> Level \cup {Unset}]
  /\ last_delta \in Level \cup {Infinity}
  /\ outcome \in {"running", "converged", "not_converged", "eigensolver_error"}
  /\ deltas \in [Iterates -> Level \cup {Unset}]
  /\ energies \in [Iterates -> Level \cup {Unset}]

HasHamiltonian(t) == phase[t] \in {"assembled", "fallback", "solved", "failed"}

\* Whatever the task interleaving, the matrix a task solves holds exactly this
\* iteration's V_eff of its own channel, whose Hartree and XC parts come from
\* one and the same input density, its own kinetic term, and ONE nonlocal
\* contribution: the scratch buffers reused across iterations never leak
\* (contract "fill first, then accumulate", scf/potentials.rs:143-144).
HamiltonianIsCurrent ==
  pc = "solving" =>
    \A t \in Live : HasHamiltonian(t) =>
      LET h == h_scratch[Slot(t)] IN
      /\ h.pot.spin = t[1] /\ h.pot.hartree = iter /\ h.pot.xc = iter
      /\ h.kpt = t[2]
      /\ h.vnl = 1

\* A task is warm-started with the finite eigenvectors of ITS OWN channel and
\* k-point from the PREVIOUS iteration, cold on the first (driver.rs:331-334,
\* driver_spin.rs:241-249: "Each channel carries its own history").  With
\* smearing, a non-finite seed only ever meets a non-finite Hamiltonian;
\* without it, see SubspaceIsFinite.
WarmStartIsPreviousIterate ==
  pc = "solving" =>
    \A t \in Live : phase[t] \in {"solved", "fallback"} =>
      IF iter > 0 /\ CachePrevWavefunctions
      THEN /\ seed[t] # None
           /\ seed[t].iter = iter - 1 /\ seed[t].task = t
           /\ params.smearing /\ h_scratch[Slot(t)].pot.finite => seed[t].finite
      ELSE seed[t] = None

\* Ok(ScfResult) is only ever returned from a second or later iterate whose
\* residual is below the threshold in EVERY spin channel and whose energy
\* settled, with every orbital finite and from that iterate: f64::max drops a
\* NaN channel (driver_spin.rs:545), only the energy criterion catches it.
ConvergedIsGenuine ==
  outcome = "converged" =>
    /\ iter > 0
    /\ \A s \in LiveSpins : Below(delta_sigma[s], ConvThreshold)
    /\ Below(Gap(energies[iter], energies[iter - 1]), EnergyThreshold)
    /\ \A t \in Live : found[t].finite /\ found[t].iter = iter

\* Iterate i met both criteria.
Met(i) ==
  /\ i > 0
  /\ Below(deltas[i], ConvThreshold)
  /\ Below(Gap(energies[i], energies[i - 1]), EnergyThreshold)

\* ConvergenceFailure is returned only after max_iter evaluated iterates, none
\* of which met both criteria, and reports the residual of the last of them
\* (infinity if max_iter is 0).  A run with a NaN density ends here too, after
\* all its iterations: mod.rs:342 documents an error propagated for it
\* ("eigensolver failure, NaN density, etc."), which no driver raises.
FailureIsHonest ==
  outcome = "not_converged" =>
    /\ \A i \in Iterates : deltas[i] # Unset /\ ~Met(i)
    /\ last_delta = IF MaxIter = 0 THEN Infinity ELSE deltas[MaxIter - 1]

\* A k-point whose dense solve failed in either channel ends the run with that
\* error: the other channel's success never carries the iteration on.
EigensolverErrorIsNotSwallowed ==
  (\E t \in Live : phase[t] = "failed") =>
    pc = "solving" \/ outcome = "eigensolver_error"

\* However many tasks fall back at once, the run warns at most once and never
\* leaves a fallback unannounced in its process (driver.rs:167-171).
WarnedAtMostOnce ==
  /\ warnings <= 1
  /\ (\E t \in Task : phase[t] = "fallback") => warned

\* run_scf returns, whatever the interleaving and however many iterates are NaN;
\* with EigensolverKind::Iterative too, although iterative.rs:7-15 says that such
\* loops can hang, provided every solver call returns or is an Err (see Spec).
Terminates == <>(pc = "returned")

\* The loop implements ScfPromise: iterate i is done once the loop has passed its
\* convergence test.  ScfPromise leaves out the error that mod.rs:342 documents
\* for a NaN density (the loop runs on to max_iter), and its liveness rests, as
\* Spec's does, on every solver call returning.
Promise == INSTANCE ScfPromise WITH
  done <- IF pc = "mix" \/ outcome = "converged" THEN iter + 1 ELSE iter

Implements == Promise!Spec
=============================================================================
