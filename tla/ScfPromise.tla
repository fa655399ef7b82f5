----------------------------- MODULE ScfPromise -----------------------------
(***************************************************************************)
(* What `run_scf` promises its caller, with the inside of an iteration     *)
(* hidden: a sequence of at most MaxIter iterates, each with a density     *)
(* residual and a total energy; success at the FIRST iterate that meets    *)
(* both thresholds, `ConvergenceFailure` after MaxIter iterates none of    *)
(* which did, or an eigensolver error that ends the run at once.           *)
(*                                                                         *)
(* It is the promise the drivers keep, not all that run_scf's doc lists:   *)
(* mod.rs:342 counts a NaN density among the errors that are propagated,   *)
(* but neither driver tests for one.  Here an iterate with a NaN residual  *)
(* or energy is an iterate like any other, which meets no criterion.       *)
(***************************************************************************)
EXTENDS FloatOrder

CONSTANTS
  MaxIter,          \* ScfParams::max_iter
  ConvThreshold,    \* ScfParams::conv_threshold
  EnergyThreshold,  \* ScfParams::energy_threshold
  DeltaLevels,      \* the finite residuals an iterate can have
  EnergyLevels,     \* the finite total energies an iterate can have
  Unset             \* no iterate recorded at this index yet

VARIABLES
  outcome,   \* "running" until the call returns
  done,      \* iterates completed
  deltas,    \* residual of each completed iterate
  energies   \* total energy of each completed iterate

promiseVars == <<outcome, done, deltas, energies>>

Iterates == 0 .. MaxIter - 1

\* Iterate i meets both criteria; iterate 0 has no energy to compare with.
Meets(d, e, i) ==
  /\ i > 0
  /\ Below(d[i], ConvThreshold)
  /\ Below(Gap(e[i], e[i - 1]), EnergyThreshold)

Init ==
  /\ outcome = "running"
  /\ done = 0
  /\ deltas = [i \in Iterates |-> Unset]
  /\ energies = [i \in Iterates |-> Unset]

Iterate ==
  /\ outcome = "running"
  /\ done < MaxIter
  /\ \E d \in DeltaLevels \cup {NaN}, e \in EnergyLevels \cup {NaN} :
       /\ deltas' = [deltas EXCEPT ![done] = d]
       /\ energies' = [energies EXCEPT ![done] = e]
       /\ outcome' = IF Meets(deltas', energies', done)
                     THEN "converged" ELSE "running"
  /\ done' = done + 1

Break ==
  /\ outcome = "running"
  /\ done < MaxIter
  /\ outcome' = "eigensolver_error"
  /\ UNCHANGED <<done, deltas, energies>>

GiveUp ==
  /\ outcome = "running"
  /\ done = MaxIter
  /\ outcome' = "not_converged"
  /\ UNCHANGED <<done, deltas, energies>>

Next == Iterate \/ Break \/ GiveUp

Spec == Init /\ [][Next]_promiseVars /\ WF_promiseVars(Next)
=============================================================================
