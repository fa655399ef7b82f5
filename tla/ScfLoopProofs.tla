--------------------------- MODULE ScfLoopProofs ---------------------------
(***************************************************************************)
(* Proofs about ScfLoop for every number of k-points, every max_iter and   *)
(* every set of residual and energy levels.                                *)
(***************************************************************************)
EXTENDS ScfLoop, TLAPS

USE FloatAssumption, ScfAssumption, NoneAssumption

(* f64::max of two residuals is one of them.                               *)
LEMMA MaxOfLevels ==
  ASSUME NEW a \in Level, NEW b \in Level
  PROVE  MaxIgnoringNaN(a, b) \in Level
BY DEF MaxIgnoringNaN, Level

(* The combined residual of the live channels is a level.                  *)
LEMMA CombineIsLevel ==
  ASSUME TypeOK, NEW d,
         \A s \in LiveSpins : d[s] \in Level
  PROVE  Combine(d) \in Level
BY MaxOfLevels DEF Combine, TypeOK, Params, LiveSpins, Spin

(* Tasks own disjoint scratch slots: h_scratch.split_at_mut(n_k).          *)
LEMMA SlotsDisjoint ==
  ASSUME NEW t \in Task, NEW u \in Task, t # u
  PROVE  /\ Slot(t) \in Slots
         /\ Slot(t) # Slot(u)
BY DEF Task, Slots, Slot, Spin, KPoints

(* The tasks of the live channels are tasks.                               *)
LEMMA LiveIsTask ==
  ASSUME TypeOK
  PROVE  Live \subseteq Task /\ LiveSpins \subseteq Spin
BY DEF Live, LiveSpins, Task, Spin, TypeOK, Params

-----------------------------------------------------------------------------
(* Inside an iteration the counter indexes the logs, and a run has an      *)
(* outcome exactly when it has returned.                                   *)
Control ==
  /\ pc \in {"solving", "evaluate", "mix"} \/ outcome = "converged" => iter < MaxIter
  /\ (pc = "returned") <=> (outcome # "running")

(* The initial states are well typed.                                      *)
LEMMA TypeInit == Init => TypeOK /\ Control
BY DEF Init, TypeOK, Density, Gen, NoPotential, ZeroMatrix, Potential, Matrix,
       Spin, Slots, KPoints, Level, Params, Control

(* What a task step may write keeps its type.                              *)
LEMMA TaskTypes ==
  ASSUME TypeOK, Control, NEW t \in Live, TaskStep(t)
  PROVE  TypeOK'
<1> USE DEF TypeOK
<1>1. /\ t \in Task /\ t[1] \in Spin /\ t[2] \in KPoints /\ Slot(t) \in Slots
  BY LiveIsTask DEF Task, Slot, Slots, Spin, KPoints
<1>2. CASE FillHamiltonian(t)
  <2>1. Filled(t, h_scratch[Slot(t)]) \in Matrix
    BY <1>1 DEF Filled, Matrix
  <2> QED BY <1>1, <1>2, <2>1 DEF FillHamiltonian, logVars
<1>3. CASE AddNonlocal(t)
  <2>1. h_scratch' \in [Slots -> Matrix]
    BY <1>1, <1>3 DEF AddNonlocal, Matrix
  <2> QED BY <1>1, <1>3, <2>1 DEF AddNonlocal, logVars
<1>4. ASSUME Returns(t), pc = "solving"
      PROVE  /\ found' \in [Task -> Wave \cup {None}]
             /\ phase' \in [Task -> {"idle", "filled", "assembled", "fallback",
                                     "solved", "failed"}]
  <2>1. h_scratch[Slot(t)].pot.finite \in BOOLEAN
    BY <1>1 DEF Matrix, Potential
  <2>2. iter \in Iterates
    BY <1>4 DEF Iterates, Control
  <2> QED BY <1>1, <1>4, <2>1, <2>2 DEF Returns, Wave
<1>5. CASE Solve(t)
  BY <1>1, <1>4, <1>5 DEF Solve, WarmStart, logVars
<1>6. CASE ArnoldiFails(t)
  BY <1>1, <1>6 DEF ArnoldiFails, WarmStart, SwapWarned, logVars
<1>7. CASE FallBackToDense(t)
  BY <1>1, <1>4, <1>7 DEF FallBackToDense, logVars
<1>8. CASE DenseFails(t)
  BY <1>1, <1>8 DEF DenseFails, logVars
<1> QED BY <1>2, <1>3, <1>5, <1>6, <1>7, <1>8 DEF TaskStep

(* Task steps leave the control variables, the densities, the potentials,  *)
(* the cache and the logs alone.                                           *)
LEMMA TaskFrame ==
  ASSUME NEW t \in Live, TaskStep(t)
  PROVE  /\ pc = "solving"
         /\ UNCHANGED <<params, pc, iter, rho_r, rho_g, v_eff, prev_wfn,
                        logVars, outcome>>
BY DEF TaskStep, FillHamiltonian, AddNonlocal, Solve, ArnoldiFails,
       FallBackToDense, DenseFails

(* The residual an evaluated iterate records is a level.                   *)
LEMMA EvaluateTypes ==
  ASSUME TypeOK, Control, Evaluate
  PROVE  /\ delta_sigma' \in [Spin -> Level \cup {Unset}]
         /\ last_delta' = Combine(delta_sigma') /\ last_delta' \in Level
         /\ e_prev' \in Level
         /\ deltas' = [deltas EXCEPT ![iter] = last_delta']
         /\ energies' = [energies EXCEPT ![iter] = e_prev']
         /\ iter \in Iterates
<1>1. PICK d \in [Spin -> DeltaLevels \cup {NaN, Unset}],
           e \in EnergyLevels \cup {NaN} :
        /\ \A s \in LiveSpins :
             d[s] \in IF rho_r.finite /\ DensityFinite(s) THEN DeltaLevels ELSE {NaN}
        /\ delta_sigma' = d
        /\ last_delta' = Combine(d)
        /\ e_prev' = e
        /\ deltas' = [deltas EXCEPT ![iter] = Combine(d)]
        /\ energies' = [energies EXCEPT ![iter] = e]
  BY DEF Evaluate
<1>2. \A s \in LiveSpins : d[s] \in Level
  BY <1>1 DEF Level
<1>3. Combine(d) \in Level
  BY <1>2, CombineIsLevel
<1>4. iter \in Iterates
  BY DEF Evaluate, Control, Iterates, TypeOK
<1> QED BY <1>1, <1>3, <1>4 DEF Level

(* Every step keeps the types and the control facts.                       *)
LEMMA TypeNext == TypeOK /\ Control /\ [Next]_vars => TypeOK' /\ Control'
<1> SUFFICES ASSUME TypeOK, Control, [Next]_vars PROVE TypeOK' /\ Control'
  OBVIOUS
<1>1. CASE BuildPotentials
  BY <1>1 DEF BuildPotentials, InIterationRange, HartreeInput, Density, Potential, Spin, logVars,
              TypeOK, Control
<1>2. ASSUME NEW t \in Live, TaskStep(t) PROVE TypeOK' /\ Control'
  BY <1>2, TaskTypes, TaskFrame DEF Control
<1>3. CASE JoinOk
  BY <1>3, LiveIsTask DEF JoinOk, ChannelJoined, taskVars, logVars, TypeOK, Control
<1>4. CASE JoinErr
  BY <1>4 DEF JoinErr, ChannelErr, taskVars, logVars, TypeOK, Control
<1>5. CASE Evaluate
  <2>1. deltas' \in [Iterates -> Level \cup {Unset}]
        /\ energies' \in [Iterates -> Level \cup {Unset}]
    BY <1>5, EvaluateTypes DEF TypeOK
  <2>2. \/ pc' = "returned" /\ outcome' = "converged"
        \/ pc' = "mix" /\ outcome' = outcome
    BY <1>5 DEF Evaluate
  <2> QED BY <1>5, <2>1, <2>2, EvaluateTypes DEF Evaluate, taskVars, TypeOK, Control
<1>6. CASE Mix
  <2>1. iter + 1 \in 0 .. MaxIter /\ iter + 1 \in Gen
    BY <1>6 DEF Mix, TypeOK, Control, Gen
  <2>2. (rho_r.finite /\ \A s \in LiveSpins : DensityFinite(s)) \in BOOLEAN
    OBVIOUS
  <2> QED BY <1>6, <2>1, <2>2 DEF Mix, Density, taskVars, TypeOK, Control
<1>7. CASE GiveUp
  BY <1>7 DEF GiveUp, Exhausted, taskVars, logVars, TypeOK, Control
<1>8. CASE UNCHANGED vars
  BY <1>8 DEF vars, taskVars, logVars, TypeOK, Control
<1> QED BY <1>1, <1>2, <1>3, <1>4, <1>5, <1>6, <1>7, <1>8 DEF Next

(* Every reachable state is well typed: in particular the loop counter     *)
(* never runs past max_iter and no log is indexed outside its range.       *)
THEOREM TypeCorrect == Spec => []TypeOK
<1>1. Spec => [](TypeOK /\ Control)
  BY TypeInit, TypeNext, PTL DEF Spec
<1> QED BY <1>1, PTL
-----------------------------------------------------------------------------
(* The input density and the potentials belong to the current iteration,   *)
(* and the nspin=1 driver's G-space copy agrees with the density.          *)
DensityIsCurrent ==
  /\ rho_r.gen = iter
  /\ params.nspin = 1 => rho_g = rho_r

PotentialIsCurrent ==
  pc = "solving" =>
    \A s \in LiveSpins :
      /\ v_eff[s].spin = s /\ v_eff[s].hartree = iter /\ v_eff[s].xc = iter
      /\ v_eff[s].finite => rho_r.finite

(* A live task's slot holds its channel's potential and its k-point's      *)
(* kinetic term from the moment it is filled, then one nonlocal term.      *)
SlotIsOwn(t) ==
  pc = "solving" =>
    /\ phase[t] # "idle" =>
         h_scratch[Slot(t)].pot = v_eff[t[1]] /\ h_scratch[Slot(t)].kpt = t[2]
    /\ phase[t] = "filled" => h_scratch[Slot(t)].vnl = 0
    /\ HasHamiltonian(t) => h_scratch[Slot(t)].vnl = 1

MatrixInv ==
  /\ DensityIsCurrent
  /\ PotentialIsCurrent
  /\ \A t \in Live : SlotIsOwn(t)

(* No Hamiltonian has been assembled initially.                            *)
LEMMA MatrixInit == Init => MatrixInv
BY DEF Init, MatrixInv, DensityIsCurrent, PotentialIsCurrent, SlotIsOwn

(* A task step writes its own slot only, in the order fill, accumulate,    *)
(* solve, so it keeps its own slot and every other task's.                 *)
LEMMA SlotNext ==
  ASSUME TypeOK, MatrixInv, NEW t \in Live, TaskStep(t), NEW u \in Live
  PROVE  SlotIsOwn(u)'
<1> USE DEF SlotIsOwn, HasHamiltonian
<1>1. t \in Task /\ u \in Task /\ Slot(t) \in Slots /\ Slot(u) \in Slots
  BY LiveIsTask DEF Task, Slot, Slots, Spin, KPoints
<1>2. u # t => Slot(u) # Slot(t)
  BY <1>1, SlotsDisjoint
<1>3. SlotIsOwn(u) /\ SlotIsOwn(t)
  BY DEF MatrixInv
<1>4. h_scratch \in [Slots -> Matrix]
  BY DEF TypeOK
<1>5. phase \in [Task -> {"idle", "filled", "assembled", "fallback", "solved", "failed"}]
  BY DEF TypeOK
<1>6. CASE FillHamiltonian(t)
  BY <1>1, <1>2, <1>3, <1>4, <1>5, <1>6 DEF FillHamiltonian, Filled
<1>7. CASE AddNonlocal(t)
  BY <1>1, <1>2, <1>3, <1>4, <1>5, <1>7 DEF AddNonlocal, Matrix
<1>8. CASE Solve(t)
  BY <1>1, <1>3, <1>5, <1>8 DEF Solve, Returns
<1>9. CASE ArnoldiFails(t)
  BY <1>1, <1>3, <1>5, <1>9 DEF ArnoldiFails
<1>10. CASE FallBackToDense(t)
  BY <1>1, <1>3, <1>5, <1>10 DEF FallBackToDense, Returns
<1>11. CASE DenseFails(t)
  BY <1>1, <1>3, <1>5, <1>11 DEF DenseFails
<1> QED BY <1>6, <1>7, <1>8, <1>9, <1>10, <1>11 DEF TaskStep

(* Every step keeps the potentials and the assembled matrices current.     *)
LEMMA MatrixNext == TypeOK /\ Control /\ MatrixInv /\ [Next]_vars => MatrixInv'
<1> SUFFICES ASSUME TypeOK, Control, MatrixInv, [Next]_vars PROVE MatrixInv'
  OBVIOUS
<1> USE DEF MatrixInv, DensityIsCurrent
<1>1. CASE BuildPotentials
  <2>1. PICK ok \in [Spin -> BOOLEAN] :
          /\ \A s \in LiveSpins : ok[s] => rho_r.finite /\ HartreeInput.finite
          /\ v_eff' = [s \in Spin |->
               IF s \in LiveSpins
               THEN [spin |-> s, hartree |-> HartreeInput.gen, xc |-> rho_r.gen,
                     finite |-> ok[s]]
               ELSE v_eff[s]]
    BY <1>1 DEF BuildPotentials, InIterationRange
  <2>2. HartreeInput.gen = iter
    BY DEF HartreeInput
  <2>3. PotentialIsCurrent'
    BY <1>1, <2>1, <2>2, LiveIsTask DEF BuildPotentials, InIterationRange, PotentialIsCurrent, LiveSpins
  <2>4. \A t \in Live' : SlotIsOwn(t)'
    BY <1>1, LiveIsTask DEF BuildPotentials, InIterationRange, SlotIsOwn, HasHamiltonian, Live, LiveSpins
  <2> QED BY <1>1, <2>3, <2>4 DEF BuildPotentials, InIterationRange
<1>2. ASSUME NEW t \in Live, TaskStep(t) PROVE MatrixInv'
  <2>1. Live' = Live /\ LiveSpins' = LiveSpins
    BY <1>2, TaskFrame DEF Live, LiveSpins
  <2>2. \A u \in Live : SlotIsOwn(u)'
    BY <1>2, SlotNext
  <2> QED BY <1>2, <2>1, <2>2, TaskFrame DEF PotentialIsCurrent
<1>3. CASE JoinOk
  BY <1>3 DEF JoinOk, ChannelJoined, PotentialIsCurrent, SlotIsOwn
<1>4. CASE JoinErr
  BY <1>4 DEF JoinErr, ChannelErr, PotentialIsCurrent, SlotIsOwn
<1>5. CASE Evaluate
  BY <1>5 DEF Evaluate, PotentialIsCurrent, SlotIsOwn
<1>6. CASE Mix
  BY <1>6 DEF Mix, PotentialIsCurrent, SlotIsOwn
<1>7. CASE GiveUp
  BY <1>7 DEF GiveUp, Exhausted, PotentialIsCurrent, SlotIsOwn
<1>8. CASE UNCHANGED vars
  BY <1>8 DEF vars, taskVars, PotentialIsCurrent, SlotIsOwn, HasHamiltonian, Live,
              LiveSpins
<1> QED BY <1>1, <1>2, <1>3, <1>4, <1>5, <1>6, <1>7, <1>8 DEF Next

(* For any number of k-points and any interleaving of the rayon tasks, a   *)
(* task solves the matrix of this iteration, channel and k-point, with the *)
(* nonlocal term added once.                                               *)
THEOREM HamiltonianStaysCurrent == Spec => []HamiltonianIsCurrent
<1>1. Spec => [](TypeOK /\ Control /\ MatrixInv)
  BY TypeInit, TypeNext, MatrixInit, MatrixNext, PTL DEF Spec
<1>2. TypeOK /\ MatrixInv => HamiltonianIsCurrent
  BY DEF MatrixInv, SlotIsOwn, PotentialIsCurrent, HamiltonianIsCurrent, HasHamiltonian,
         Live
<1> QED BY <1>1, <1>2, PTL
-----------------------------------------------------------------------------
(* w is the eigenvectors of task t from iteration i, finite if `fin` holds. *)
IsWave(w, t, i, fin) ==
  /\ w # None /\ w.iter = i /\ w.task = t
  /\ fin => w.finite

(* What a solved task found is its own; after the join, every live task    *)
(* has found this iteration's orbitals.                                    *)
FoundInv ==
  /\ pc = "solving" => \A t \in Live : phase[t] = "solved" =>
       IsWave(found[t], t, iter, FALSE)
  /\ pc \in {"evaluate", "mix"} \/ outcome = "converged" => \A t \in Live :
       IsWave(found[t], t, iter, FALSE)

(* While an iteration solves, the warm-start cache holds the previous      *)
(* iteration's orbitals of every live task, which with smearing are finite *)
(* if the input density made from them is; it stays empty if no backend    *)
(* reads it.                                                               *)
CacheInv ==
  /\ ~CachePrevWavefunctions => \A t \in Live : prev_wfn[t] = None
  /\ CachePrevWavefunctions /\ pc \in {"potentials", "solving"} => \A t \in Live :
       IF iter = 0 THEN prev_wfn[t] = None
       ELSE IsWave(prev_wfn[t], t, iter - 1, rho_r.finite /\ params.smearing)
  /\ CachePrevWavefunctions /\ pc \in {"evaluate", "mix"} => \A t \in Live :
       prev_wfn[t] = found[t]

(* A task that has called its solver was seeded from the cache.            *)
SeedInv ==
  pc = "solving" => \A t \in Live :
    phase[t] \in {"solved", "fallback"} => seed[t] = prev_wfn[t]

(* The static is set before a fallback is visible, and a run that printed  *)
(* its warning finds it set.                                               *)
WarningInv ==
  /\ warnings = 0 \/ (warnings = 1 /\ warned)
  /\ \A t \in Task : phase[t] = "fallback" => warned

FailureInv ==
  (\E t \in Live : phase[t] = "failed") =>
    pc = "solving" \/ outcome = "eigensolver_error"

FlowInv == FoundInv /\ CacheInv /\ SeedInv /\ WarningInv /\ FailureInv

(* The cache starts empty and no task has started.                         *)
LEMMA FlowInit == Init => FlowInv
BY LiveIsTask, TypeInit DEF Init, FlowInv, FoundInv, CacheInv, SeedInv, WarningInv,
   FailureInv, Task

(* A task step keeps every hand-over fact: what it returns is its own.     *)
LEMMA FlowTask ==
  ASSUME TypeOK, Control, MatrixInv, FlowInv, NEW t \in Live, TaskStep(t)
  PROVE  FlowInv'
<1> USE DEF FlowInv
<1>1. t \in Task /\ Slot(t) \in Slots /\ Live \subseteq Task
  BY LiveIsTask DEF Task, Slot, Slots, Spin, KPoints
<1>2. /\ pc = "solving"
      /\ UNCHANGED <<params, pc, iter, rho_r, rho_g, v_eff, prev_wfn, outcome>>
      /\ Live' = Live /\ CachePrevWavefunctions' = CachePrevWavefunctions
  BY TaskFrame DEF Live, LiveSpins, CachePrevWavefunctions
<1>3. outcome = "running"
  BY <1>2 DEF Control, TypeOK
<1>4. CacheInv'
  BY <1>2 DEF CacheInv, IsWave
<1>5. FailureInv'
  BY <1>2 DEF FailureInv
<1>6. /\ phase \in [Task -> {"idle", "filled", "assembled", "fallback", "solved", "failed"}]
      /\ found \in [Task -> Wave \cup {None}] /\ seed \in [Task -> Wave \cup {None}]
      /\ warned \in BOOLEAN /\ warnings \in Nat
  BY DEF TypeOK
<1>7. ASSUME UNCHANGED found, phase' = [phase EXCEPT ![t] = phase'[t]],
             phase'[t] # "solved"
      PROVE  FoundInv'
  BY <1>1, <1>2, <1>3, <1>6, <1>7 DEF FoundInv, IsWave
<1>8. ASSUME UNCHANGED seed, phase' = [phase EXCEPT ![t] = phase'[t]],
             phase[t] = "fallback" \/ phase'[t] \notin {"solved", "fallback"}
      PROVE  SeedInv'
  BY <1>1, <1>2, <1>6, <1>8 DEF SeedInv
<1>9. ASSUME UNCHANGED <<warned, warnings>>, phase' = [phase EXCEPT ![t] = phase'[t]],
             phase'[t] # "fallback"
      PROVE  WarningInv'
  BY <1>1, <1>6, <1>9 DEF WarningInv
<1>10. ASSUME Returns(t), HasHamiltonian(t) PROVE FoundInv'
  <2>1. IsWave(found'[t], t, iter, FALSE) /\ phase'[t] = "solved"
    <3>1. found'[t] = [iter |-> iter, task |-> t,
                       finite |-> h_scratch[Slot(t)].pot.finite /\ SubspaceIsFinite(t)]
      BY <1>1, <1>6, <1>10 DEF Returns
    <3>2. /\ iter \in Iterates
          /\ (h_scratch[Slot(t)].pot.finite /\ SubspaceIsFinite(t)) \in BOOLEAN
      BY <1>1, <1>2 DEF TypeOK, Control, Iterates
    <3>3. found'[t] \in Wave
      BY <1>1, <3>1, <3>2 DEF Wave
    <3> QED BY <1>1, <1>6, <1>10, <3>1, <3>3 DEF IsWave, Returns
  <2>2. \A u \in Live : u # t => found'[u] = found[u] /\ phase'[u] = phase[u]
    BY <1>1, <1>6, <1>10 DEF Returns
  <2> QED BY <1>2, <1>3, <2>1, <2>2 DEF FoundInv, IsWave
<1>11. CASE FillHamiltonian(t)
  BY <1>1, <1>4, <1>5, <1>6, <1>7, <1>8, <1>9, <1>11 DEF FillHamiltonian
<1>12. CASE AddNonlocal(t)
  BY <1>1, <1>4, <1>5, <1>6, <1>7, <1>8, <1>9, <1>12 DEF AddNonlocal
<1>13. CASE Solve(t)
  <2>1. SeedInv'
    BY <1>1, <1>2, <1>6, <1>13 DEF Solve, Returns, WarmStart, SeedInv
  <2> QED BY <1>1, <1>4, <1>5, <1>6, <1>9, <1>10, <1>13, <2>1
          DEF Solve, Returns, HasHamiltonian
<1>14. CASE ArnoldiFails(t)
  <2>1. SeedInv'
    BY <1>1, <1>2, <1>6, <1>14 DEF ArnoldiFails, WarmStart, SeedInv
  <2>2. WarningInv'
    BY <1>1, <1>6, <1>14 DEF ArnoldiFails, SwapWarned, WarningInv
  <2> QED BY <1>1, <1>4, <1>5, <1>6, <1>7, <1>14, <2>1, <2>2 DEF ArnoldiFails
<1>15. CASE FallBackToDense(t)
  BY <1>1, <1>4, <1>5, <1>6, <1>8, <1>9, <1>10, <1>15
     DEF FallBackToDense, Returns, HasHamiltonian
<1>16. CASE DenseFails(t)
  BY <1>1, <1>4, <1>5, <1>6, <1>7, <1>8, <1>9, <1>16 DEF DenseFails
<1> QED BY <1>11, <1>12, <1>13, <1>14, <1>15, <1>16 DEF TaskStep

(* Every step keeps the hand-over of wavefunctions between iterations.     *)
LEMMA FlowNext ==
  TypeOK /\ Control /\ MatrixInv /\ FlowInv /\ [Next]_vars => FlowInv'
<1> SUFFICES ASSUME TypeOK, Control, MatrixInv, FlowInv, [Next]_vars PROVE FlowInv'
  OBVIOUS
<1> USE DEF FlowInv, FoundInv, CacheInv, SeedInv, WarningInv, FailureInv, IsWave
<1>1. /\ Live \subseteq Task /\ phase \in [Task -> {"idle", "filled", "assembled",
                                         "fallback", "solved", "failed"}]
      /\ outcome \in {"running", "converged", "not_converged", "eigensolver_error"}
  BY LiveIsTask DEF TypeOK
<1>2. ASSUME UNCHANGED params
      PROVE  Live' = Live /\ CachePrevWavefunctions' = CachePrevWavefunctions
  BY <1>2 DEF Live, LiveSpins, CachePrevWavefunctions
<1>3. CASE BuildPotentials
  BY <1>1, <1>2, <1>3 DEF BuildPotentials, InIterationRange, Control
<1>4. ASSUME NEW t \in Live, TaskStep(t) PROVE FlowInv'
  BY <1>4, FlowTask
<1>5. CASE JoinOk
  <2>1. \A t \in Live : phase[t] = "solved"
    BY <1>5 DEF JoinOk, ChannelJoined, Live
  <2> QED BY <1>1, <1>2, <1>5, <2>1 DEF JoinOk, taskVars, Control
<1>6. CASE JoinErr
  BY <1>1, <1>2, <1>6 DEF JoinErr, ChannelErr, taskVars, Control
<1>7. CASE Evaluate
  BY <1>1, <1>2, <1>7 DEF Evaluate, taskVars, Control
<1>8. CASE Mix
  <2>1. rho_r'.finite => \A s \in LiveSpins : DensityFinite(s)
    BY <1>8 DEF Mix
  <2>2. rho_r'.finite /\ params.smearing => \A t \in Live : found[t].finite
    BY <2>1 DEF DensityFinite, OrbitalsFinite, Live
  <2>3. iter' - 1 = iter /\ iter' # 0
    BY <1>8 DEF Mix, TypeOK
  <2> QED BY <1>1, <1>2, <1>8, <2>2, <2>3 DEF Mix, taskVars, Control
<1>9. CASE GiveUp
  BY <1>1, <1>2, <1>9 DEF GiveUp, Exhausted, taskVars, Control
<1>10. CASE UNCHANGED vars
  BY <1>1, <1>2, <1>10 DEF vars, taskVars
<1> QED BY <1>3, <1>4, <1>5, <1>6, <1>7, <1>8, <1>9, <1>10 DEF Next

(* For any number of k-points, a task that has called its solver was       *)
(* seeded with its own channel's and k-point's eigenvectors of the         *)
(* previous iteration; with smearing, finite ones if its Hamiltonian is.   *)
THEOREM WarmStartStaysPrevious == Spec => []WarmStartIsPreviousIterate
<1>1. Spec => [](TypeOK /\ Control /\ MatrixInv /\ FlowInv)
  BY TypeInit, TypeNext, MatrixInit, MatrixNext, FlowInit, FlowNext, PTL DEF Spec
<1>2. TypeOK /\ MatrixInv /\ FlowInv => WarmStartIsPreviousIterate
  <2> SUFFICES ASSUME TypeOK, MatrixInv, FlowInv, pc = "solving", NEW t \in Live,
                      phase[t] \in {"solved", "fallback"}
               PROVE  IF iter > 0 /\ CachePrevWavefunctions
                      THEN /\ seed[t] # None
                           /\ seed[t].iter = iter - 1 /\ seed[t].task = t
                           /\ params.smearing /\ h_scratch[Slot(t)].pot.finite
                                => seed[t].finite
                      ELSE seed[t] = None
    BY DEF WarmStartIsPreviousIterate
  <2>1. seed[t] = prev_wfn[t]
    BY DEF FlowInv, SeedInv
  <2>2. h_scratch[Slot(t)].pot.finite => rho_r.finite
    BY DEF MatrixInv, SlotIsOwn, PotentialIsCurrent, Live
  <2>3. iter = 0 \/ iter > 0
    BY DEF TypeOK
  <2> QED BY <2>1, <2>2, <2>3 DEF FlowInv, CacheInv, IsWave
<1> QED BY <1>1, <1>2, PTL

(* A failed eigenproblem in either channel ends the run.                   *)
THEOREM ErrorsAreNotSwallowed == Spec => []EigensolverErrorIsNotSwallowed
<1>1. Spec => [](TypeOK /\ Control /\ MatrixInv /\ FlowInv)
  BY TypeInit, TypeNext, MatrixInit, MatrixNext, FlowInit, FlowNext, PTL DEF Spec
<1>2. FlowInv => EigensolverErrorIsNotSwallowed
  BY DEF FlowInv, FailureInv, EigensolverErrorIsNotSwallowed
<1> QED BY <1>1, <1>2, PTL

(* Any number of concurrent fallbacks prints at most one warning.          *)
THEOREM WarnsOnce == Spec => []WarnedAtMostOnce
<1>1. Spec => [](TypeOK /\ Control /\ MatrixInv /\ FlowInv)
  BY TypeInit, TypeNext, MatrixInit, MatrixNext, FlowInit, FlowNext, PTL DEF Spec
<1>2. FlowInv => WarnedAtMostOnce
  BY DEF FlowInv, WarningInv, WarnedAtMostOnce
<1> QED BY <1>1, <1>2, PTL
-----------------------------------------------------------------------------
(* Iterates evaluated so far.                                              *)
Done == IF pc = "mix" \/ outcome = "converged" THEN iter + 1 ELSE iter

(* The loop's scalars are the last entries of the history, and an iterate  *)
(* that met both criteria is the one the run converged at.                 *)
LogInv ==
  /\ \A i \in Iterates : i < Done => deltas[i] \in Level /\ energies[i] \in Level
  /\ Done = 0 => e_prev = None /\ last_delta = Infinity
  /\ Done > 0 => e_prev = energies[Done - 1] /\ last_delta = deltas[Done - 1]
  /\ \A i \in Iterates : i < Done /\ Met(i) => outcome = "converged" /\ i = iter
  /\ outcome = "converged" => Met(iter)
  /\ outcome = "not_converged" => iter = MaxIter

(* A converged iterate is below the threshold and finite in every channel. *)
ChannelInv ==
  outcome = "converged" =>
    /\ \A s \in LiveSpins : Below(delta_sigma[s], ConvThreshold)
    /\ \A t \in Live : found[t].finite

(* The logs start empty.                                                   *)
LEMMA LogInit == Init => LogInv /\ ChannelInv
BY DEF Init, LogInv, ChannelInv, Done, Iterates

(* f64::max is below a bound only if both of two non-NaN operands are.     *)
LEMMA MaxBelow ==
  ASSUME NEW a \in Int, NEW b \in Int, NEW c \in Int, Below(MaxIgnoringNaN(a, b), c)
  PROVE  Below(a, c) /\ Below(b, c)
BY DEF Below, MaxIgnoringNaN

(* A NaN energy is never within the threshold of anything.                 *)
LEMMA EnergyGuard ==
  ASSUME NEW e, EnergyConverged(e)
  PROVE  e # NaN
BY DEF EnergyConverged, Below, Gap

(* Evaluating an iterate extends the logs by it and returns exactly if it  *)
(* met both criteria.                                                      *)
LEMMA EvaluateLogs ==
  ASSUME TypeOK, Control, LogInv, FlowInv, Evaluate
  PROVE  LogInv' /\ ChannelInv'
<1>1. PICK d \in [Spin -> DeltaLevels \cup {NaN, Unset}],
           e \in EnergyLevels \cup {NaN} :
        /\ \A s \in LiveSpins :
             d[s] \in IF rho_r.finite /\ DensityFinite(s) THEN DeltaLevels ELSE {NaN}
        /\ e \in IF \A s \in LiveSpins : OrbitalsFinite(s) THEN EnergyLevels ELSE {NaN}
        /\ delta_sigma' = d
        /\ last_delta' = Combine(d)
        /\ e_prev' = e
        /\ deltas' = [deltas EXCEPT ![iter] = Combine(d)]
        /\ energies' = [energies EXCEPT ![iter] = e]
        /\ IF Converged(Combine(d), e)
           THEN pc' = "returned" /\ outcome' = "converged"
           ELSE pc' = "mix" /\ outcome' = outcome
  BY DEF Evaluate
<1>2. /\ UNCHANGED <<params, iter, found>> /\ pc = "evaluate"
      /\ outcome = "running" /\ iter \in Iterates /\ iter \in Nat
  BY DEF Evaluate, taskVars, Control, TypeOK, Iterates
<1>3. Done = iter /\ Done' = iter + 1
  BY <1>1, <1>2 DEF Done
<1>4. Combine(d) \in Level /\ e \in Level
  <2>1. \A s \in LiveSpins : d[s] \in Level
    BY <1>1 DEF Level
  <2> QED BY <1>1, <2>1, CombineIsLevel DEF Level
<1>5. /\ deltas'[iter] = Combine(d) /\ energies'[iter] = e
      /\ \A i \in Iterates : i # iter =>
           deltas'[i] = deltas[i] /\ energies'[i] = energies[i]
  BY <1>1, <1>2 DEF TypeOK
<1>6. Converged(Combine(d), e) <=> Met(iter)'
  <2>1. iter = 0 => ~Met(iter)' /\ ~Converged(Combine(d), e)
    BY <1>2, <1>3 DEF Met, Converged, EnergyConverged, LogInv
  <2>2. ASSUME iter > 0 PROVE Converged(Combine(d), e) <=> Met(iter)'
    <3>1. iter - 1 \in Iterates /\ iter - 1 < iter
      BY <1>2, <2>2 DEF Iterates
    <3>2. e_prev = energies[iter - 1] /\ energies[iter - 1] \in Level
      BY <1>3, <2>2, <3>1 DEF LogInv
    <3>3. e_prev # None /\ energies'[iter - 1] = e_prev
      BY <1>2, <1>5, <3>1, <3>2
    <3> QED BY <1>2, <1>5, <2>2, <3>3 DEF Met, Converged, EnergyConverged
  <2> QED BY <1>2, <2>1, <2>2
<1>7. ASSUME NEW i \in Iterates, i < iter PROVE Met(i)' <=> Met(i)
  <2>1. i # iter /\ i - 1 # iter /\ (i > 0 => i - 1 \in Iterates)
    BY <1>2, <1>7 DEF Iterates
  <2> QED BY <1>5, <2>1 DEF Met
<1>8. LogInv'
  <2>1. \A i \in Iterates : i < Done' => i < iter \/ i = iter
    BY <1>2, <1>3 DEF Iterates
  <2>2. \A i \in Iterates : i < Done' =>
          deltas'[i] \in Level /\ energies'[i] \in Level
    BY <1>2, <1>3, <1>4, <1>5, <2>1 DEF LogInv
  <2>3. \A i \in Iterates : i < Done' /\ Met(i)' => outcome' = "converged" /\ i = iter
    BY <1>1, <1>2, <1>3, <1>6, <1>7, <2>1 DEF LogInv
  <2>4. outcome' = "converged" => Met(iter)'
    BY <1>1, <1>2, <1>6
  <2>5. Done' > 0 /\ Done' - 1 = iter /\ outcome' # "not_converged"
    BY <1>1, <1>2, <1>3
  <2> QED BY <1>1, <1>2, <1>5, <2>2, <2>3, <2>4, <2>5 DEF LogInv, Met
<1>9. ChannelInv'
  <2> SUFFICES ASSUME outcome' = "converged"
               PROVE  /\ \A s \in LiveSpins : Below(d[s], ConvThreshold)
                      /\ \A t \in Live : found[t].finite
    BY <1>1, <1>2 DEF ChannelInv, LiveSpins, Live
  <2>1. Converged(Combine(d), e)
    BY <1>1, <1>2
  <2>2. \A s \in LiveSpins : OrbitalsFinite(s)
    BY <1>1, <2>1, EnergyGuard DEF Converged
  <2>3. \A s \in LiveSpins : d[s] \in Int
    <3>1. CASE rho_r.finite
      BY <1>1, <2>2, <3>1 DEF DensityFinite
    <3>2. CASE ~rho_r.finite
      <4>1. \A s \in LiveSpins : d[s] = NaN
        BY <1>1, <3>2
      <4>2. Combine(d) = NaN
        BY <4>1 DEF Combine, LiveSpins, Spin, MaxIgnoringNaN
      <4> QED BY <2>1, <4>2 DEF Converged, Below
    <3> QED BY <3>1, <3>2
  <2>4. \A s \in LiveSpins : Below(d[s], ConvThreshold)
    <3>1. CASE params.nspin = 1
      BY <2>1, <3>1 DEF Converged, Combine, LiveSpins
    <3>2. CASE params.nspin # 1
      BY <2>1, <2>3, <3>2, MaxBelow DEF Converged, Combine, LiveSpins, Spin
    <3> QED BY <3>1, <3>2
  <2> QED BY <2>2, <2>4 DEF OrbitalsFinite, Live
<1> QED BY <1>8, <1>9

(* Every step keeps the logs of the evaluated iterates.                    *)
LEMMA LogNext ==
  TypeOK /\ Control /\ LogInv /\ ChannelInv /\ FlowInv /\ [Next]_vars
    => LogInv' /\ ChannelInv'
<1> SUFFICES ASSUME TypeOK, Control, LogInv, ChannelInv, FlowInv, [Next]_vars
             PROVE  LogInv' /\ ChannelInv'
  OBVIOUS
<1>1. ASSUME UNCHANGED <<e_prev, last_delta, deltas, energies>>,
             Done' = Done, outcome' # "converged", outcome # "converged",
             outcome' = "not_converged" => iter' = MaxIter
      PROVE  LogInv' /\ ChannelInv'
  BY <1>1 DEF LogInv, ChannelInv, Met
<1>2. CASE BuildPotentials
  BY <1>1, <1>2 DEF BuildPotentials, InIterationRange, logVars, Done, Control
<1>3. ASSUME NEW t \in Live, TaskStep(t) PROVE LogInv' /\ ChannelInv'
  BY <1>1, <1>3, TaskFrame DEF logVars, Done, Control
<1>4. CASE JoinOk
  BY <1>1, <1>4 DEF JoinOk, ChannelJoined, logVars, Done, Control
<1>5. CASE JoinErr
  BY <1>1, <1>5 DEF JoinErr, ChannelErr, logVars, Done, Control
<1>6. CASE Evaluate
  BY <1>6, EvaluateLogs
<1>7. CASE Mix
  BY <1>1, <1>7 DEF Mix, Done, Control
<1>8. CASE GiveUp
  BY <1>1, <1>8 DEF GiveUp, Exhausted, logVars, Done, Control
<1>9. CASE UNCHANGED vars
  BY <1>9 DEF vars, logVars, taskVars, LogInv, ChannelInv, Done, Met, LiveSpins, Live
<1> QED BY <1>2, <1>3, <1>4, <1>5, <1>6, <1>7, <1>8, <1>9 DEF Next

(* The inductive invariant of the loop. *)
IInv == TypeOK /\ Control /\ MatrixInv /\ FlowInv /\ LogInv /\ ChannelInv

(* The inductive invariant holds in every reachable state.                 *)
LEMMA Inductive == Spec => []IInv
<1>1. Init => IInv
  BY TypeInit, MatrixInit, FlowInit, LogInit DEF IInv
<1>2. IInv /\ [Next]_vars => IInv'
  BY TypeNext, MatrixNext, FlowNext, LogNext DEF IInv
<1> QED BY <1>1, <1>2, PTL DEF Spec

(* A converged result has every channel's residual below the threshold,    *)
(* a settled energy and finite orbitals of the last iterate, although      *)
(* f64::max drops a NaN channel from the residual that is compared.        *)
THEOREM ConvergenceIsGenuine == Spec => []ConvergedIsGenuine
<1>1. IInv => ConvergedIsGenuine
  BY DEF IInv, LogInv, ChannelInv, FlowInv, FoundInv, IsWave, Met, ConvergedIsGenuine
<1> QED BY <1>1, Inductive, PTL

(* ConvergenceFailure means max_iter iterates, none of which converged,    *)
(* those with a NaN density included.                                      *)
THEOREM FailuresAreHonest == Spec => []FailureIsHonest
<1>1. IInv => FailureIsHonest
  <2> SUFFICES ASSUME IInv, outcome = "not_converged" PROVE
         /\ \A i \in Iterates : deltas[i] # Unset /\ ~Met(i)
         /\ last_delta = IF MaxIter = 0 THEN Infinity ELSE deltas[MaxIter - 1]
    BY DEF FailureIsHonest
  <2>1. pc = "returned" /\ iter = MaxIter /\ Done = MaxIter
    BY DEF IInv, Control, LogInv, Done
  <2>2. Unset \notin Level
    BY DEF Level
  <2> QED BY <2>1, <2>2 DEF IInv, LogInv, Iterates
<1> QED BY <1>1, Inductive, PTL
-----------------------------------------------------------------------------
(* Refinement: the evaluation of an iterate is the promise's Iterate, an   *)
(* eigensolver error its Break, exhaustion its GiveUp; every other step    *)
(* leaves what the promise shows unchanged.                                *)
LEMMA PromiseInit == Init => Promise!Init
BY DEF Init, Promise!Init, Iterates, Promise!Iterates

(* An evaluation is an Iterate of the promise.                             *)
LEMMA PromiseIterate ==
  ASSUME IInv, Evaluate
  PROVE  Promise!Iterate
<1>1. PICK d \in [Spin -> DeltaLevels \cup {NaN, Unset}],
           e \in EnergyLevels \cup {NaN} :
        /\ \A s \in LiveSpins :
             d[s] \in IF rho_r.finite /\ DensityFinite(s) THEN DeltaLevels ELSE {NaN}
        /\ deltas' = [deltas EXCEPT ![iter] = Combine(d)]
        /\ energies' = [energies EXCEPT ![iter] = e]
        /\ IF Converged(Combine(d), e)
           THEN pc' = "returned" /\ outcome' = "converged"
           ELSE pc' = "mix" /\ outcome' = outcome
  BY DEF Evaluate
<1>2. /\ pc = "evaluate" /\ outcome = "running" /\ iter' = iter
      /\ iter < MaxIter /\ iter \in Nat
  BY DEF Evaluate, IInv, Control, TypeOK
<1>3. Combine(d) \in DeltaLevels \cup {NaN}
  <2>1. \A s \in LiveSpins : d[s] \in DeltaLevels \cup {NaN}
    BY <1>1
  <2>2. params.nspin = 1 => "up" \in LiveSpins
    BY DEF LiveSpins
  <2>3. params.nspin # 1 => "up" \in LiveSpins /\ "down" \in LiveSpins
    BY DEF LiveSpins, Spin
  <2> QED BY <2>1, <2>2, <2>3 DEF Combine, MaxIgnoringNaN
<1>4. outcome' = IF Met(iter)' THEN "converged" ELSE "running"
  <2>1. (outcome' = "converged") <=> Met(iter)'
    <3>1. LogInv'
      BY EvaluateLogs DEF IInv
    <3>2. iter \in Iterates /\ Done' = iter + 1
      BY <1>1, <1>2 DEF Done, Iterates
    <3> QED BY <1>2, <3>1, <3>2 DEF LogInv, Iterates
  <2>2. outcome' = "converged" \/ outcome' = "running"
    BY <1>1, <1>2
  <2> QED BY <2>1, <2>2
<1>5. Promise!Meets(deltas', energies', iter) <=> Met(iter)'
  BY <1>2 DEF Met, Promise!Meets, Below, Gap, Promise!Below, Promise!Gap
<1> QED BY <1>1, <1>2, <1>3, <1>4, <1>5 DEF Promise!Iterate

(* Every step of the loop is a step of the promise or leaves it unchanged. *)
LEMMA PromiseStep == IInv /\ [Next]_vars => [Promise!Next]_(Promise!promiseVars)
<1> SUFFICES ASSUME IInv, [Next]_vars PROVE [Promise!Next]_(Promise!promiseVars)
  OBVIOUS
<1> USE DEF Promise!promiseVars
<1>1. CASE BuildPotentials
  BY <1>1 DEF BuildPotentials, InIterationRange, logVars, IInv, Control
<1>2. ASSUME NEW t \in Live, TaskStep(t)
      PROVE  [Promise!Next]_(Promise!promiseVars)
  BY <1>2, TaskFrame DEF logVars
<1>3. CASE JoinOk
  BY <1>3 DEF JoinOk, ChannelJoined, logVars, IInv, Control
<1>4. CASE JoinErr
  BY <1>4 DEF JoinErr, ChannelErr, logVars, IInv, Control, Promise!Next, Promise!Break
<1>5. CASE Evaluate
  BY <1>5, PromiseIterate DEF Promise!Next
<1>6. CASE Mix
  BY <1>6 DEF Mix, IInv, Control
<1>7. CASE GiveUp
  BY <1>7 DEF GiveUp, Exhausted, logVars, IInv, Control, Promise!Next, Promise!GiveUp, Exhausted
<1>8. CASE UNCHANGED vars
  BY <1>8 DEF vars, logVars
<1> QED BY <1>1, <1>2, <1>3, <1>4, <1>5, <1>6, <1>7, <1>8 DEF Next

(* The safety part of the refinement: both drivers do only what ScfPromise *)
(* allows, which for a NaN density is to run on, not mod.rs:342's error.   *)
THEOREM LoopImplementsPromise ==
  Spec => Promise!Init /\ [][Promise!Next]_(Promise!promiseVars)
<1> QED BY PromiseInit, PromiseStep, Inductive, PTL DEF Spec
=============================================================================
