------------------------------- MODULE Mixer -------------------------------
(***************************************************************************)
(* The density mixers of scf/mixing: Anderson, Periodic Pulay and Broyden  *)
(* over one bounded history each, sharing the adaptive-beta monitor.       *)
(*                                                                         *)
(* A density is not an array of numbers but the call it came from: call i  *)
(* brings rho_i and the (preconditioned) residual R_i, and a mixed density *)
(* is Sum_j (rho[j] * rho_j + res[j] * beta * R_j) / den with integer      *)
(* weights.  What solve_linear_system computes is any vector of            *)
(* Coefficients, or its fallback for a singular matrix; or, den = 0, a     *)
(* vector that is not finite: its guard abs() < 1e-15 is false for a NaN   *)
(* pivot, so systems with NaN or infinite entries are solved as they are.  *)
(*                                                                         *)
(* A finite norm (Norms) stands for a residual whose products, system and  *)
(* step stay in the range of f64; an infinite one for a residual that is   *)
(* not finite, or for a finite one whose squares overflow.                 *)
(***************************************************************************)
EXTENDS AdaptiveBeta, Sequences, FiniteSetsExt

CONSTANTS
  Modes,         \* mixing modes: subset of {"anderson", "pulay", "broyden"}
  Histories,     \* values of mixing_ndim (max_history)
  Periods,       \* values of pulay_period
  Coefficients,  \* components a solution of the linear system may have
  MaxCalls       \* bound on the number of mix calls (max_iter)

ASSUME MixerAssumption ==
  /\ Modes \subseteq {"anderson", "pulay", "broyden"}
  /\ Histories \subseteq Nat            \* mixing_ndim is not validated
  /\ Periods \subseteq Nat \ {0}        \* validate rejects period = 0
  /\ Coefficients \subseteq Int
  /\ MaxCalls \in Nat

Calls == 1 .. MaxCalls

VARIABLES
  params,        \* mode, max_history, period
  iteration,     \* mix calls so far
  history_in,    \* calls whose rho_in the Anderson history holds, oldest first
  history_res,   \* calls whose residual it holds
  history_dv,    \* pairs of calls whose rho_in differences Broyden holds
  history_df,    \* pairs of calls whose residual differences it holds
  prev_rho_in,   \* call Broyden's prev_rho_in is from
  prev_residual, \* call Broyden's prev_residual is from
  overflowed,    \* calls whose residual is finite and its norm infinite
  residual_finite, \* the last call's residual was finite
  mixed,         \* the density the last call returned
  panicked       \* an assertion or index of the mixer failed

historyVars == <<history_in, history_res, history_dv, history_df, prev_rho_in,
                 prev_residual>>
mixerVars == <<params, iteration, historyVars, overflowed, residual_finite, mixed,
               panicked>>
vars == <<betaVars, mixerVars>>

\* den = 0: a density with NaN or infinite entries, which no weights describe.
NotFinite == [den |-> 0, rho |-> [j \in Calls |-> 0], res |-> [j \in Calls |-> 0]]

Nothing == [den |-> 1, rho |-> [j \in Calls |-> 0], res |-> [j \in Calls |-> 0]]

Init ==
  /\ BetaInit
  /\ params \in [mode : Modes, max_history : Histories, period : Periods]
  /\ iteration = 0
  /\ history_in = <<>> /\ history_res = <<>>
  /\ history_dv = <<>> /\ history_df = <<>>
  /\ prev_rho_in = None /\ prev_residual = None
  /\ overflowed = {} /\ residual_finite = TRUE
  /\ mixed = Nothing
  /\ panicked = FALSE
-----------------------------------------------------------------------------
\* rho_out - rho_in, preconditioned, as its norm and finiteness: a residual
\* with a NaN or infinite entry has a NaN or infinite norm.
Residuals ==
  [norm : Norms, finite : {TRUE}] \cup [norm : {NaN}, finite : {FALSE}]
    \cup [norm : {Infinity}, finite : BOOLEAN]

\* solve_linear_system for m unknowns over the residuals of these calls, all
\* finite: x / den, uniform 1 / (m + 1) if singular, and den = 0 if their
\* products overflowed and the solution is not finite.
Solutions(m, calls) ==
  [den : {1}, x : [1 .. m -> Coefficients]]
    \cup {[den |-> m + 1, x |-> [i \in 1 .. m |-> 1]]}
    \cup {s \in {[den |-> 0, x |-> [i \in 1 .. m |-> 0]]} : calls \cap overflowed' # {}}

\* (mutant of Trim: the newest entry is dropped)
TrimNewest(h) ==
  IF Len(h) > params.max_history THEN SubSeq(h, 1, Len(h) - 1) ELSE h

\* (mutant of Trim: one entry too early)
TrimEarly(h) == IF Len(h) >= params.max_history THEN Tail(h) ELSE h

\* history.remove(0) once the history is longer than max_history.
Trim(h) == IF Len(h) > params.max_history THEN Tail(h) ELSE h

\* Total weight that the entries of a history naming call j carry.
WeightOf(h, x, j) == SumFunctionOnSet(x, {i \in DOMAIN h : h[i] = j})

\* rho_in + beta * R of the last call in the history.
LinearStep(h_in, h_res) ==
  [den |-> 1,
   rho |-> [j \in Calls |-> IF j = h_in[Len(h_in)] THEN 1 ELSE 0],
   res |-> [j \in Calls |-> IF j = h_res[Len(h_res)] THEN 1 ELSE 0]]

\* (mutant of AlphaLast: the last coefficient ignores the others)
AlphaLastFixed(s) == s.den

\* alpha_last = 1 - Sum alpha_prev
AlphaLast(s) == s.den - SumFunction(s.x)

\* The constrained minimiser: alpha_prev from the linear system.
DiisStep(h_in, h_res, s) ==
  LET alpha == Append(s.x, AlphaLast(s)) IN
  [den |-> s.den,
   rho |-> [j \in Calls |-> WeightOf(h_in, alpha, j)],
   res |-> [j \in Calls |-> WeightOf(h_res, alpha, j)]]

\* What AndersonMixer::diis_step may return; linear below two entries.
DiisSteps(h_in, h_res) ==
  IF Len(h_in) < 2 THEN {LinearStep(h_in, h_res)}
  ELSE {DiisStep(h_in, h_res, s) : s \in Solutions(Len(h_in) - 1, Range(h_res))}

\* Every period-th call extrapolates, provided there are two entries.
DoPulay(h) == (iteration + 1) % params.period = 0 /\ Len(h) >= 2

\* AndersonMixer::mix and PeriodicPulayMixer::mix: push, trim, then step.  Every
\* step adds a multiple of the last residual, so its NaN or infinite entries
\* show.  An empty history (max_history = 0) fails diis_step's assertion or
\* the index len - 1.
AndersonMix ==
  LET h_in == Trim(Append(history_in, iteration + 1))
      h_res == Trim(Append(history_res, iteration + 1))
  IN
  /\ params.mode \in {"anderson", "pulay"}
  /\ history_in' = h_in /\ history_res' = h_res
  /\ panicked' = (h_in = <<>>)
  /\ IF h_in = <<>> THEN mixed' = mixed
     ELSE mixed' \in IF ~residual_finite' THEN {NotFinite}
                     ELSE IF params.mode = "pulay" /\ ~DoPulay(h_in)
                     THEN {LinearStep(h_in, h_res)} ELSE DiisSteps(h_in, h_res)
  /\ UNCHANGED <<history_dv, history_df, prev_rho_in, prev_residual>>
-----------------------------------------------------------------------------
\* Weight of call j in the correction Sum_i gamma_i * (to_i - from_i).
CorrectionOf(h, x, j) ==
  SumFunctionOnSet(x, {i \in DOMAIN h : h[i].to = j})
    - SumFunctionOnSet(x, {i \in DOMAIN h : h[i].from = j})

\* rho_in - Sum gamma dv + beta * (R - Sum gamma df); without differences
\* this is the linear step of the current call.
BroydenStep(h_dv, h_df, s) ==
  LET own(j) == IF j = iteration + 1 THEN s.den ELSE 0 IN
  [den |-> s.den,
   rho |-> [j \in Calls |-> own(j) - CorrectionOf(h_dv, s.x, j)],
   res |-> [j \in Calls |-> own(j) - CorrectionOf(h_df, s.x, j)]]

\* The difference to the previous call, if there was one.
Difference(prev) ==
  IF prev = None THEN <<>> ELSE <<[from |-> prev, to |-> iteration + 1]>>

\* The calls whose residuals the differences are of.
EndsOf(h) == UNION {{h[i].from, h[i].to} : i \in DOMAIN h}

\* BroydenMixer::mix: push the differences to the previous call, trim, save
\* this call, correct.
BroydenMix ==
  LET h_dv == Trim(history_dv \o Difference(prev_rho_in))
      h_df == Trim(history_df \o Difference(prev_residual))
  IN
  /\ params.mode = "broyden"
  /\ history_dv' = h_dv /\ history_df' = h_df
  /\ prev_rho_in' = iteration + 1 /\ prev_residual' = iteration + 1
  /\ mixed' \in IF ~residual_finite' THEN {NotFinite}
                ELSE {BroydenStep(h_dv, h_df, s) : s \in
                        IF h_df = <<>> THEN {[den |-> 1, x |-> <<>>]}
                        ELSE Solutions(Len(h_df), EndsOf(h_df))}
  /\ UNCHANGED <<history_in, history_res, panicked>>

\* One call of Mixer::mix.  rho_in is what the last call returned: if that was
\* not finite, neither is the residual.
Mix ==
  /\ ~panicked
  /\ iteration < MaxCalls
  /\ \E R \in Residuals :
       /\ mixed.den = 0 => ~R.finite
       /\ Update(R.norm)
       /\ residual_finite' = R.finite
       /\ overflowed' = overflowed \cup
            {i \in {iteration + 1} : R.finite /\ R.norm = Infinity}
  /\ AndersonMix \/ BroydenMix
  /\ iteration' = iteration + 1
  /\ UNCHANGED params

Next == Mix

Spec == Init /\ [][Next]_vars
-----------------------------------------------------------------------------
(* Properties *)

\* A difference of two calls.
Pair == [from : Calls, to : Calls]

MixerTypeOK ==
  /\ BetaTypeOK
  /\ params \in [mode : Modes, max_history : Histories, period : Periods]
  /\ iteration \in 0 .. MaxCalls
  /\ history_in \in Seq(Calls) /\ history_res \in Seq(Calls)
  /\ history_dv \in Seq(Pair) /\ history_df \in Seq(Pair)
  /\ prev_rho_in \in Calls \cup {None} /\ prev_residual \in Calls \cup {None}
  /\ overflowed \subseteq Calls /\ residual_finite \in BOOLEAN
  /\ mixed \in [den : Nat, rho : [Calls -> Int], res : [Calls -> Int]]
  /\ panicked \in BOOLEAN

\* The two histories trimmed side by side stay aligned, and hold the most
\* recent calls without a gap: as many as max_history allows.
HistoryIsRecent ==
  LET recent(h, made) == Len(h) = Ceil(made, params.max_history)
      first(h) == iteration - Len(h)
  IN
  /\ history_in = history_res /\ history_dv = history_df
  /\ \A i \in DOMAIN history_in : history_in[i] = first(history_in) + i
  /\ \A i \in DOMAIN history_dv :
       /\ history_dv[i].to = first(history_dv) + i
       /\ history_dv[i].from = history_dv[i].to - 1
  /\ IF params.mode = "broyden"
     THEN recent(history_dv, Floor(iteration - 1, 0)) /\ history_in = <<>>
     ELSE recent(history_in, iteration) /\ history_dv = <<>>

\* Whatever the linear system's solution, and in its singular fallback, a mixed
\* density that is finite is an affine combination of recent densities, each
\* with the residual of its own call: Sum of the weights is 1, so the electron
\* number every rho_j integrates to is conserved (R_j integrates to 0).
\* linalg.rs:10-13 means the fallback to keep NaNs from being emitted, but its
\* guard (linalg.rs:38) is false for a NaN pivot.  A density that is not finite
\* then comes from the latest residual or from an overflowed one of the window.
MixConservesElectrons ==
  LET window == iteration - params.max_history .. iteration IN
  iteration > 0 /\ ~panicked =>
    /\ mixed.den = 0 => ~residual_finite \/ overflowed \cap window # {}
    /\ mixed.den # 0 =>
         /\ SumFunction(mixed.rho) = mixed.den
         /\ mixed.res = mixed.rho
         /\ \A j \in Calls : mixed.rho[j] # 0 => j \in window

\* The steps that mix takes always find a history (anderson.rs:219-221),
\* except with mixing_ndim = 0, which validation accepts: then the first call
\* of Anderson or Pulay panics, and Broyden's mixes linearly.
MixPanicsOnlyWithoutHistory ==
  panicked <=> iteration > 0 /\ params.max_history = 0 /\ params.mode # "broyden"
=============================================================================
