---------------------------- MODULE AdaptiveBeta ----------------------------
(***************************************************************************)
(* The residual-norm monitor of scf/mixing/mod.rs that damps and restores  *)
(* the mixing parameter beta.  beta is counted in units of 1 / Unit (the   *)
(* products and quotients by damp_factor round down); residual norms are   *)
(* integers, only their ratios matter, besides NaN and Infinity.           *)
(***************************************************************************)
EXTENDS Integers

CONSTANTS
  Unit,       \* beta = 1.0
  BetaStart,  \* the configured mixing_beta
  Norms,      \* the finite residual norms that can occur
  NaN,        \* f64::NAN
  Infinity,   \* f64::INFINITY
  None        \* Option::None

ASSUME BetaAssumption ==
  /\ Unit \in Nat /\ Unit >= 100
  /\ BetaStart \in 1 .. Unit               \* validate: mixing_beta in (0, 1]
  /\ Norms \subseteq Nat
  /\ {NaN, Infinity, None} \cap Nat = {}
  /\ NaN # None /\ Infinity # None /\ NaN # Infinity

VARIABLES
  enabled,         \* adaptive_beta
  beta,            \* the mixer's current beta
  prev_norm,       \* residual norm of the previous iteration
  restore_streak,  \* the code's count of consecutive good ratios
  decreases        \* history: drops since a ratio that was none, up to restore_window

betaVars == <<enabled, beta, prev_norm, restore_streak, decreases>>

restore_window == 3

Floor(a, b) == IF a < b THEN b ELSE a       \* f64::max
Ceil(a, b) == IF a < b THEN a ELSE b        \* f64::min

\* (0.05 * beta_start).max(0.01)
beta_min == Floor(BetaStart \div 20, Unit \div 100)

BetaInit ==
  /\ enabled \in BOOLEAN
  /\ beta = BetaStart
  /\ prev_norm = None
  /\ restore_streak = 0
  /\ decreases = 0

\* ratio > growth_threshold (1.2) and ratio < restore_threshold (0.5); a NaN
\* previous norm makes the ratio NaN, which is neither, an infinite one makes
\* it 0.
Grew(norm, prev) == prev \in Nat /\ 10 * norm > 12 * prev
Dropped(norm, prev) == prev = Infinity \/ (prev \in Nat /\ 2 * norm < prev)

\* (mutant of Restored: no upper clamp)
RestoredUnclamped == (beta * 10) \div 7

\* (mutant of Damped: divides by damp_factor)
DampedUpward == Floor((beta * 10) \div 7, beta_min)

Damped == Floor((beta * 7) \div 10, beta_min)
Restored == Ceil((beta * 10) \div 7, BetaStart)

\* No ratio can be formed: first norm, non-positive previous norm, or a norm
\* that is not finite.  (A previous norm that is not finite is not <= 0.)
Degenerate(norm) == prev_norm \in {None, 0} \/ norm \in {NaN, Infinity}

\* (mutant of Streak: not reset by a restore)
StreakKept(restore) == restore_streak + 1

Streak(restore) == IF restore THEN 0 ELSE restore_streak + 1

\* (mutant of Adjust: the hysteresis band does not end the streak)
AdjustAcrossBand(norm) ==
  \/ Grew(norm, prev_norm) /\ beta' = Damped /\ restore_streak' = 0
  \/ /\ Dropped(norm, prev_norm)
     /\ LET restore == restore_streak + 1 >= restore_window IN
        /\ beta' = IF restore THEN Restored ELSE beta
        /\ restore_streak' = Streak(restore)
  \/ ~Grew(norm, prev_norm) /\ ~Dropped(norm, prev_norm) /\ UNCHANGED <<beta, restore_streak>>

\* Growth damps, the last of restore_window drops restores, the hysteresis
\* band in between keeps beta and ends the streak.
Adjust(norm) ==
  \/ /\ Grew(norm, prev_norm)
     /\ beta' = Damped
     /\ restore_streak' = 0
  \/ /\ Dropped(norm, prev_norm)
     /\ LET restore == restore_streak + 1 >= restore_window IN
        /\ beta' = IF restore THEN Restored ELSE beta
        /\ restore_streak' = Streak(restore)
  \/ /\ ~Grew(norm, prev_norm) /\ ~Dropped(norm, prev_norm)
     /\ beta' = beta
     /\ restore_streak' = 0

\* How many ratios in a row were below restore_threshold; a degenerate norm
\* yields no ratio.
Count(norm) ==
  IF Degenerate(norm) THEN decreases
  ELSE IF Dropped(norm, prev_norm) THEN Ceil(decreases + 1, restore_window) ELSE 0

\* AdaptiveBeta::update
Update(norm) ==
  IF ~enabled THEN UNCHANGED betaVars
  ELSE /\ prev_norm' = norm
       /\ decreases' = Count(norm)
       /\ IF Degenerate(norm) THEN UNCHANGED <<beta, restore_streak>>
          ELSE Adjust(norm)
       /\ UNCHANGED enabled

ResidualNorms == Norms \cup {NaN, Infinity}

BetaNext == \E norm \in ResidualNorms : Update(norm)

BetaSpec == BetaInit /\ [][BetaNext]_betaVars
-----------------------------------------------------------------------------
(* Properties *)

BetaTypeOK ==
  /\ enabled \in BOOLEAN
  /\ beta \in Nat
  /\ prev_norm \in Nat \cup {NaN, Infinity, None}
  /\ restore_streak \in 0 .. restore_window - 1
  /\ decreases \in 0 .. restore_window

\* However damping and restoring alternate, beta stays between its floor and
\* the configured start (mod.rs:87-90), if the start is not below the floor.
BetaStaysInRange ==
  BetaStart >= Unit \div 100 => beta_min <= beta /\ beta <= BetaStart

\* "damps beta when |R| grows" (broyden.rs:59): an iteration whose residual
\* grew beyond the threshold never raises beta, except from below its floor
\* (mixing_beta < 0.01) onto it.
GrowthNeverRaisesBeta ==
  [][/\ prev_norm \in Nat \ {0}
     /\ prev_norm' \in Nat
     /\ Grew(prev_norm', prev_norm)
     => beta' <= Floor(beta, beta_min)]_betaVars

\* beta is raised only onto its floor or after restore_window ratios below the
\* threshold with no other ratio between them (mod.rs:33-34, 101-102); a norm
\* without a ratio, zero or not finite, may lie between, so the iterations
\* need not be consecutive.
RestoreIsEarned ==
  [][beta' > Floor(beta, beta_min) => decreases' = restore_window]_betaVars
=============================================================================
