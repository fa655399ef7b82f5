----------------------------- MODULE FloatOrder -----------------------------
(***************************************************************************)
(* The part of IEEE-754 arithmetic the SCF control flow depends on: finite *)
(* values are integers (a value is its rank against the thresholds), NaN   *)
(* is one extra value that every comparison answers FALSE to, and          *)
(* Infinity is the initial residual, larger than every finite value.       *)
(***************************************************************************)
EXTENDS Integers

CONSTANTS
  NaN,       \* f64::NAN
  Infinity   \* f64::INFINITY

ASSUME FloatAssumption ==
  /\ NaN \notin Int
  /\ Infinity \notin Int
  /\ NaN # Infinity

\* `a < b` on f64 for a finite bound b: NaN and +Infinity are not below it.
Below(a, b) == a # NaN /\ a # Infinity /\ a < b

\* `(a - b).abs()` on finite values or NaN: NaN as soon as either operand is.
Gap(a, b) ==
  IF a = NaN \/ b = NaN THEN NaN
  ELSE IF a < b THEN b - a ELSE a - b

\* `f64::max`: a NaN operand is ignored, not propagated.
MaxIgnoringNaN(a, b) ==
  IF a = NaN THEN b
  ELSE IF b = NaN THEN a
  ELSE IF a < b THEN b ELSE a
=============================================================================
