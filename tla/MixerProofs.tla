---------------------------- MODULE MixerProofs ----------------------------
(***************************************************************************)
(* The adaptive-beta monitor and the mixers' histories, for every starting *)
(* beta, every set of residual norms, every max_history and any number of  *)
(* calls.                                                                  *)
(***************************************************************************)
EXTENDS Mixer, IntegerFolds

USE BetaAssumption, MixerAssumption DEF BetaAssumption, MixerAssumption

(* The floor of beta is a positive number of units.                        *)
LEMMA FloorOfBeta == beta_min \in Nat /\ beta_min >= Unit \div 100 /\ Unit \div 100 \in Nat
BY DEF beta_min, Floor

(* If the start is not below 0.01, it is not below the floor.              *)
LEMMA StartAboveFloor == BetaStart >= Unit \div 100 => beta_min <= BetaStart
BY DEF beta_min, Floor

(* Damping lowers a beta that is at least its floor, but not below it.     *)
LEMMA DampedBounds ==
  ASSUME beta \in Nat
  PROVE  /\ Damped \in Nat /\ beta_min <= Damped
         /\ beta_min <= beta => Damped <= beta
<1>1. (beta * 7) \div 10 \in Nat /\ (beta * 7) \div 10 <= beta
  OBVIOUS
<1> QED BY <1>1, FloorOfBeta DEF Damped, Floor

(* Damping raises beta at most onto its floor.                             *)
LEMMA DampedToFloor ==
  ASSUME beta \in Nat
  PROVE  Damped <= Floor(beta, beta_min)
<1>1. (beta * 7) \div 10 \in Nat /\ (beta * 7) \div 10 <= beta
  OBVIOUS
<1> QED BY <1>1, FloorOfBeta DEF Damped, Floor

(* Restoring raises beta, up to its start.                                 *)
LEMMA RestoredBounds ==
  ASSUME beta \in Nat
  PROVE  /\ Restored \in Nat /\ Restored <= BetaStart
         /\ beta <= BetaStart => beta <= Restored
<1>1. (beta * 10) \div 7 \in Nat /\ beta <= (beta * 10) \div 7
  OBVIOUS
<1> QED BY <1>1 DEF Restored, Ceil

(* A residual does not both grow and drop.                                 *)
LEMMA GrewNotDropped ==
  ASSUME NEW norm \in Nat, NEW prev \in Nat, Grew(norm, prev)
  PROVE  ~Dropped(norm, prev)
BY DEF Grew, Dropped

(* The inductive invariant of the monitor: its type and the range of beta. *)
BetaInv == BetaTypeOK /\ BetaStaysInRange

(* beta starts inside its range.                                           *)
LEMMA BetaInvInit == BetaInit => BetaInv
BY StartAboveFloor DEF BetaInit, BetaInv, BetaTypeOK, BetaStaysInRange, restore_window

(* The three outcomes of a ratio keep the streak in its window and beta in *)
(* its range.                                                              *)
LEMMA AdjustKeeps ==
  ASSUME BetaInv, NEW norm, Adjust(norm)
  PROVE  /\ beta' \in Nat /\ restore_streak' \in 0 .. restore_window - 1
         /\ BetaStaysInRange'
<1> USE DEF BetaInv, BetaTypeOK, BetaStaysInRange, restore_window
<1>1. CASE beta' = Damped /\ restore_streak' = 0
  BY <1>1, DampedBounds
<1>2. CASE beta' = Restored /\ restore_streak' = 0
  BY <1>2, RestoredBounds, FloorOfBeta
<1>3. CASE /\ beta' = beta
           /\ restore_streak' = 0 \/ restore_streak' = restore_streak + 1
           /\ restore_streak' < restore_window
  BY <1>3
<1> QED BY <1>1, <1>2, <1>3 DEF Adjust, Streak

(* Every update keeps the invariant.                                       *)
LEMMA BetaInvNext == BetaInv /\ [BetaNext]_betaVars => BetaInv'
<1> SUFFICES ASSUME BetaInv, [BetaNext]_betaVars PROVE BetaInv'
  OBVIOUS
<1>1. CASE UNCHANGED betaVars
  BY <1>1 DEF betaVars, BetaInv, BetaTypeOK, BetaStaysInRange
<1>2. ASSUME NEW norm \in ResidualNorms, Update(norm), enabled PROVE BetaInv'
  <2>1. enabled' = enabled /\ prev_norm' \in Nat \cup {NaN, Infinity, None}
    BY <1>2 DEF ResidualNorms, Update, BetaInv, BetaTypeOK
  <2>2. decreases' \in 0 .. restore_window
    BY <1>2 DEF Update, Count, Ceil, BetaInv, BetaTypeOK, restore_window
  <2>3. CASE Degenerate(norm)
    BY <1>2, <2>1, <2>2, <2>3 DEF Update, BetaInv, BetaTypeOK, BetaStaysInRange
  <2>4. CASE ~Degenerate(norm)
    BY <1>2, <2>1, <2>2, <2>4, AdjustKeeps DEF Update, BetaInv, BetaTypeOK
  <2> QED BY <2>3, <2>4
<1> QED BY <1>1, <1>2 DEF BetaNext, Update

(* A mixer runs its monitor and nothing else touches it.                   *)
LEMMA MixerRunsMonitor == [Next]_vars => [BetaNext]_betaVars
<1>1. \A R \in Residuals : R.norm \in ResidualNorms
  BY DEF Residuals, ResidualNorms
<1> QED BY <1>1 DEF Next, Mix, vars, BetaNext

(* The monitor's invariant in every state of a mixer.                      *)
LEMMA BetaInvariant == Spec => []BetaInv
<1>1. Init => BetaInv
  BY BetaInvInit DEF Init
<1>2. BetaInv /\ [Next]_vars => BetaInv'
  BY BetaInvNext, MixerRunsMonitor
<1> QED BY <1>1, <1>2, PTL DEF Spec

(* Damping and restoring keep beta between its floor and its start.        *)
THEOREM BetaInRange == Spec => []BetaStaysInRange
<1>1. BetaInv => BetaStaysInRange
  BY DEF BetaInv
<1> QED BY <1>1, BetaInvariant, PTL

(* A residual that grew never raises beta above its floor, whatever the    *)
(* configured start.                                                       *)
THEOREM GrowthNeverRaises == Spec => GrowthNeverRaisesBeta
<1> DEFINE Step == (/\ prev_norm \in Nat \ {0}
                    /\ prev_norm' \in Nat
                    /\ Grew(prev_norm', prev_norm)) => beta' <= Floor(beta, beta_min)
<1>1. BetaInv /\ [Next]_vars => [Step]_betaVars
  <2> SUFFICES ASSUME BetaInv, BetaNext PROVE Step
    BY MixerRunsMonitor
  <2> SUFFICES ASSUME prev_norm \in Nat \ {0}, prev_norm' \in Nat,
                      Grew(prev_norm', prev_norm)
               PROVE  beta' <= Floor(beta, beta_min)
    OBVIOUS
  <2>1. PICK norm \in ResidualNorms : Update(norm)
    BY DEF BetaNext
  <2>2. /\ beta \in Nat /\ beta <= Floor(beta, beta_min)
        /\ Damped <= Floor(beta, beta_min)
    BY DampedToFloor, FloorOfBeta DEF BetaInv, BetaTypeOK, Floor
  <2>3. CASE ~enabled
    BY <2>1, <2>2, <2>3 DEF Update, betaVars
  <2>4. CASE enabled
    <3>1. norm = prev_norm' /\ norm \in Nat /\ ~Degenerate(norm)
      BY <2>1, <2>4 DEF Update, Degenerate
    <3>2. Grew(norm, prev_norm) /\ ~Dropped(norm, prev_norm)
      BY <3>1, GrewNotDropped
    <3> QED BY <2>1, <2>2, <2>4, <3>1, <3>2 DEF Update, Adjust
  <2> QED BY <2>3, <2>4
<1> QED BY <1>1, BetaInvariant, PTL DEF Spec, GrowthNeverRaisesBeta
(* The history counts at least what the streak counts.                     *)
StreakInv == BetaInv /\ restore_streak <= decreases

(* No step lets the streak run ahead of the ratios that dropped.           *)
LEMMA StreakInvNext == StreakInv /\ [BetaNext]_betaVars => StreakInv'
<1> SUFFICES ASSUME StreakInv, [BetaNext]_betaVars PROVE StreakInv'
  OBVIOUS
<1>1. BetaInv' /\ BetaInv /\ restore_streak <= decreases
  BY BetaInvNext DEF StreakInv
<1>2. CASE UNCHANGED betaVars
  BY <1>1, <1>2 DEF betaVars, StreakInv
<1>3. ASSUME NEW norm \in ResidualNorms, Update(norm), enabled
      PROVE  restore_streak' <= decreases'
  <2> USE DEF BetaInv, BetaTypeOK, restore_window
  <2>1. CASE Degenerate(norm)
    BY <1>1, <1>3, <2>1 DEF Update, Count
  <2>2. CASE ~Degenerate(norm) /\ Dropped(norm, prev_norm) /\ restore_streak' # 0
    <3>1. restore_streak' = restore_streak + 1 /\ restore_streak' < 3
      BY <1>1, <1>3, <2>2 DEF Update, Adjust, Streak
    <3> QED BY <1>1, <1>3, <2>2, <3>1 DEF Update, Count, Ceil
  <2>3. CASE ~Degenerate(norm) /\ (~Dropped(norm, prev_norm) \/ restore_streak' = 0)
    BY <1>1, <1>3, <2>3 DEF Update, Adjust
  <2> QED BY <2>1, <2>2, <2>3
<1> QED BY <1>1, <1>2, <1>3 DEF BetaNext, Update, StreakInv

(* beta is raised, other than onto its floor, only by the last of          *)
(* restore_window ratios that dropped with no other ratio between them.    *)
THEOREM RestoresAreEarned == Spec => RestoreIsEarned
<1> DEFINE Step == beta' > Floor(beta, beta_min) => decreases' = restore_window
<1>1. Init => StreakInv
  BY BetaInvInit DEF Init, BetaInit, StreakInv
<1>2. StreakInv /\ [Next]_vars => StreakInv'
  BY StreakInvNext, MixerRunsMonitor
<1>3. StreakInv /\ [Next]_vars => [Step]_betaVars
  <2> SUFFICES ASSUME StreakInv, BetaNext, beta' > Floor(beta, beta_min)
               PROVE  decreases' = restore_window
    BY MixerRunsMonitor
  <2>1. PICK norm \in ResidualNorms : Update(norm)
    BY DEF BetaNext
  <2>2. /\ beta \in Nat /\ beta <= Floor(beta, beta_min)
        /\ Damped <= Floor(beta, beta_min)
        /\ decreases \in 0 .. 3 /\ restore_streak <= decreases /\ restore_streak \in Nat
        /\ Floor(beta, beta_min) \in Nat
    BY DampedToFloor, FloorOfBeta DEF StreakInv, BetaInv, BetaTypeOK, Floor, restore_window
  <2>3. enabled /\ ~Degenerate(norm) /\ Adjust(norm) /\ decreases' = Count(norm)
    BY <2>1, <2>2 DEF Update, betaVars
  <2>4. Dropped(norm, prev_norm) /\ restore_streak + 1 >= 3
    <3>1. beta' # Damped /\ beta' # beta
      BY <2>2, DampedBounds
    <3> QED BY <2>3, <3>1 DEF Adjust, restore_window
  <2> QED BY <2>2, <2>3, <2>4 DEF Count, Ceil, restore_window
<1> QED BY <1>1, <1>2, <1>3, PTL DEF Spec, RestoreIsEarned
-----------------------------------------------------------------------------
DiffPair == [from : Nat, to : Nat]

(* A history that holds the last calls of `made` ones.                     *)
RecentCalls(h, made) ==
  /\ h \in Seq(Nat)
  /\ Len(h) = Ceil(made, params.max_history)
  /\ \A i \in 1 .. Len(h) : h[i] = made - Len(h) + i

(* One that holds the last `made` differences of successive calls.         *)
RecentDifferences(h, made) ==
  /\ h \in Seq(DiffPair)
  /\ Len(h) = Ceil(made, params.max_history)
  /\ \A i \in 1 .. Len(h) : /\ h[i].to = made + 1 - Len(h) + i
                            /\ h[i].from = h[i].to - 1

(* Empty histories are recent before the first call.                       *)
LEMMA EmptyIsRecent ==
  ASSUME params.max_history \in Nat
  PROVE  RecentCalls(<<>>, 0) /\ RecentDifferences(<<>>, 0)
<1>1. Ceil(0, params.max_history) = 0
  BY DEF Ceil
<1> QED BY <1>1 DEF RecentCalls, RecentDifferences

(* Appending the next call and trimming keeps a history recent: the run of *)
(* the last Len calls, as long as max_history allows.                      *)
LEMMA TrimAppend ==
  ASSUME params.max_history \in Nat, NEW made \in Nat, NEW h, RecentCalls(h, made)
  PROVE  RecentCalls(Trim(Append(h, made + 1)), made + 1)
<1>0. /\ h \in Seq(Nat) /\ Len(h) = Ceil(made, params.max_history)
      /\ \A i \in 1 .. Len(h) : h[i] = made - Len(h) + i
  BY DEF RecentCalls
<1> DEFINE a == Append(h, made + 1)
           t == Tail(a)
<1>1. /\ a \in Seq(Nat) /\ Len(a) = Len(h) + 1 /\ Len(h) \in Nat
      /\ \A i \in 1 .. Len(h) : a[i] = h[i]
      /\ a[Len(a)] = made + 1
  BY <1>0
<1> HIDE DEF a
<1>2. ASSUME NEW i \in 1 .. Len(a) PROVE a[i] = made + 1 - Len(a) + i
  <2>1. CASE i \in 1 .. Len(h)
    BY <1>0, <1>1, <2>1
  <2>2. CASE i = Len(a)
    BY <1>1, <2>2
  <2> QED BY <1>1, <2>1, <2>2
<1>3. CASE Len(a) > params.max_history
  <2>1. /\ t \in Seq(Nat) /\ Len(t) = Len(a) - 1
        /\ \A i \in 1 .. Len(t) : t[i] = a[i + 1]
    BY <1>1, <1>3
  <2>2. Trim(a) = t
    BY <1>3 DEF Trim
  <2> HIDE DEF t
  <2>3. ASSUME NEW i \in 1 .. Len(t) PROVE t[i] = made + 1 - Len(t) + i
    <3>1. i + 1 \in 1 .. Len(a) /\ t[i] = a[i + 1] /\ i \in Int
      BY <1>1, <2>1
    <3>2. a[i + 1] = made + 1 - Len(a) + (i + 1)
      BY <1>2, <3>1
    <3>3. Len(t) = Len(a) - 1 /\ Len(a) \in Nat
      BY <1>1, <2>1
    <3> QED BY <3>1, <3>2, <3>3
  <2>4. Len(t) = Ceil(made + 1, params.max_history)
    BY <1>0, <1>1, <1>3, <2>1 DEF Ceil
  <2>5. RecentCalls(t, made + 1)
    BY <2>1, <2>3, <2>4 DEF RecentCalls
  <2> QED BY <2>2, <2>5 DEF a
<1>4. CASE ~(Len(a) > params.max_history)
  <2>1. Len(a) = Ceil(made + 1, params.max_history)
    BY <1>0, <1>1, <1>4 DEF Ceil
  <2>2. Trim(a) = a
    BY <1>4 DEF Trim
  <2>3. RecentCalls(a, made + 1)
    BY <1>1, <1>2, <2>1 DEF RecentCalls
  <2> QED BY <2>2, <2>3 DEF a
<1> QED BY <1>3, <1>4

(* The same for Broyden's differences of successive calls.                 *)
LEMMA TrimDifferences ==
  ASSUME params.max_history \in Nat, NEW made \in Nat, NEW h, RecentDifferences(h, made)
  PROVE  RecentDifferences(Trim(Append(h, [from |-> made + 1, to |-> made + 2])), made + 1)
<1>0. /\ h \in Seq(DiffPair) /\ Len(h) = Ceil(made, params.max_history)
      /\ \A i \in 1 .. Len(h) : /\ h[i].to = made + 1 - Len(h) + i
                                /\ h[i].from = h[i].to - 1
  BY DEF RecentDifferences
<1> DEFINE e == [from |-> made + 1, to |-> made + 2]
           a == Append(h, e)
           t == Tail(a)
<1>1. e \in DiffPair /\ e.to = made + 2 /\ e.from = e.to - 1
  BY DEF DiffPair
<1> HIDE DEF e
<1>2. /\ a \in Seq(DiffPair) /\ Len(a) = Len(h) + 1 /\ Len(h) \in Nat
      /\ \A i \in 1 .. Len(h) : a[i] = h[i]
      /\ a[Len(a)] = e
  BY <1>0, <1>1
<1> HIDE DEF a
<1>3. ASSUME NEW i \in 1 .. Len(a)
      PROVE  a[i].to = made + 2 - Len(a) + i /\ a[i].from = a[i].to - 1
  <2>1. CASE i \in 1 .. Len(h)
    BY <1>0, <1>2, <2>1
  <2>2. CASE i = Len(a)
    BY <1>1, <1>2, <2>2
  <2> QED BY <1>2, <2>1, <2>2
<1>4. CASE Len(a) > params.max_history
  <2>1. /\ t \in Seq(DiffPair) /\ Len(t) = Len(a) - 1
        /\ \A i \in 1 .. Len(t) : t[i] = a[i + 1]
    BY <1>2, <1>4
  <2>2. Trim(a) = t
    BY <1>4 DEF Trim
  <2> HIDE DEF t
  <2>3. ASSUME NEW i \in 1 .. Len(t)
        PROVE  t[i].to = made + 2 - Len(t) + i /\ t[i].from = t[i].to - 1
    <3>1. i + 1 \in 1 .. Len(a) /\ t[i] = a[i + 1] /\ i \in Int
      BY <1>2, <2>1
    <3>2. a[i + 1].to = made + 2 - Len(a) + (i + 1) /\ a[i + 1].from = a[i + 1].to - 1
      BY <1>3, <3>1
    <3>3. Len(t) = Len(a) - 1 /\ Len(a) \in Nat
      BY <1>2, <2>1
    <3> QED BY <3>1, <3>2, <3>3
  <2>4. Len(t) = Ceil(made + 1, params.max_history)
    BY <1>0, <1>2, <1>4, <2>1 DEF Ceil
  <2>5. RecentDifferences(t, made + 1)
    BY <2>1, <2>3, <2>4 DEF RecentDifferences
  <2> QED BY <2>2, <2>5 DEF a, e
<1>5. CASE ~(Len(a) > params.max_history)
  <2>1. Len(a) = Ceil(made + 1, params.max_history)
    BY <1>0, <1>2, <1>5 DEF Ceil
  <2>2. Trim(a) = a
    BY <1>5 DEF Trim
  <2>3. RecentDifferences(a, made + 1)
    BY <1>2, <1>3, <2>1 DEF RecentDifferences
  <2> QED BY <2>2, <2>3 DEF a, e
<1> QED BY <1>4, <1>5

(* The inductive invariant of the histories: which call Broyden's prev_*   *)
(* are from is what keeps its differences successive.                      *)
HInv ==
  /\ params.max_history \in Nat /\ iteration \in Nat
  /\ history_in = history_res /\ history_dv = history_df
  /\ prev_rho_in = prev_residual
  /\ IF params.mode = "broyden"
     THEN /\ history_in = <<>>
          /\ prev_rho_in = IF iteration = 0 THEN None ELSE iteration
          /\ RecentDifferences(history_dv, Floor(iteration - 1, 0))
     ELSE /\ history_dv = <<>>
          /\ RecentCalls(history_in, iteration)

(* All histories start empty.                                              *)
LEMMA HInit == Init => HInv
<1> SUFFICES ASSUME Init PROVE HInv
  OBVIOUS
<1>1. params.max_history \in Nat
  BY DEF Init
<1>2. Floor(0 - 1, 0) = 0
  BY DEF Floor
<1> QED BY <1>1, <1>2, EmptyIsRecent DEF Init, HInv

(* Every mix call keeps them recent.                                       *)
LEMMA HNext == HInv /\ [Next]_vars => HInv'
<1> SUFFICES ASSUME HInv, [Next]_vars PROVE HInv'
  OBVIOUS
<1>1. CASE UNCHANGED vars
  BY <1>1 DEF vars, mixerVars, historyVars, HInv, RecentCalls, RecentDifferences
<1>2. CASE Mix /\ AndersonMix
  <2>1. /\ params.mode # "broyden" /\ params' = params /\ iteration' = iteration + 1
        /\ iteration \in Nat /\ params.max_history \in Nat
        /\ RecentCalls(history_in, iteration) /\ history_in = history_res
        /\ history_dv = <<>> /\ history_df = <<>> /\ prev_rho_in = prev_residual
    BY <1>2 DEF Mix, AndersonMix, HInv
  <2>2. /\ history_in' = Trim(Append(history_in, iteration + 1))
        /\ history_res' = history_in'
        /\ UNCHANGED <<history_dv, history_df, prev_rho_in, prev_residual>>
    BY <1>2, <2>1 DEF AndersonMix
  <2>3. RecentCalls(history_in, iteration)'
    <3>1. RecentCalls(history_in', iteration + 1)
      BY <2>1, <2>2, TrimAppend
    <3> QED BY <2>1, <3>1 DEF RecentCalls
  <2> QED BY <2>1, <2>2, <2>3 DEF HInv
<1>3. CASE Mix /\ BroydenMix
  <2>1. /\ params.mode = "broyden" /\ params' = params /\ iteration' = iteration + 1
        /\ iteration \in Nat /\ params.max_history \in Nat
        /\ RecentDifferences(history_dv, Floor(iteration - 1, 0))
        /\ prev_rho_in = IF iteration = 0 THEN None ELSE iteration
        /\ history_in = <<>> /\ history_in' = <<>> /\ history_res' = <<>>
        /\ prev_rho_in' = iteration + 1 /\ prev_residual' = iteration + 1
    BY <1>3 DEF Mix, BroydenMix, HInv
  <2>2. /\ history_dv' = Trim(history_dv \o Difference(prev_rho_in))
        /\ history_df' = history_dv'
    BY <1>3 DEF BroydenMix, HInv
  <2>3. RecentDifferences(history_dv', iteration)
    <3>1. CASE iteration = 0
      <4>1. history_dv \in Seq(DiffPair) /\ Len(history_dv) = 0
        BY <2>1, <3>1 DEF RecentDifferences, Floor, Ceil
      <4>2. Difference(prev_rho_in) = <<>> /\ history_dv \o <<>> = history_dv
        BY <2>1, <3>1, <4>1 DEF Difference
      <4>3. history_dv' = history_dv
        BY <2>1, <2>2, <4>1, <4>2 DEF Trim
      <4> QED BY <2>1, <3>1, <4>1, <4>3 DEF RecentDifferences, Floor
    <3>2. CASE iteration > 0
      <4>1. /\ iteration - 1 \in Nat /\ Floor(iteration - 1, 0) = iteration - 1
            /\ (iteration - 1) + 1 = iteration /\ (iteration - 1) + 2 = iteration + 1
        BY <2>1, <3>2 DEF Floor
      <4>2. Difference(prev_rho_in) = <<[from |-> iteration, to |-> iteration + 1]>>
        BY <2>1, <3>2 DEF Difference
      <4>3. history_dv \in Seq(DiffPair)
        BY <2>1 DEF RecentDifferences
      <4>4. history_dv \o <<[from |-> iteration, to |-> iteration + 1]>>
              = Append(history_dv, [from |-> iteration, to |-> iteration + 1])
        BY <4>3
      <4> QED BY <2>1, <2>2, <4>1, <4>2, <4>4, TrimDifferences
    <3> QED BY <2>1, <3>1, <3>2
  <2>4. Floor(iteration' - 1, 0) = iteration
    BY <2>1 DEF Floor
  <2>5. RecentDifferences(history_dv, Floor(iteration - 1, 0))'
    BY <2>1, <2>3, <2>4 DEF RecentDifferences
  <2> QED BY <2>1, <2>2, <2>5 DEF HInv
<1> QED BY <1>1, <1>2, <1>3 DEF Next, Mix

(* The histories are recent in every reachable state.                      *)
LEMMA HAlways == Spec => []HInv
BY HInit, HNext, PTL DEF Spec

(* Anderson's two histories, and Broyden's, stay aligned and hold exactly  *)
(* the last max_history calls (differences) without a gap.                 *)
THEOREM HistoriesAreRecent == Spec => []HistoryIsRecent
<1>1. HInv => HistoryIsRecent
  <2> SUFFICES ASSUME HInv PROVE HistoryIsRecent
    OBVIOUS
  <2>1. CASE params.mode = "broyden"
    <3>1. /\ RecentDifferences(history_dv, Floor(iteration - 1, 0)) /\ history_in = <<>>
          /\ history_in = history_res /\ history_dv = history_df
          /\ iteration \in Nat /\ params.max_history \in Nat
      BY <2>1 DEF HInv
    <3>2. /\ history_dv \in Seq(DiffPair) /\ DOMAIN history_dv = 1 .. Len(history_dv)
          /\ Len(history_dv) = Ceil(Floor(iteration - 1, 0), params.max_history)
          /\ iteration = 0 => Len(history_dv) = 0
          /\ iteration > 0 => Floor(iteration - 1, 0) = iteration - 1
      BY <3>1 DEF RecentDifferences, Floor, Ceil
    <3>3. ASSUME NEW i \in DOMAIN history_dv
          PROVE  /\ history_dv[i].to = iteration - Len(history_dv) + i
                 /\ history_dv[i].from = history_dv[i].to - 1
      <4>1. Floor(iteration - 1, 0) = iteration - 1 /\ i \in 1 .. Len(history_dv)
        BY <3>1, <3>2
      <4>2. /\ history_dv[i].to
                 = (iteration - 1) + 1 - Len(history_dv) + i
            /\ history_dv[i].from = history_dv[i].to - 1
        BY <3>1, <4>1 DEF RecentDifferences
      <4> QED BY <3>1, <3>2, <4>1, <4>2
    <3> QED BY <2>1, <3>1, <3>2, <3>3 DEF HistoryIsRecent
  <2>2. CASE params.mode # "broyden"
    BY <2>2 DEF HInv, HistoryIsRecent, RecentCalls
  <2> QED BY <2>1, <2>2
<1> QED BY <1>1, HAlways, PTL

(* A mixer fails exactly in the first call of Anderson or Pulay with a     *)
(* history of length 0.                                                    *)
THEOREM PanicsWithoutHistory == Spec => []MixPanicsOnlyWithoutHistory
<1> DEFINE PInv == HInv /\ MixPanicsOnlyWithoutHistory
<1>1. Init => PInv
  <2> SUFFICES ASSUME Init PROVE MixPanicsOnlyWithoutHistory
    BY HInit
  <2> QED BY DEF Init, MixPanicsOnlyWithoutHistory
<1>2. PInv /\ [Next]_vars => PInv'
  <2> SUFFICES ASSUME HInv, MixPanicsOnlyWithoutHistory, [Next]_vars
               PROVE  MixPanicsOnlyWithoutHistory'
    BY HNext
  <2>1. CASE UNCHANGED vars
    BY <2>1 DEF vars, mixerVars, MixPanicsOnlyWithoutHistory
  <2>2. CASE Mix /\ AndersonMix
    <3>1. /\ params.mode # "broyden" /\ params' = params /\ iteration' = iteration + 1
          /\ iteration \in Nat /\ params.max_history \in Nat
          /\ RecentCalls(history_in, iteration)
          /\ panicked' <=> Trim(Append(history_in, iteration + 1)) = <<>>
      BY <2>2 DEF Mix, AndersonMix, HInv
    <3>2. RecentCalls(Trim(Append(history_in, iteration + 1)), iteration + 1)
      BY <3>1, TrimAppend
    <3> DEFINE h == Trim(Append(history_in, iteration + 1))
    <3>3. h \in Seq(Nat) /\ Len(h) = Ceil(iteration + 1, params.max_history)
      BY <3>2 DEF RecentCalls
    <3> HIDE DEF h
    <3>4. h = <<>> <=> params.max_history = 0
      BY <3>1, <3>3 DEF Ceil
    <3> QED BY <3>1, <3>4 DEF h, MixPanicsOnlyWithoutHistory
  <2>3. CASE Mix /\ BroydenMix
    BY <2>3 DEF Mix, BroydenMix, MixPanicsOnlyWithoutHistory
  <2> QED BY <2>1, <2>2, <2>3 DEF Next, Mix
<1>3. PInv => MixPanicsOnlyWithoutHistory
  OBVIOUS
<1> QED BY <1>1, <1>2, <1>3, PTL DEF Spec
-----------------------------------------------------------------------------
(* The value a mixer returns: weights of the right type whose sum is den,  *)
(* the same for the residuals as for the densities (all of them 0 if it is *)
(* not finite).                                                            *)
Affine(m) ==
  /\ m \in [den : Nat, rho : [Calls -> Int], res : [Calls -> Int]]
  /\ SumFunction(m.rho) = m.den
  /\ m.res = m.rho

(* No call outside C carries weight.                                       *)
Within(m, C) == \A j \in Calls : m.rho[j] # 0 => j \in C

(* The mix calls are finitely many.                                        *)
LEMMA CallsFinite == IsFiniteSet(Calls) /\ Calls \subseteq Nat
<1>1. IsFiniteSet(1 .. MaxCalls)
  <2>1. 1 \in Int /\ MaxCalls \in Int
    OBVIOUS
  <2> QED BY <2>1, FS_Interval
<1> QED BY <1>1 DEF Calls

(* What the linear system returns is integers over a denominator, in its  *)
(* singular fallback too; not finite only if an overflowed call took part. *)
LEMMA SolutionsAreIntegers ==
  ASSUME NEW m \in Nat, NEW calls, NEW s \in Solutions(m, calls)
  PROVE  /\ s.den \in Nat /\ s.x \in [1 .. m -> Int]
         /\ s.den = 0 => calls \cap overflowed' # {}
<1>1. CASE s \in [den : {1}, x : [1 .. m -> Coefficients]]
  <2>1. s.den = 1 /\ s.x \in [1 .. m -> Coefficients]
    BY <1>1
  <2>2. s.x \in [1 .. m -> Int]
    BY <2>1
  <2> QED BY <2>1, <2>2
<1>2. CASE s = [den |-> m + 1, x |-> [i \in 1 .. m |-> 1]]
  <2>1. s.den = m + 1 /\ s.x = [i \in 1 .. m |-> 1]
    BY <1>2
  <2> QED BY <2>1
<1>3. CASE s = [den |-> 0, x |-> [i \in 1 .. m |-> 0]] /\ calls \cap overflowed' # {}
  <2>1. s.den = 0 /\ s.x = [i \in 1 .. m |-> 0]
    BY <1>3
  <2> QED BY <1>3, <2>1
<1> QED BY <1>1, <1>2, <1>3 DEF Solutions

(* The weight that the entries of a history naming one call carry.         *)
LEMMA WeightIsInteger ==
  ASSUME NEW h, NEW n \in Nat, DOMAIN h = 1 .. n, NEW x \in [1 .. n -> Int], NEW j
  PROVE  /\ WeightOf(h, x, j) \in Int
         /\ (\A i \in 1 .. n : h[i] # j) => WeightOf(h, x, j) = 0
<1> DEFINE I == {i \in DOMAIN h : h[i] = j}
<1>1. IsFiniteSet(I) /\ I \in SUBSET (1 .. n)
  <2>1. IsFiniteSet(1 .. n)
    <3>1. 1 \in Int /\ n \in Int
      OBVIOUS
    <3> QED BY <3>1, FS_Interval
  <2>2. I \in SUBSET (1 .. n)
    OBVIOUS
  <2> HIDE DEF I
  <2> QED BY <2>1, <2>2, FS_Subset
<1>2. (\A i \in 1 .. n : h[i] # j) => I = {}
  OBVIOUS
<1>3. WeightOf(h, x, j) = SumFunctionOnSet(x, I)
  BY DEF WeightOf
<1> HIDE DEF I
<1>4. IntegersOn(x, I)
  BY <1>1 DEF IntegersOn
<1> QED BY <1>1, <1>2, <1>3, <1>4, SumRemove, SumEmpty

(* The weight of every call.                                               *)
Weights(h, x) == [j \in Calls |-> WeightOf(h, x, j)]

(* The weights of all calls add up to the sum of the coefficients.         *)
LEMMA WeightsAddUp ==
  ASSUME NEW n \in Nat, NEW h \in [1 .. n -> Calls], NEW x \in [1 .. n -> Int]
  PROVE  /\ Weights(h, x) \in [Calls -> Int]
         /\ SumFunctionOnSet(Weights(h, x), Calls) = SumFunctionOnSet(x, 1 .. n)
<1>1. IsFiniteSet(1 .. n)
  <2>1. 1 \in Int /\ n \in Int
    OBVIOUS
  <2> QED BY <2>1, FS_Interval
<1>2. IntegersOn(x, 1 .. n)
  BY DEF IntegersOn
<1>3. DOMAIN h = 1 .. n /\ \A i \in 1 .. n : h[i] \in Calls
  OBVIOUS
<1> DEFINE I == 1 .. n
           w == Weights(h, x)
<1>4. \A j \in Calls : w[j] = WeightOf(h, x, j) /\ w[j] \in Int
  BY <1>3, WeightIsInteger DEF Weights
<1>5. w \in [Calls -> Int]
  BY <1>4 DEF Weights
<1>6. IsFiniteSet(I) /\ IntegersOn(x, I) /\ \A i \in I : h[i] \in Calls
  BY <1>1, <1>2, <1>3
<1>7. \A j \in Calls : w[j] = SumFunctionOnSet(x, Keyed(I, h, j))
  BY <1>3, <1>4 DEF WeightOf, Keyed
<1> HIDE DEF I, w
<1>8. SumsByKey(w, Calls, x, I, h)
  BY <1>6, <1>7 DEF SumsByKey
<1>9. SumFunctionOnSet(x, I) = SumFunctionOnSet(w, Calls)
  BY <1>6, <1>8, CallsFinite, SumByKey
<1> QED BY <1>5, <1>9 DEF I, w

(* The linear step is affine and weights the last call only.               *)
LEMMA LinearIsAffine ==
  ASSUME NEW n \in Nat \ {0}, NEW h \in [1 .. n -> Calls], Len(h) = n
  PROVE  Affine(LinearStep(h, h)) /\ Within(LinearStep(h, h), {h[n]})
<1> DEFINE w == [j \in Calls |-> IF j = h[n] THEN 1 ELSE 0]
           c == h[n]
<1>1. LinearStep(h, h) = [den |-> 1, rho |-> w, res |-> w]
  BY DEF LinearStep
<1>2. c \in Calls /\ w \in [Calls -> Int] /\ w[c] = 1 /\ \A j \in Calls \ {c} : w[j] = 0
  OBVIOUS
<1> HIDE DEF w, c
<1>3. SumFunction(w) = 1
  <2>1. DOMAIN w = Calls /\ IntegersOn(w, Calls) /\ {c} \in SUBSET Calls
    BY <1>2 DEF IntegersOn
  <2>2. SumFunctionOnSet(w, Calls) = SumFunctionOnSet(w, {c})
    BY <1>2, <2>1, CallsFinite, SumOfSupport
  <2>3. SumFunctionOnSet(w, {c}) = 1
    BY <1>2, SumSingleton
  <2> QED BY <2>1, <2>2, <2>3 DEF SumFunction
<1>4. Affine([den |-> 1, rho |-> w, res |-> w])
  BY <1>2, <1>3 DEF Affine
<1>5. Within([den |-> 1, rho |-> w, res |-> w], {c})
  BY <1>2 DEF Within
<1> QED BY <1>1, <1>4, <1>5 DEF c

(* The last coefficient completes the sum to den.                          *)
LEMMA CoefficientsAddUp ==
  ASSUME NEW m \in Nat, NEW s, s.den \in Nat, s.x \in [1 .. m -> Int], s.x \in Seq(Int)
  PROVE  /\ Append(s.x, AlphaLast(s)) \in [1 .. m + 1 -> Int]
         /\ SumFunctionOnSet(Append(s.x, AlphaLast(s)), 1 .. m + 1) = s.den
<1> DEFINE x == s.x
           total == SumFunctionOnSet(x, 1 .. m)
           last == s.den - total
           a == Append(x, last)
<1>1. IsFiniteSet(1 .. m)
  <2>1. 1 \in Int /\ m \in Int
    OBVIOUS
  <2> QED BY <2>1, FS_Interval
<1>2. IntegersOn(x, 1 .. m) /\ DOMAIN x = 1 .. m /\ Len(x) = m
  BY DEF IntegersOn
<1>3. total \in Int
  BY <1>1, <1>2, SumRemove
<1>4. AlphaLast(s) = last
  BY <1>2 DEF AlphaLast, SumFunction
<1> HIDE DEF total
<1>5. last \in Int
  BY <1>3
<1>6. last + total = s.den
  BY <1>3
<1> HIDE DEF last
<1>7. /\ a \in [1 .. m + 1 -> Int] /\ a[m + 1] = last
      /\ \A i \in 1 .. m : a[i] = x[i]
  <2>1. x \in Seq(Int) /\ Len(x) = m
    BY <1>2
  <2> HIDE DEF x
  <2>2. /\ a \in Seq(Int) /\ Len(a) = m + 1 /\ a[m + 1] = last
        /\ \A i \in 1 .. m : a[i] = x[i]
    BY <1>5, <2>1
  <2> HIDE DEF a
  <2>3. a \in [1 .. Len(a) -> Int]
    BY <2>2
  <2> QED BY <2>2, <2>3
<1> HIDE DEF a
<1>8. IntegersOn(a, 1 .. m) /\ m + 1 \notin 1 .. m /\ (1 .. m) \cup {m + 1} = 1 .. m + 1
  BY <1>7 DEF IntegersOn
<1>9. SumFunctionOnSet(a, 1 .. m) = total
  BY <1>1, <1>2, <1>7, SumEqual DEF total
<1>10. SumFunctionOnSet(a, (1 .. m) \cup {m + 1}) = a[m + 1] + SumFunctionOnSet(a, 1 .. m)
  BY <1>1, <1>5, <1>7, <1>8, SumAdd
<1>11. SumFunctionOnSet(a, 1 .. m + 1) = s.den
  BY <1>6, <1>7, <1>8, <1>9, <1>10
<1> QED BY <1>4, <1>7, <1>11 DEF a, x

(* The constrained minimiser is affine over the calls of its history.      *)
LEMMA DiisIsAffine ==
  ASSUME NEW m \in Nat, NEW h \in [1 .. m + 1 -> Calls],
         NEW calls, NEW s \in Solutions(m, calls)
  PROVE  /\ Affine(DiisStep(h, h, s))
         /\ Within(DiisStep(h, h, s), {h[i] : i \in 1 .. m + 1})
<1> DEFINE a == Append(s.x, AlphaLast(s))
           w == [j \in Calls |-> WeightOf(h, a, j)]
           n == m + 1
<1>1. s.den \in Nat /\ s.x \in [1 .. m -> Int]
  BY SolutionsAreIntegers
<1>2. a \in [1 .. n -> Int] /\ SumFunctionOnSet(a, 1 .. n) = s.den
  <2>1. s.x \in Seq(Int)
    BY <1>1
  <2> QED BY <1>1, <2>1, CoefficientsAddUp
<1>3. DiisStep(h, h, s) = [den |-> s.den, rho |-> w, res |-> w]
  BY DEF DiisStep
<1>4. n \in Nat /\ DOMAIN h = 1 .. n /\ h \in [1 .. n -> Calls]
  OBVIOUS
<1> HIDE DEF a, n
<1>5. \A j \in Calls : /\ WeightOf(h, a, j) \in Int
                       /\ (\A i \in 1 .. n : h[i] # j) => WeightOf(h, a, j) = 0
  BY <1>2, <1>4, WeightIsInteger
<1>6. w \in [Calls -> Int] /\ \A j \in Calls : w[j] = WeightOf(h, a, j)
  BY <1>5
<1> HIDE DEF w
<1>7. SumFunction(w) = s.den
  <2>1. DOMAIN w = Calls
    BY <1>6
  <2>2. SumFunctionOnSet(w, Calls) = SumFunctionOnSet(a, 1 .. n)
    BY <1>2, <1>4, WeightsAddUp DEF w, Weights
  <2> QED BY <1>2, <2>1, <2>2 DEF SumFunction
<1>8. Affine([den |-> s.den, rho |-> w, res |-> w])
  BY <1>1, <1>6, <1>7 DEF Affine
<1>9. Within([den |-> s.den, rho |-> w, res |-> w], {h[i] : i \in 1 .. n})
  BY <1>5, <1>6 DEF Within
<1> QED BY <1>3, <1>8, <1>9 DEF n

(* A single weight, summed.                                                *)
LEMMA OneWeight ==
  ASSUME NEW c \in Calls, NEW d \in Int
  PROVE  SumFunctionOnSet([j \in Calls |-> IF j = c THEN d ELSE 0], Calls) = d
<1> DEFINE u == [j \in Calls |-> IF j = c THEN d ELSE 0]
<1>1. u[c] = d /\ (\A j \in Calls \ {c} : u[j] = 0) /\ u \in [Calls -> Int]
  OBVIOUS
<1> HIDE DEF u
<1>2. IntegersOn(u, Calls) /\ {c} \in SUBSET Calls
  BY <1>1 DEF IntegersOn
<1>3. SumFunctionOnSet(u, Calls) = SumFunctionOnSet(u, {c})
  BY <1>1, <1>2, CallsFinite, SumOfSupport
<1>4. SumFunctionOnSet(u, {c}) = d
  BY <1>1, SumSingleton
<1> QED BY <1>3, <1>4 DEF u

(* A density that is not finite has no weights.                            *)
LEMMA NotFiniteIsEmpty ==
  ASSUME NEW c \in Calls
  PROVE  Affine(NotFinite) /\ Within(NotFinite, {})
<1> DEFINE u == [j \in Calls |-> IF j = c THEN 0 ELSE 0]
<1>1. NotFinite = [den |-> 0, rho |-> u, res |-> u] /\ u \in [Calls -> Int]
  BY DEF NotFinite
<1>2. SumFunctionOnSet(u, Calls) = 0 /\ DOMAIN u = Calls
  BY OneWeight
<1>3. \A j \in Calls : u[j] = 0
  OBVIOUS
<1> HIDE DEF u
<1> QED BY <1>1, <1>2, <1>3 DEF Affine, Within, SumFunction

(* Broyden's corrections move weight between calls and add none.           *)
LEMMA BroydenIsAffine ==
  ASSUME NEW n \in Nat, NEW h \in [1 .. n -> Pair], iteration + 1 \in Calls,
         NEW s, s.den \in Nat, s.x \in [1 .. n -> Int],
         NEW C, iteration + 1 \in C,
         \A i \in 1 .. n : h[i].to \in C /\ h[i].from \in C
  PROVE  Affine(BroydenStep(h, h, s)) /\ Within(BroydenStep(h, h, s), C)
<1> DEFINE c == iteration + 1
           d == s.den
           x == s.x
           to == [i \in 1 .. n |-> h[i].to]
           from == [i \in 1 .. n |-> h[i].from]
           u == [j \in Calls |-> IF j = c THEN d ELSE 0]
           p == [j \in Calls |-> WeightOf(to, x, j)]
           q == [j \in Calls |-> WeightOf(from, x, j)]
           w == [j \in Calls |-> u[j] - (p[j] - q[j])]
           m == [den |-> d, rho |-> w, res |-> w]
<1>1. \A i \in 1 .. n : h[i].to \in Calls /\ h[i].from \in Calls
  BY DEF Pair
<1>2. /\ to \in [1 .. n -> Calls] /\ from \in [1 .. n -> Calls]
      /\ DOMAIN to = 1 .. n /\ DOMAIN from = 1 .. n
      /\ \A i \in 1 .. n : to[i] = h[i].to /\ from[i] = h[i].from
      /\ \A i \in 1 .. n : to[i] \in C /\ from[i] \in C
  BY <1>1
<1>3. BroydenStep(h, h, s) = m
  <2>1. ASSUME NEW j \in Calls PROVE CorrectionOf(h, x, j) = p[j] - q[j]
    <3>1. /\ {i \in DOMAIN h : h[i].to = j} = {i \in DOMAIN to : to[i] = j}
          /\ {i \in DOMAIN h : h[i].from = j} = {i \in DOMAIN from : from[i] = j}
      BY <1>2
    <3> HIDE DEF to, from
    <3> QED BY <3>1 DEF CorrectionOf, WeightOf
  <2>2. ASSUME NEW j \in Calls
        PROVE  (IF j = c THEN d ELSE 0) - CorrectionOf(h, x, j) = w[j]
    BY <2>1
  <2> HIDE DEF p, q
  <2>3. BroydenStep(h, h, s)
          = [den |-> d,
             rho |-> [j \in Calls |-> (IF j = c THEN d ELSE 0) - CorrectionOf(h, x, j)],
             res |-> [j \in Calls |-> (IF j = c THEN d ELSE 0) - CorrectionOf(h, x, j)]]
    BY DEF BroydenStep
  <2>4. [j \in Calls |-> (IF j = c THEN d ELSE 0) - CorrectionOf(h, x, j)] = w
    BY <2>2
  <2> QED BY <2>3, <2>4
<1>4. c \in Calls /\ c \in C /\ d \in Nat /\ x \in [1 .. n -> Int]
  OBVIOUS
<1> HIDE DEF to, from, c, d, x
<1>5. ASSUME NEW j \in Calls
      PROVE  /\ WeightOf(to, x, j) \in Int /\ WeightOf(from, x, j) \in Int
             /\ j \notin C => WeightOf(to, x, j) = 0 /\ WeightOf(from, x, j) = 0
  <2>1. /\ WeightOf(to, x, j) \in Int
        /\ (\A i \in 1 .. n : to[i] # j) => WeightOf(to, x, j) = 0
    BY <1>2, <1>4, WeightIsInteger
  <2>2. /\ WeightOf(from, x, j) \in Int
        /\ (\A i \in 1 .. n : from[i] # j) => WeightOf(from, x, j) = 0
    BY <1>2, <1>4, WeightIsInteger
  <2> QED BY <1>2, <2>1, <2>2
<1>6. /\ p \in [Calls -> Int] /\ \A j \in Calls : p[j] = WeightOf(to, x, j)
      /\ q \in [Calls -> Int] /\ \A j \in Calls : q[j] = WeightOf(from, x, j)
  BY <1>5
<1>7. u \in [Calls -> Int] /\ \A j \in Calls \ C : u[j] = 0
  BY <1>4
<1>8. SumFunctionOnSet(u, Calls) = d
  BY <1>4, OneWeight
<1>9. SumFunctionOnSet(p, Calls) = SumFunctionOnSet(x, 1 .. n)
  BY <1>2, <1>4, WeightsAddUp DEF Weights
<1>10. SumFunctionOnSet(q, Calls) = SumFunctionOnSet(x, 1 .. n)
  BY <1>2, <1>4, WeightsAddUp DEF Weights
<1> HIDE DEF u, p, q
<1>11. w \in [Calls -> Int] /\ \A j \in Calls : w[j] = u[j] - (p[j] - q[j])
  BY <1>6, <1>7
<1>12. \A j \in Calls : w[j] # 0 => j \in C
  BY <1>5, <1>6, <1>7, <1>11
<1> HIDE DEF w
<1>13. SumFunctionOnSet(w, Calls) = d
  <2> DEFINE v == [j \in Calls |-> w[j] + p[j]]
  <2>1. /\ v \in [Calls -> Int] /\ \A j \in Calls : v[j] = w[j] + p[j]
        /\ \A j \in Calls : v[j] = u[j] + q[j]
    BY <1>6, <1>7, <1>11
  <2> HIDE DEF v
  <2>2. IntegersOn(u, Calls) /\ IntegersOn(p, Calls) /\ IntegersOn(q, Calls) /\ IntegersOn(w, Calls)
    BY <1>6, <1>7, <1>11 DEF IntegersOn
  <2>3. SumFunctionOnSet(v, Calls) = SumFunctionOnSet(w, Calls) + SumFunctionOnSet(p, Calls)
    BY <2>1, <2>2, CallsFinite, SumOfSums
  <2>4. SumFunctionOnSet(v, Calls) = SumFunctionOnSet(u, Calls) + SumFunctionOnSet(q, Calls)
    BY <2>1, <2>2, CallsFinite, SumOfSums
  <2>5. SumFunctionOnSet(w, Calls) \in Int /\ SumFunctionOnSet(p, Calls) \in Int
    BY <2>2, CallsFinite, SumRemove
  <2> QED BY <1>4, <1>8, <1>9, <1>10, <2>3, <2>4, <2>5
<1>14. DOMAIN w = Calls
  BY <1>11
<1>15. Affine(m)
  BY <1>4, <1>11, <1>13, <1>14 DEF Affine, SumFunction
<1>16. Within(m, C)
  BY <1>12 DEF Within
<1> QED BY <1>3, <1>15, <1>16
-----------------------------------------------------------------------------
(* The calls whose densities may still be mixed after the given call.      *)
Window(made) == made - params.max_history .. made

(* A recent history holds calls of the window.                             *)
LEMMA RecentAreCalls ==
  ASSUME params.max_history \in Nat, NEW made \in 0 .. MaxCalls, NEW h, RecentCalls(h, made)
  PROVE  /\ Len(h) \in Nat /\ h \in [1 .. Len(h) -> Calls]
         /\ \A i \in 1 .. Len(h) : h[i] \in Window(made)
<1>1. /\ h \in Seq(Nat) /\ Len(h) = Ceil(made, params.max_history)
      /\ \A i \in 1 .. Len(h) : h[i] = made - Len(h) + i
  BY DEF RecentCalls
<1>2. Len(h) \in Nat /\ Len(h) <= made /\ Len(h) <= params.max_history /\ made \in Int
  BY <1>1 DEF Ceil
<1>3. \A i \in 1 .. Len(h) : h[i] \in Calls /\ h[i] \in Window(made)
  <2>1. SUFFICES ASSUME NEW i \in 1 .. Len(h)
                 PROVE  h[i] \in Calls /\ h[i] \in Window(made)
    OBVIOUS
  <2>2. h[i] = made - Len(h) + i
    BY <1>1
  <2> QED BY <1>2, <2>2 DEF Calls, Window
<1>4. h \in [1 .. Len(h) -> Nat]
  BY <1>1
<1> QED BY <1>2, <1>3, <1>4

(* So do the two ends of recent differences.                               *)
LEMMA RecentArePairs ==
  ASSUME params.max_history \in Nat, NEW made \in Nat, made + 1 \in 0 .. MaxCalls,
         NEW h, RecentDifferences(h, made)
  PROVE  /\ Len(h) \in Nat /\ h \in [1 .. Len(h) -> Pair]
         /\ \A i \in 1 .. Len(h) : /\ h[i].to \in Window(made + 1)
                                   /\ h[i].from \in Window(made + 1)
<1>1. /\ h \in Seq(DiffPair) /\ Len(h) = Ceil(made, params.max_history)
      /\ \A i \in 1 .. Len(h) : /\ h[i].to = made + 1 - Len(h) + i
                                /\ h[i].from = h[i].to - 1
  BY DEF RecentDifferences
<1>2. Len(h) \in Nat /\ Len(h) <= made /\ Len(h) <= params.max_history
  BY <1>1 DEF Ceil
<1>3. ASSUME NEW i \in 1 .. Len(h)
      PROVE  /\ h[i] \in Pair
             /\ h[i].to \in Window(made + 1) /\ h[i].from \in Window(made + 1)
  <2>1. h[i].to = made + 1 - Len(h) + i /\ h[i].from = h[i].to - 1 /\ h[i] \in DiffPair
    BY <1>1
  <2>2. h[i].to \in Calls /\ h[i].from \in Calls
    BY <1>2, <2>1 DEF Calls
  <2>3. h[i] = [from |-> h[i].from, to |-> h[i].to]
    BY <2>1 DEF DiffPair
  <2>4. h[i] \in Pair
    BY <2>2, <2>3 DEF Pair
  <2> QED BY <1>2, <2>1, <2>4 DEF Window
<1>4. h \in [1 .. Len(h) -> DiffPair]
  BY <1>1
<1> QED BY <1>2, <1>3, <1>4

(* Why a mixed density may not be finite: the latest residual is not, or   *)
(* one whose products overflow is still in the window.                     *)
Explained == ~residual_finite \/ overflowed \cap Window(iteration) # {}

(* The inductive invariant of the mixed density.  That the histories are   *)
(* recent (HInv) gives each call of the mixture its place in the window.   *)
MixInv ==
  /\ BetaInv /\ HInv
  /\ params \in [mode : Modes, max_history : Histories, period : Periods]
  /\ iteration \in 0 .. MaxCalls
  /\ prev_rho_in \in Calls \cup {None}
  /\ overflowed \subseteq Calls /\ residual_finite \in BOOLEAN
  /\ mixed \in [den : Nat, rho : [Calls -> Int], res : [Calls -> Int]]
  /\ panicked \in BOOLEAN
  /\ iteration > 0 /\ ~panicked =>
       /\ Affine(mixed) /\ Within(mixed, Window(iteration))
       /\ mixed.den = 0 => Explained

(* Before the first call nothing is mixed.                                 *)
LEMMA MixInit == Init => MixInv
<1> SUFFICES ASSUME Init PROVE MixInv
  OBVIOUS
<1>1. BetaInv /\ HInv
  BY BetaInvInit, HInit DEF Init
<1>2. Nothing \in [den : Nat, rho : [Calls -> Int], res : [Calls -> Int]]
  BY DEF Nothing
<1>3. iteration \in 0 .. MaxCalls /\ ~(iteration > 0)
  BY DEF Init
<1>4. panicked \in BOOLEAN /\ overflowed \subseteq Calls /\ residual_finite \in BOOLEAN
  BY DEF Init
<1> QED BY <1>1, <1>2, <1>3, <1>4 DEF Init, MixInv

(* A call of Anderson or Pulay that does not panic mixes its history.      *)
LEMMA AndersonMixes ==
  ASSUME MixInv, Mix, AndersonMix, ~panicked'
  PROVE  /\ Affine(mixed') /\ Within(mixed', Window(iteration + 1))
         /\ mixed'.den = 0 =>
              ~residual_finite' \/ overflowed' \cap Window(iteration + 1) # {}
<1>1. /\ iteration \in Nat /\ iteration + 1 \in 0 .. MaxCalls /\ params.max_history \in Nat
      /\ RecentCalls(history_in, iteration) /\ history_in = history_res
  BY DEF MixInv, HInv, Mix, AndersonMix
<1> DEFINE h == Trim(Append(history_in, iteration + 1))
           n == Len(h)
<1>2. RecentCalls(h, iteration + 1)
  BY <1>1, TrimAppend
<1>3. /\ h # <<>>
      /\ mixed' \in IF ~residual_finite' THEN {NotFinite}
                    ELSE IF params.mode = "pulay" /\ ~DoPulay(h)
                    THEN {LinearStep(h, h)} ELSE DiisSteps(h, h)
  BY <1>1 DEF AndersonMix
<1> HIDE DEF h
<1>4. /\ n \in Nat /\ h \in [1 .. n -> Calls] /\ h \in Seq(Nat)
      /\ \A i \in 1 .. n : h[i] \in Window(iteration + 1)
  BY <1>1, <1>2, RecentAreCalls DEF RecentCalls
<1>5. n # 0
  BY <1>3, <1>4
<1>6. CASE mixed' = LinearStep(h, h)
  <2>1. Affine(LinearStep(h, h)) /\ Within(LinearStep(h, h), {h[n]})
    BY <1>4, <1>5, LinearIsAffine
  <2>2. h[n] \in Window(iteration + 1)
    BY <1>4, <1>5
  <2>3. mixed'.den = 1
    BY <1>6 DEF LinearStep
  <2> QED BY <1>6, <2>1, <2>2, <2>3 DEF Within
<1>7. ASSUME n >= 2, NEW s \in Solutions(n - 1, Range(h)), mixed' = DiisStep(h, h, s)
      PROVE  /\ Affine(mixed') /\ Within(mixed', Window(iteration + 1))
             /\ mixed'.den = 0 => overflowed' \cap Window(iteration + 1) # {}
  <2> DEFINE m == n - 1
  <2>1. m \in Nat /\ h \in [1 .. m + 1 -> Calls] /\ s \in Solutions(m, Range(h)) /\ m + 1 = n
    BY <1>4, <1>7
  <2> HIDE DEF m
  <2>2. Affine(DiisStep(h, h, s)) /\ Within(DiisStep(h, h, s), {h[i] : i \in 1 .. m + 1})
    BY <2>1, DiisIsAffine
  <2>3. \A i \in 1 .. m + 1 : h[i] \in Window(iteration + 1)
    BY <1>4, <2>1
  <2>4. mixed'.den = s.den /\ (s.den = 0 => Range(h) \cap overflowed' # {})
    BY <1>7, <2>1, SolutionsAreIntegers DEF DiisStep
  <2>5. \A c \in Range(h) : c \in Window(iteration + 1)
    BY <1>4 DEF Range
  <2> QED BY <1>7, <2>2, <2>3, <2>4, <2>5 DEF Within
<1>8. CASE ~residual_finite'
  <2>1. mixed' = NotFinite /\ iteration + 1 \in Calls
    BY <1>1, <1>3, <1>8 DEF Calls
  <2> QED BY <1>8, <2>1, NotFiniteIsEmpty DEF Within
<1>9. \/ ~residual_finite'
      \/ mixed' = LinearStep(h, h)
      \/ n >= 2 /\ \E s \in Solutions(n - 1, Range(h)) : mixed' = DiisStep(h, h, s)
  BY <1>3, <1>4 DEF DiisSteps
<1> QED BY <1>6, <1>7, <1>8, <1>9

(* A call of Broyden corrects its own density by recent differences.       *)
LEMMA BroydenMixes ==
  ASSUME MixInv, Mix, BroydenMix
  PROVE  /\ Affine(mixed') /\ Within(mixed', Window(iteration + 1))
         /\ mixed'.den = 0 =>
              ~residual_finite' \/ overflowed' \cap Window(iteration + 1) # {}
<1>1. /\ HInv' /\ iteration' = iteration + 1 /\ params' = params
      /\ iteration \in Nat /\ iteration + 1 \in 0 .. MaxCalls /\ params.max_history \in Nat
      /\ params.mode = "broyden"
  BY HNext DEF MixInv, HInv, Mix, BroydenMix, Next
<1> DEFINE h == Trim(history_dv \o Difference(prev_rho_in))
           n == Len(h)
           C == Window(iteration + 1)
<1>2. /\ h = history_dv'
      /\ residual_finite' =>
           \E s \in IF h = <<>> THEN {[den |-> 1, x |-> <<>>]} ELSE Solutions(n, EndsOf(h)) :
             mixed' = BroydenStep(h, h, s)
      /\ ~residual_finite' => mixed' = NotFinite
  BY DEF BroydenMix, MixInv, HInv
<1> HIDE DEF h
<1>3. RecentDifferences(h, iteration)
  <2>1. RecentDifferences(history_dv, Floor(iteration - 1, 0))'
    BY <1>1 DEF HInv
  <2>2. Floor((iteration + 1) - 1, 0) = iteration
    BY <1>1 DEF Floor
  <2> QED BY <1>1, <1>2, <2>1, <2>2 DEF RecentDifferences
<1>4. /\ n \in Nat /\ h \in [1 .. n -> Pair] /\ h \in Seq(DiffPair)
      /\ \A i \in 1 .. n : h[i].to \in C /\ h[i].from \in C
  BY <1>1, <1>3, RecentArePairs DEF RecentDifferences
<1>5. iteration + 1 \in Calls /\ iteration + 1 \in C
  BY <1>1 DEF Calls, Window
<1>6. CASE ~residual_finite'
  BY <1>2, <1>5, <1>6, NotFiniteIsEmpty DEF Within
<1>7. CASE residual_finite'
  <2>1. PICK s \in IF h = <<>> THEN {[den |-> 1, x |-> <<>>]} ELSE Solutions(n, EndsOf(h)) :
          mixed' = BroydenStep(h, h, s)
    BY <1>2, <1>7
  <2>2. /\ s.den \in Nat /\ s.x \in [1 .. n -> Int]
        /\ s.den = 0 => EndsOf(h) \cap overflowed' # {}
    <3>1. CASE h = <<>>
      <4>1. n = 0 /\ s = [den |-> 1, x |-> <<>>]
        BY <2>1, <3>1
      <4> HIDE DEF n
      <4>2. s.den = 1 /\ s.x = <<>> /\ <<>> \in [1 .. 0 -> Int]
        BY <4>1
      <4> QED BY <4>1, <4>2
    <3>2. CASE h # <<>>
      BY <1>4, <2>1, <3>2, SolutionsAreIntegers
    <3> QED BY <3>1, <3>2
  <2>3. \A c \in EndsOf(h) : c \in C
    BY <1>4 DEF EndsOf
  <2>4. mixed'.den = s.den
    BY <2>1 DEF BroydenStep
  <2> HIDE DEF n, C
  <2>5. Affine(BroydenStep(h, h, s)) /\ Within(BroydenStep(h, h, s), C)
    BY <1>4, <1>5, <2>2, BroydenIsAffine
  <2> QED BY <2>1, <2>2, <2>3, <2>4, <2>5 DEF C
<1> QED BY <1>6, <1>7

(* Every call keeps the invariant.                                         *)
LEMMA MixNext == MixInv /\ [Next]_vars => MixInv'
<1> SUFFICES ASSUME MixInv, [Next]_vars PROVE MixInv'
  OBVIOUS
<1>1. BetaInv' /\ HInv'
  BY BetaInvNext, MixerRunsMonitor, HNext DEF MixInv
<1>2. CASE UNCHANGED vars
  BY <1>1, <1>2 DEF vars, mixerVars, historyVars, MixInv, Affine, Within, Window, Explained
<1>3. CASE Mix
  <2>1. /\ iteration' = iteration + 1 /\ iteration' \in 0 .. MaxCalls /\ params' = params
        /\ params \in [mode : Modes, max_history : Histories, period : Periods]
        /\ iteration + 1 \in Calls
        /\ overflowed' \subseteq Calls /\ residual_finite' \in BOOLEAN
    <3>1. /\ iteration' = iteration + 1 /\ iteration' \in 0 .. MaxCalls /\ params' = params
          /\ params \in [mode : Modes, max_history : Histories, period : Periods]
          /\ iteration + 1 \in Calls
      BY <1>3 DEF Mix, MixInv, Calls
    <3>2. residual_finite' \in BOOLEAN
      BY <1>3 DEF Mix, Residuals
    <3>3. overflowed' \subseteq overflowed \cup {iteration + 1}
      BY <1>3 DEF Mix
    <3> QED BY <3>1, <3>2, <3>3 DEF MixInv
  <2>2. CASE AndersonMix /\ ~panicked'
    <3>1. /\ Affine(mixed') /\ Within(mixed', Window(iteration + 1))
          /\ mixed'.den = 0 =>
               ~residual_finite' \/ overflowed' \cap Window(iteration + 1) # {}
      BY <1>3, <2>2, AndersonMixes
    <3>2. panicked' = FALSE /\ prev_rho_in' \in Calls \cup {None}
      BY <2>2 DEF AndersonMix, MixInv
    <3>3. mixed' \in [den : Nat, rho : [Calls -> Int], res : [Calls -> Int]]
      BY <3>1 DEF Affine
    <3>4. Affine(mixed)' /\ Within(mixed, Window(iteration))' /\ (mixed'.den = 0 => Explained')
      BY <2>1, <3>1 DEF Affine, Within, Window, Explained
    <3> QED BY <1>1, <2>1, <3>2, <3>3, <3>4 DEF MixInv
  <2>3. CASE AndersonMix /\ panicked'
    <3>1. mixed' = mixed /\ panicked' = TRUE /\ prev_rho_in' = prev_rho_in
      BY <2>3 DEF AndersonMix
    <3> QED BY <1>1, <2>1, <3>1 DEF MixInv
  <2>4. CASE BroydenMix
    <3>1. /\ Affine(mixed') /\ Within(mixed', Window(iteration + 1))
          /\ mixed'.den = 0 =>
               ~residual_finite' \/ overflowed' \cap Window(iteration + 1) # {}
      BY <1>3, <2>4, BroydenMixes
    <3>2. panicked' = panicked /\ prev_rho_in' = iteration + 1
      BY <2>4 DEF BroydenMix
    <3>3. mixed' \in [den : Nat, rho : [Calls -> Int], res : [Calls -> Int]]
      BY <3>1 DEF Affine
    <3>4. Affine(mixed)' /\ Within(mixed, Window(iteration))' /\ (mixed'.den = 0 => Explained')
      BY <2>1, <3>1 DEF Affine, Within, Window, Explained
    <3> QED BY <1>1, <2>1, <3>2, <3>3, <3>4 DEF MixInv
  <2> QED BY <1>3, <2>2, <2>3, <2>4 DEF Mix
<1> QED BY <1>2, <1>3 DEF Next

(* The mixed density's invariant in every state.                           *)
LEMMA MixAlways == Spec => []MixInv
BY MixInit, MixNext, PTL DEF Spec

(* Every value the mixer keeps has its type: the histories hold calls that *)
(* were made, and the weights are integers over a positive denominator.    *)
THEOREM MixerTypes == Spec => []MixerTypeOK
<1>1. MixInv => MixerTypeOK
  <2> SUFFICES ASSUME MixInv PROVE MixerTypeOK
    OBVIOUS
  <2> USE DEF MixInv, HInv
  <2>1. BetaTypeOK
    BY DEF BetaInv
  <2>2. CASE params.mode = "broyden"
    <3>1. history_dv \in Seq(Pair)
      <4>1. CASE iteration = 0
        <5>1. history_dv \in Seq(DiffPair) /\ Len(history_dv) = 0
          BY <2>2, <4>1 DEF RecentDifferences, Floor, Ceil
        <5> QED BY <5>1
      <4>2. CASE iteration # 0
        <5> DEFINE made == iteration - 1
        <5>1. made \in Nat /\ made + 1 \in 0 .. MaxCalls /\ Floor(iteration - 1, 0) = made
          BY <4>2 DEF Floor
        <5>2. RecentDifferences(history_dv, made)
          BY <2>2, <5>1
        <5> HIDE DEF made
        <5> DEFINE n == Len(history_dv)
        <5>3. n \in Nat /\ history_dv \in [1 .. n -> Pair]
          BY <5>1, <5>2, RecentArePairs
        <5> HIDE DEF n
        <5> QED BY <5>3
      <4> QED BY <4>1, <4>2
    <3>2. history_in \in Seq(Calls)
      BY <2>2
    <3> QED BY <2>1, <3>1, <3>2 DEF MixerTypeOK
  <2>3. CASE params.mode # "broyden"
    <3>1. RecentCalls(history_in, iteration) /\ params.max_history \in Nat
      BY <2>3
    <3>2. Len(history_in) \in Nat /\ history_in \in [1 .. Len(history_in) -> Calls]
      BY <3>1, RecentAreCalls
    <3>3. history_in \in Seq(Calls)
      BY <3>2
    <3>4. history_dv \in Seq(Pair)
      BY <2>3
    <3> QED BY <2>1, <2>3, <3>3, <3>4 DEF MixerTypeOK
  <2> QED BY <2>2, <2>3
<1> QED BY <1>1, MixAlways, PTL

(* Whatever the linear systems solve to, the density a mixer returns is an *)
(* affine combination of densities of the window, each with the residual   *)
(* of its own call, so that the number of electrons is conserved; or it is *)
(* not finite, and then the latest residual is not, or the products of one *)
(* of the window overflowed.                                               *)
THEOREM MixingConservesElectrons == Spec => []MixConservesElectrons
<1>1. MixInv => MixConservesElectrons
  BY DEF MixInv, MixConservesElectrons, Affine, Within, Window, Explained
<1> QED BY <1>1, MixAlways, PTL
=============================================================================
