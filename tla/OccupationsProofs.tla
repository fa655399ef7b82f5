------------------------- MODULE OccupationsProofs -------------------------
(***************************************************************************)
(* Theorems of Occupations, for every set of levels, every scheme, every   *)
(* weights and every number of electrons: the bisection keeps its bracket  *)
(* and ends at the level that carries the electrons, or at an end of it if *)
(* none does, and the density holds the electrons the search counted, or   *)
(* NaN where an eigenvalue is.                                             *)
(***************************************************************************)
EXTENDS Occupations, IntegerFolds

-----------------------------------------------------------------------------
(* The count depends on the parameters and the eigenvalues only.           *)

\* Within one call of find_fermi_energy the count is a fixed function of the
\* level: no step changes what it is compared with or summed over.
LEMMA CountIsOfParams ==
  ASSUME UNCHANGED params, NEW s, NEW x
  PROVE  TooFew(s, x)' <=> TooFew(s, x)
<1>1. /\ nspin' = nspin /\ scheme' = scheme /\ smeared' = smeared
      /\ tot_magnetization' = tot_magnetization /\ n_electrons' = n_electrons
      /\ evs' = evs
  BY DEF params
<1>2. Counted(s)' = Counted(s)
  BY <1>1 DEF Counted, Orbitals, Channels, CallOf, FixedMagnetization
<1>3. Target(s)' = Target(s)
  BY <1>1 DEF Target
<1>4. ASSUME NEW y PROVE SmearedOccupation(y)' = SmearedOccupation(y)
  BY <1>1 DEF SmearedOccupation
<1>5. spin_factor' = spin_factor
  BY <1>1 DEF spin_factor
<1>6. ASSUME NEW o PROVE occupation(evs[o], x)' = occupation(evs[o], x)
  BY <1>1, <1>4, <1>5 DEF occupation
<1>7. [o \in Counted(s) |-> occupation(evs[o], x)]' = [o \in Counted(s) |-> occupation(evs[o], x)]
  BY <1>1, <1>2, <1>6
<1>8. Count(s, x)' = Count(s, x)
  BY <1>7 DEF Count
<1> QED BY <1>3, <1>8 DEF TooFew

-----------------------------------------------------------------------------
(* The invariant.                                                          *)

\* The eigenvalues are the run's, the call that runs is one the run makes, and
\* it has a bracket once it bisects.
SearchInv ==
  /\ evs \in [Orbitals -> Energies \cup {NaN}]
  /\ search \in Calls
  /\ pc \in {"bracket", "bisect", "level", "occupy", "density", "done"}
  /\ e_min \in [Search -> Int] /\ e_max \in [Search -> Int]
  /\ edge \in [Search -> (Int \X Int) \cup {None}]
  /\ pc \in {"bisect", "level"} => edge[search] # None

\* What holds of the bracket of one call; its ends are named so that the count
\* at them is the count at two numbers, before and after a step.
Bracketed(s) ==
  edge[s] # None =>
    \A lo, hi \in Int :
      lo = e_min[s] /\ hi = e_max[s] =>
        /\ edge[s][1] <= lo /\ lo <= hi /\ hi <= edge[s][2]
        /\ lo = edge[s][1] \/ TooFew(s, lo)
        /\ hi = edge[s][2] \/ ~ TooFew(s, hi)

LevelInv == SearchInv /\ \A s \in Search : Bracketed(s)

\* A call is one of the three searches.
LEMMA CallsAreSearches == Calls \subseteq Search
BY DEF Calls, Search, Spin

\* No call has a bracket yet.
LEMMA LevelInvInit == Init => LevelInv
<1> SUFFICES ASSUME Init PROVE LevelInv
  OBVIOUS
<1>1. SearchInv
  BY DEF Init, SearchInv, Calls, FixedMagnetization, Spin
<1>2. ASSUME NEW s \in Search PROVE Bracketed(s)
  BY <1>2 DEF Init, Bracketed
<1> QED BY <1>1, <1>2 DEF LevelInv

\* What only the parameters determine stays.
LEMMA FrameKeeps ==
  ASSUME UNCHANGED params
  PROVE  Orbitals' = Orbitals /\ Calls' = Calls /\ evs' = evs
BY DEF params, Orbitals, Channels, Calls, FixedMagnetization

\* A step that leaves a call's bracket alone leaves what holds of it.
LEMMA BracketedKeeps ==
  ASSUME UNCHANGED params, NEW s, Bracketed(s),
         e_min'[s] = e_min[s], e_max'[s] = e_max[s], edge'[s] = edge[s]
  PROVE  Bracketed(s)'
<1>1. \A x : TooFew(s, x)' <=> TooFew(s, x)
  BY CountIsOfParams
<1> QED BY <1>1 DEF Bracketed

\* The first bracket holds every finite level of the call, and is not empty.
LEMMA FirstBracketOrdered ==
  ASSUME SearchInv, Finite(search) # {}
  PROVE  /\ FirstBracket(search) \in Int \X Int
         /\ FirstBracket(search)[1] <= FirstBracket(search)[2]
<1> DEFINE F == Finite(search)
<1>1. F \in SUBSET Energies
  BY DEF Finite, SearchInv, Counted
<1>2. F \in SUBSET Int /\ IsFiniteSet(F)
  BY <1>1, FS_Subset, OccupationAssumption
<1>3. /\ Min(F) \in Int /\ Max(F) \in Int /\ Min(F) <= Max(F)
  <2>1. Min(F) \in F /\ \A y \in F : Min(F) <= y
    BY <1>2, MinExists
  <2>2. Max(F) \in F
    BY <1>2, MaxExists
  <2> QED BY <1>2, <2>1, <2>2
<1>4. Margin \in Nat
  BY OccupationAssumption
<1> HIDE DEF F
<1>5. /\ Min(F) - Margin \in Int /\ Max(F) + Margin \in Int
      /\ Min(F) - Margin <= Max(F) + Margin
  BY <1>3, <1>4
<1> QED BY <1>5 DEF F, FirstBracket

\* The first bracket is its own edge.
LEMMA BracketKeeps == LevelInv /\ Bracket => LevelInv'
<1> SUFFICES ASSUME LevelInv, Bracket PROVE LevelInv'
  OBVIOUS
<1>0. SearchInv /\ UNCHANGED params /\ search \in Search /\ search' = search
  BY CallsAreSearches DEF LevelInv, Bracket, SearchInv
<1>1. /\ FirstBracket(search) \in Int \X Int
      /\ FirstBracket(search)[1] <= FirstBracket(search)[2]
  BY <1>0, FirstBracketOrdered DEF Bracket
<1>2. SearchInv'
  <2>1. /\ e_min' \in [Search -> Int] /\ e_max' \in [Search -> Int]
        /\ edge' \in [Search -> (Int \X Int) \cup {None}]
    BY <1>0, <1>1 DEF SearchInv, Bracket
  <2>2. pc' = "bisect" /\ edge'[search] = FirstBracket(search)
    BY <1>0 DEF SearchInv, Bracket
  <2>3. FirstBracket(search) # None
    BY <1>1, OccupationAssumption
  <2> QED BY <1>0, <2>1, <2>2, <2>3, FrameKeeps DEF SearchInv
<1>3. ASSUME NEW s \in Search PROVE Bracketed(s)'
  <2>1. CASE s = search
    <3>1. /\ edge'[s] = FirstBracket(search)
          /\ e_min'[s] = FirstBracket(search)[1] /\ e_max'[s] = FirstBracket(search)[2]
      BY <1>0, <2>1 DEF Bracket, SearchInv
    <3> QED BY <1>1, <3>1 DEF Bracketed
  <2>2. CASE s # search
    <3>1. edge'[s] = edge[s] /\ e_min'[s] = e_min[s] /\ e_max'[s] = e_max[s]
      BY <1>0, <2>2 DEF Bracket, SearchInv
    <3> QED BY <1>0, <3>1, BracketedKeeps DEF LevelInv
  <2> QED BY <2>1, <2>2
<1> QED BY <1>2, <1>3 DEF LevelInv

\* The end that moves is on its side of the target, in every scheme.
LEMMA BisectKeeps == LevelInv /\ Bisect => LevelInv'
<1> SUFFICES ASSUME LevelInv, Bisect PROVE LevelInv'
  OBVIOUS
<1> DEFINE mid == (e_min[search] + e_max[search]) \div 2
<1>0. /\ SearchInv /\ UNCHANGED params /\ search \in Search /\ search' = search
      /\ edge' = edge /\ edge[search] # None
  BY CallsAreSearches DEF LevelInv, Bisect, SearchInv
<1>1. e_min[search] \in Int /\ e_max[search] \in Int /\ edge[search] \in Int \X Int
  BY <1>0 DEF SearchInv
<1>2. /\ edge[search][1] <= e_min[search] /\ e_min[search] <= e_max[search]
      /\ e_max[search] <= edge[search][2]
      /\ e_min[search] = edge[search][1] \/ TooFew(search, e_min[search])
      /\ e_max[search] = edge[search][2] \/ ~ TooFew(search, e_max[search])
  BY <1>0, <1>1 DEF LevelInv, Bracketed
<1>3. mid \in Int /\ e_min[search] <= mid /\ mid <= e_max[search]
  BY <1>1, <1>2
<1>4. \/ /\ TooFew(search, mid)
         /\ e_min' = [e_min EXCEPT ![search] = mid] /\ e_max' = e_max
      \/ /\ ~ TooFew(search, mid)
         /\ e_max' = [e_max EXCEPT ![search] = mid] /\ e_min' = e_min
  BY DEF Bisect, RaiseLowerEnd
<1> HIDE DEF mid
<1>5. SearchInv'
  <2>1. e_min' \in [Search -> Int] /\ e_max' \in [Search -> Int]
    BY <1>0, <1>3, <1>4 DEF SearchInv
  <2>2. pc' \in {"bisect", "level"}
    BY DEF Bisect
  <2> QED BY <1>0, <2>1, <2>2, FrameKeeps DEF SearchInv
<1>6. ASSUME NEW s \in Search PROVE Bracketed(s)'
  <2>0. \A x : TooFew(s, x)' <=> TooFew(s, x)
    BY <1>0, CountIsOfParams
  <2>1. CASE s = search
    <3>1. CASE TooFew(search, mid)
      <4>1. e_min'[s] = mid /\ e_max'[s] = e_max[s] /\ edge'[s] = edge[s]
        BY <1>0, <1>4, <2>1, <3>1 DEF SearchInv
      <4>2. TooFew(s, mid) /\ (e_max[s] = edge[s][2] \/ ~ TooFew(s, e_max[s]))
        BY <1>2, <2>1, <3>1
      <4>3. edge[s][1] <= mid /\ mid <= e_max[s] /\ e_max[s] <= edge[s][2]
        BY <1>1, <1>2, <1>3, <2>1
      <4> QED BY <2>0, <4>1, <4>2, <4>3 DEF Bracketed
    <3>2. CASE ~ TooFew(search, mid)
      <4>1. e_max'[s] = mid /\ e_min'[s] = e_min[s] /\ edge'[s] = edge[s]
        BY <1>0, <1>4, <2>1, <3>2 DEF SearchInv
      <4>2. ~ TooFew(s, mid) /\ (e_min[s] = edge[s][1] \/ TooFew(s, e_min[s]))
        BY <1>2, <2>1, <3>2
      <4>3. edge[s][1] <= e_min[s] /\ e_min[s] <= mid /\ mid <= edge[s][2]
        BY <1>1, <1>2, <1>3, <2>1
      <4> QED BY <2>0, <4>1, <4>2, <4>3 DEF Bracketed
    <3> QED BY <3>1, <3>2
  <2>2. CASE s # search
    <3>1. edge'[s] = edge[s] /\ e_min'[s] = e_min[s] /\ e_max'[s] = e_max[s]
      BY <1>0, <1>4, <2>2 DEF SearchInv
    <3> QED BY <1>0, <3>1, BracketedKeeps DEF LevelInv
  <2> QED BY <2>1, <2>2
<1> QED BY <1>5, <1>6 DEF LevelInv

\* The other steps touch no bracket.
LEMMA OthersKeep ==
  ASSUME LevelInv, UNCHANGED <<params, e_min, e_max, edge>>,
         search' \in Calls,
         pc' \in {"bracket", "occupy", "density", "done"} \/ UNCHANGED <<pc, search>>
  PROVE  LevelInv'
<1>1. SearchInv'
  BY FrameKeeps DEF LevelInv, SearchInv
<1>2. ASSUME NEW s \in Search PROVE Bracketed(s)'
  BY BracketedKeeps DEF LevelInv
<1> QED BY <1>1, <1>2 DEF LevelInv

\* Every step keeps it.
LEMMA LevelInvNext == LevelInv /\ [Next]_vars => LevelInv'
<1> SUFFICES ASSUME LevelInv, [Next]_vars PROVE LevelInv'
  OBVIOUS
<1>0. search \in Calls
  BY DEF LevelInv, SearchInv
<1>9. ASSUME Returns PROVE search' \in Calls /\ pc' \in {"bracket", "occupy"}
  BY <1>0, <1>9 DEF Returns, Calls, Spin
<1>1. CASE Bracket
  BY <1>1, BracketKeeps
<1>2. CASE BracketNothing
  BY <1>2, <1>9, OthersKeep DEF BracketNothing
<1>3. CASE Bisect
  BY <1>3, BisectKeeps
<1>4. CASE ReturnLevel
  BY <1>4, <1>9, OthersKeep DEF ReturnLevel
<1>5. CASE Occupy
  BY <1>0, <1>5, OthersKeep DEF Occupy, bisection
<1>6. CASE BuildDensity
  BY <1>0, <1>6, OthersKeep DEF BuildDensity, bisection
<1>7. CASE UNCHANGED vars
  BY <1>0, <1>7, OthersKeep DEF vars, bisection
<1> QED BY <1>1, <1>2, <1>3, <1>4, <1>5, <1>6, <1>7 DEF Next

\* It holds throughout.
LEMMA LevelInvariant == Spec => []LevelInv
<1> QED BY LevelInvInit, LevelInvNext, PTL DEF Spec

\* The bracket of every search keeps its meaning at every step
\* (smearing.rs:64), whatever the occupation function counts.
THEOREM BracketKeepsItsMeaning == Spec => []BracketHolds
<1>1. LevelInv => BracketHolds
  <2> SUFFICES ASSUME LevelInv, NEW s \in Calls, edge[s] # None
               PROVE  /\ edge[s][1] <= e_min[s] /\ e_min[s] <= e_max[s]
                      /\ e_max[s] <= edge[s][2]
                      /\ e_min[s] = edge[s][1] \/ TooFew(s, e_min[s])
                      /\ e_max[s] = edge[s][2] \/ ~ TooFew(s, e_max[s])
    BY DEF BracketHolds
  <2>1. s \in Search /\ e_min[s] \in Int /\ e_max[s] \in Int
    BY CallsAreSearches DEF LevelInv, SearchInv
  <2> QED BY <2>1 DEF LevelInv, Bracketed
<1> QED BY <1>1, LevelInvariant, PTL

-----------------------------------------------------------------------------
(* Types.                                                                  *)

\* One side of a table: its values, then the least, then nothing.
LEMMA SideCases ==
  ASSUME NEW table, NEW n \in Nat, Len(table) = n, NEW reach \in Nat, NEW least \in Int,
         NEW h \in Nat
  PROVE  /\ h < n => h + 1 \in 1 .. n /\ Side(table, reach, least, h) = table[h + 1]
         /\ h >= n => Side(table, reach, least, h) = IF h <= reach THEN least ELSE 0
BY DEF Side

\* A full state.
LEMMA FullIsLarge == Full \in Nat /\ Full > 60000
BY DEF Full

\* A table of occupations read on both sides of the level stays in [0, 1].
LEMMA SymmetricRange ==
  ASSUME NEW table, NEW n \in Nat, Len(table) = n, NEW reach \in Nat,
         \A i \in 1 .. n : table[i] \in 0 .. Full,
         NEW x \in Int
  PROVE  Symmetric(table, reach, 1, x) \in 0 .. Full
<1>1. Full \in Nat /\ 1 \in 0 .. Full /\ 0 \in 0 .. Full
  BY FullIsLarge
<1>2. ASSUME NEW h \in Nat PROVE Side(table, reach, 1, h) \in 0 .. Full
  <2>1. CASE h < n
    BY <2>1, SideCases
  <2>2. CASE h >= n
    <3>1. Side(table, reach, 1, h) \in {0, 1}
      BY <2>2, SideCases
    <3> QED BY <1>1, <3>1
  <2> QED BY <2>1, <2>2
<1>3. CASE x >= 0
  BY <1>2, <1>3 DEF Symmetric
<1>4. CASE ~ (x >= 0)
  <2>1. -x \in Nat /\ Symmetric(table, reach, 1, x) = Full - Side(table, reach, 1, -x)
    BY <1>4 DEF Symmetric
  <2>2. PICK v \in 0 .. Full : v = Side(table, reach, 1, -x)
    BY <1>2, <2>1
  <2> QED BY <1>1, <2>1, <2>2
<1> QED BY <1>3, <1>4

\* The tables of the schemes without a negative tail are of that kind; ten
\* sigma from the level little is left of them.
LEMMA FermiTableInRange ==
  /\ Len(FermiTable) = 25
  /\ \A i \in 1 .. 25 : FermiTable[i] \in 1 .. Full - 1
  /\ \A i \in 21 .. 25 : FermiTable[i] \in 0 .. 5
<1>1. Len(FermiTable) = 25
  BY DEF FermiTable
<1>2. \A i \in 1 .. 25 : FermiTable[i] \in 1 .. Full - 1
  <2>1. \A i \in 1 .. 25 : FermiTable[i] \in Int /\ FermiTable[i] > 0 /\ FermiTable[i] < 60000
    BY DEF FermiTable
  <2> QED BY <2>1, FullIsLarge
<1>3. \A i \in 21 .. 25 : FermiTable[i] \in 0 .. 5
  BY DEF FermiTable
<1> QED BY <1>1, <1>2, <1>3

\* (the range of erfc's table)
LEMMA GaussTableInRange ==
  Len(GaussTable) = 7 /\ \A i \in 1 .. 7 : GaussTable[i] \in 0 .. Full
<1>1. Len(GaussTable) = 7
  BY DEF GaussTable
<1>2. \A i \in 1 .. 7 : GaussTable[i] \in 0 .. Full
  <2>1. \A i \in 1 .. 7 : GaussTable[i] \in Int /\ GaussTable[i] > 0 /\ GaussTable[i] < 60000
    BY DEF GaussTable
  <2> QED BY <2>1, FullIsLarge
<1> QED BY <1>1, <1>2

\* The two schemes with a negative tail are integers, and no more.
LEMMA MethfesselPaxtonInt ==
  ASSUME NEW x \in Int
  PROVE  Symmetric(MethfesselPaxtonTable, GaussReach, -1, x) \in Int
<1>1. Len(MethfesselPaxtonTable) = 7 /\ GaussReach \in Nat /\ Full \in Int
  BY DEF MethfesselPaxtonTable, GaussReach, Full
<1>2. \A i \in 1 .. 7 : MethfesselPaxtonTable[i] \in Int
  BY DEF MethfesselPaxtonTable
<1>3. ASSUME NEW h \in Nat PROVE Side(MethfesselPaxtonTable, GaussReach, -1, h) \in Int
  <2>1. CASE h < 7
    <3>1. h + 1 \in 1 .. 7
      BY <2>1
    <3> QED BY <1>1, <1>2, <2>1, <3>1 DEF Side
  <2>2. CASE h >= 7
    BY <1>1, <2>2 DEF Side
  <2> QED BY <2>1, <2>2
<1>4. CASE x >= 0
  BY <1>3, <1>4 DEF Symmetric
<1>5. CASE ~ (x >= 0)
  <2>1. -x \in Nat
    BY <1>5
  <2>2. Side(MethfesselPaxtonTable, GaussReach, -1, -x) \in Int
    BY <1>3, <2>1
  <2> QED BY <1>1, <1>5, <2>2 DEF Symmetric
<1> QED BY <1>4, <1>5

\* (the same of the cold smearing's)
LEMMA ColdInt ==
  ASSUME NEW x \in Int
  PROVE  ColdOccupation(x) \in Int
<1>1. \A i \in 1 .. 14 : ColdTable[i] \in Int
  BY DEF ColdTable
<1>2. ASSUME ~ (x < -8), ~ (x > 5) PROVE ColdTable[x + 9] \in Int
  <2>1. x + 9 \in 1 .. 14
    BY <1>2
  <2> QED BY <1>1, <2>1
<1>3. Full \in Int
  BY DEF Full
<1> QED BY <1>2, <1>3 DEF ColdOccupation

\* Every scheme gives a number, the two without negative tails one in [0, 1].
LEMMA SmearedRange ==
  ASSUME NEW x \in Int, scheme \in Scheme
  PROVE  /\ SmearedOccupation(x) \in Int
         /\ scheme \in {"FermiDirac", "Gaussian"} => SmearedOccupation(x) \in 0 .. Full
<1>0. Full \in Nat /\ FermiReach \in Nat /\ GaussReach \in Nat
  BY DEF Full, FermiReach, GaussReach
<1>1. CASE scheme = "FermiDirac"
  <2>1. SmearedOccupation(x) = Symmetric(FermiTable, FermiReach, 1, x)
    BY <1>1 DEF SmearedOccupation
  <2>2. Symmetric(FermiTable, FermiReach, 1, x) \in 0 .. Full
    <3>1. \A i \in 1 .. 25 : FermiTable[i] \in 0 .. Full
      BY <1>0, FermiTableInRange
    <3> QED BY <1>0, <3>1, FermiTableInRange, SymmetricRange
  <2> QED BY <1>0, <2>1, <2>2
<1>2. CASE scheme = "Gaussian"
  <2>1. SmearedOccupation(x) = Symmetric(GaussTable, GaussReach, 1, x)
    BY <1>2 DEF SmearedOccupation
  <2>2. Symmetric(GaussTable, GaussReach, 1, x) \in 0 .. Full
    BY <1>0, GaussTableInRange, SymmetricRange
  <2> QED BY <1>0, <2>1, <2>2
<1>3. CASE scheme = "MethfesselPaxton"
  <2>1. SmearedOccupation(x) = Symmetric(MethfesselPaxtonTable, GaussReach, -1, x)
    BY <1>3 DEF SmearedOccupation
  <2> QED BY <1>3, <2>1, MethfesselPaxtonInt
<1>4. CASE scheme = "Cold"
  <2>1. SmearedOccupation(x) = ColdOccupation(x)
    BY <1>4 DEF SmearedOccupation
  <2> QED BY <1>4, <2>1, ColdInt
<1> QED BY <1>1, <1>2, <1>3, <1>4 DEF Scheme

\* So does the step.
LEMMA StepRange ==
  ASSUME NEW x \in Int
  PROVE  /\ StepOccupation(x) \in 0 .. Full
         /\ x > 0 => StepOccupation(x) = 0
         /\ x < 0 => StepOccupation(x) = Full
BY DEF StepOccupation, Full

\* What occupation returns, per scheme.
OccupationRange ==
  IF scheme \in {"FermiDirac", "Gaussian"}
  THEN 0 .. Full * spin_factor \cup {NaN}
  ELSE Int \cup {NaN}

(* An occupation is a number or NaN, under Fermi-Dirac and Gaussian        *)
(* smearing a number between 0 and a full level.                           *)
LEMMA OccupationInRange ==
  ASSUME scheme \in Scheme, NEW e \in Int \cup {NaN}, NEW mu \in Int \cup {NaN}
  PROVE  occupation(e, mu) \in OccupationRange
<1>1. spin_factor \in {1, 2}
  BY DEF spin_factor
<1>2. CASE e = NaN \/ mu = NaN
  <2>1. occupation(e, mu) \in {0, NaN}
    BY <1>2 DEF occupation
  <2>2. 0 \in 0 .. Full * spin_factor
    BY <1>1 DEF Full
  <2> QED BY <2>1, <2>2 DEF OccupationRange
<1>3. CASE ~ (e = NaN \/ mu = NaN)
  <2> DEFINE x == e - mu
             f == IF smeared THEN SmearedOccupation(x) ELSE StepOccupation(x)
             k == Full
  <2>0. k \in Nat
    BY DEF Full
  <2>1. x \in Int
    BY <1>3
  <2>2. StepOccupation(x) \in 0 .. k
    BY <2>1, StepRange
  <2>3. f \in Int /\ (scheme \in {"FermiDirac", "Gaussian"} => f \in 0 .. k)
    <3>1. CASE smeared
      <4>1. f = SmearedOccupation(x)
        BY <3>1
      <4> HIDE DEF f, x
      <4> QED BY <2>1, <4>1, SmearedRange
    <3>2. CASE ~ smeared
      <4>1. f = StepOccupation(x)
        BY <3>2
      <4> HIDE DEF f, x, k
      <4> QED BY <2>0, <2>2, <4>1
    <3> QED BY <3>1, <3>2
  <2>4. occupation(e, mu) = spin_factor * f
    BY <1>3 DEF occupation
  <2> HIDE DEF f, k
  <2>5. spin_factor * f \in Int
        /\ (f \in 0 .. k => spin_factor * f \in 0 .. k * spin_factor)
    BY <1>1, <2>0, <2>3
  <2> QED BY <2>3, <2>4, <2>5 DEF OccupationRange, k
<1> QED BY <1>2, <1>3

\* Types of the rest of the state; once the levels are used, every call has
\* returned one.
Occupying == pc \in {"occupy", "density", "done"}

ValueInv ==
  /\ LevelInv
  /\ scheme \in Scheme
  /\ fermi \in [Search -> Int \cup {NaN, None}]
  /\ search = "down" => fermi["up"] # None
  /\ Occupying => \A s \in Calls : fermi[s] # None
  /\ step \in 0 .. MaxSteps /\ (pc = "bisect" => step < MaxSteps)
  /\ occ # None => \A o \in Orbitals : occ[o] \in OccupationRange

\* It holds at the start.
LEMMA ValueInvInit == Init => ValueInv
<1> SUFFICES ASSUME Init PROVE ValueInv
  OBVIOUS
<1>1. LevelInv
  BY LevelInvInit
<1>2. scheme \in Scheme /\ fermi \in [Search -> Int \cup {NaN, None}]
  BY DEF Init
<1>3. search # "down" /\ ~ Occupying /\ pc # "bisect" /\ pc # "done" /\ occ = None
  BY DEF Init, Occupying
<1>4. step \in 0 .. MaxSteps
  BY OccupationAssumption DEF Init
<1> QED BY <1>1, <1>2, <1>3, <1>4 DEF ValueInv

\* What only the parameters determine.
LEMMA ValuesFramed ==
  ASSUME UNCHANGED params
  PROVE  /\ scheme' = scheme /\ Orbitals' = Orbitals /\ Calls' = Calls
         /\ OccupationRange' = OccupationRange
BY DEF params, Orbitals, Channels, Calls, FixedMagnetization, OccupationRange,
       spin_factor

\* A call that returns leaves every call it follows with a level.
LEMMA ReturnKeeps ==
  ASSUME ValueInv, LevelInv', UNCHANGED <<params, step, occ>>,
         NEW mu \in Int \cup {NaN}, fermi' = [fermi EXCEPT ![search] = mu],
         Returns
  PROVE  ValueInv'
<1>0. search \in Search /\ search \in Calls
  BY CallsAreSearches DEF ValueInv, LevelInv, SearchInv
<1>1. fermi' \in [Search -> Int \cup {NaN, None}] /\ fermi'[search] # None
  BY <1>0, OccupationAssumption DEF ValueInv
<1>2. search' = "down" => fermi'["up"] # None
  BY <1>0, <1>1 DEF Returns, ValueInv, Search, Spin
<1>3. ASSUME Occupying' PROVE \A s \in Calls' : fermi'[s] # None
  <2>1. search # "up"
    BY <1>3 DEF Occupying, Returns
  <2>2. Calls' = Calls
    BY ValuesFramed
  <2>3. CASE search = "both"
    BY <1>0, <1>1, <2>2, <2>3 DEF Calls, Spin
  <2>4. CASE search = "down"
    BY <1>0, <1>1, <2>2, <2>4 DEF Calls, Spin, ValueInv, Search
  <2> QED BY <1>0, <2>1, <2>3, <2>4 DEF Search, Spin
<1>4. pc' # "bisect" /\ pc' # "done"
  BY DEF Returns
<1> QED BY <1>1, <1>2, <1>3, <1>4, ValuesFramed DEF ValueInv

(* A step of the bisection keeps the invariant of the values.              *)
LEMMA BisectsToAStep ==
  ASSUME ValueInv, Bisect, LevelInv'
  PROVE  ValueInv'
<1>1. step' = step + 1 /\ step < MaxSteps /\ step \in 0 .. MaxSteps
  BY DEF Bisect, ValueInv
<1>2. step' \in 0 .. MaxSteps
  BY <1>1, OccupationAssumption
<1>3. pc' = "level" \/ (pc' = "bisect" /\ step' # MaxSteps)
  BY DEF Bisect
<1>4. pc' = "bisect" => step' < MaxSteps
  BY <1>2, <1>3, OccupationAssumption
<1>5. UNCHANGED <<params, search, fermi, occ>>
  BY DEF Bisect
<1>6. ~ Occupying' /\ pc' # "done"
  BY <1>3 DEF Occupying
<1> QED BY <1>2, <1>4, <1>5, <1>6, ValuesFramed DEF ValueInv

\* Every orbital is occupied at the level its channel's call returned.
LEMMA OccupyInRange ==
  ASSUME ValueInv, Occupy
  PROVE  \A o \in Orbitals : occ'[o] \in OccupationRange
<1> SUFFICES ASSUME NEW o \in Orbitals PROVE occ'[o] \in OccupationRange
  OBVIOUS
<1>1. occ'[o] = occupation(evs[o], LevelOf(o[1]))
  BY DEF Occupy
<1>2. o[1] \in Channels
  BY DEF Orbitals
<1>3. CallOf(o[1]) \in Calls /\ CallOf(o[1]) \in Search
  BY <1>2 DEF CallOf, Calls, Channels, Spin, Search, FixedMagnetization
<1>4. LevelOf(o[1]) \in Int \cup {NaN}
  BY <1>3 DEF LevelOf, Occupy, Occupying, ValueInv
<1>5. evs[o] \in Int \cup {NaN}
  BY OccupationAssumption DEF ValueInv, LevelInv, SearchInv
<1>6. scheme \in Scheme
  BY DEF ValueInv
<1> QED BY <1>1, <1>4, <1>5, <1>6, OccupationInRange

\* Every step keeps it.
LEMMA ValueInvNext == ValueInv /\ [Next]_vars => ValueInv'
<1> SUFFICES ASSUME ValueInv, [Next]_vars PROVE ValueInv'
  OBVIOUS
<1>0. LevelInv'
  BY LevelInvNext DEF ValueInv
<1>1. CASE Bracket
  <2>1. /\ UNCHANGED <<params, search, fermi, occ>>
        /\ step' = 0 /\ pc' = "bisect"
    BY <1>1 DEF Bracket
  <2>2. step' \in 0 .. MaxSteps /\ step' < MaxSteps
    BY <2>1, OccupationAssumption
  <2> QED BY <1>0, <2>1, <2>2, ValuesFramed DEF ValueInv, Occupying
<1>2. CASE BracketNothing
  BY <1>0, <1>2, ReturnKeeps DEF BracketNothing
<1>3. CASE Bisect
  BY <1>0, <1>3, BisectsToAStep
<1>4. CASE ReturnLevel
  <2>1. search \in Search /\ e_min[search] \in Int /\ e_max[search] \in Int
    BY CallsAreSearches DEF ValueInv, LevelInv, SearchInv
  <2>2. PICK mu \in e_min[search] .. e_max[search] : fermi' = [fermi EXCEPT ![search] = mu]
    BY <1>4 DEF ReturnLevel
  <2>3. mu \in Int
    BY <2>1, <2>2
  <2> QED BY <1>0, <1>4, <2>2, <2>3, ReturnKeeps DEF ReturnLevel
<1>5. CASE Occupy
  <2>1. UNCHANGED <<params, search, step, fermi>> /\ pc' = "density" /\ pc = "occupy"
    BY <1>5 DEF Occupy, bisection
  <2>2. \A o \in Orbitals : occ'[o] \in OccupationRange
    BY <1>5, OccupyInRange
  <2> QED BY <1>0, <2>1, <2>2, ValuesFramed DEF ValueInv, Occupying
<1>6. CASE BuildDensity
  <2>1. /\ UNCHANGED <<params, search, step, fermi, occ>>
        /\ pc' = "done" /\ pc = "density"
    BY <1>6 DEF BuildDensity, bisection
  <2> QED BY <1>0, <2>1, ValuesFramed DEF ValueInv, Occupying
<1>7. CASE UNCHANGED vars
  <2>1. UNCHANGED <<params, pc, search, step, fermi, occ>>
    BY <1>7 DEF vars, bisection
  <2> QED BY <1>0, <2>1, ValuesFramed DEF ValueInv, Occupying
<1> QED BY <1>1, <1>2, <1>3, <1>4, <1>5, <1>6, <1>7 DEF Next

\* It holds throughout.
LEMMA ValueInvariant == Spec => []ValueInv
<1> QED BY ValueInvInit, ValueInvNext, PTL DEF Spec

\* Type correctness, with the range of the occupations the two monotonic
\* schemes document.
THEOREM OccupationTypeCorrect == Spec => []OccupationTypeOK
<1>1. ValueInv => OccupationTypeOK
  <2> SUFFICES ASSUME ValueInv PROVE OccupationTypeOK
    OBVIOUS
  <2>1. SearchInv
    BY DEF ValueInv, LevelInv
  <2>2. ASSUME occ # None, NEW o \in Orbitals
        PROVE  IF scheme \in {"FermiDirac", "Gaussian"}
               THEN occ[o] \in 0 .. Full * spin_factor \cup {NaN}
               ELSE occ[o] \in Int \cup {NaN}
    <3>1. occ[o] \in OccupationRange
      BY <2>2 DEF ValueInv
    <3> QED BY <3>1 DEF OccupationRange
  <2> QED BY <2>1, <2>2 DEF OccupationTypeOK, ValueInv, SearchInv
<1> QED BY <1>1, ValueInvariant, PTL

-----------------------------------------------------------------------------
(* What the density holds.                                                 *)

\* What the occupations, the level and the density are of each other.
DensityInv ==
  /\ ValueInv
  /\ nspin \in {1, 2}
  /\ \A s \in Calls : fermi[s] = NaN => Finite(s) = {}
  /\ pc \in {"density", "done"} =>
       occ = [o \in Orbitals |-> occupation(evs[o], LevelOf(o[1]))]
  /\ pc = "done" =>
       rho = [c \in Channels |-> [raw |-> Accumulated(c), electrons |-> Rescaled(c)]]

\* The three are determined by the parameters, the levels and each other.
LEMMA DensityFramed ==
  ASSUME UNCHANGED params
  PROVE  /\ Orbitals' = Orbitals /\ Calls' = Calls /\ Channels' = Channels /\ evs' = evs
         /\ \A s : Finite(s)' = Finite(s)
         /\ fermi' = fermi =>
              [o \in Orbitals |-> occupation(evs[o], LevelOf(o[1]))]'
                = [o \in Orbitals |-> occupation(evs[o], LevelOf(o[1]))]
         /\ occ' = occ =>
              [c \in Channels |-> [raw |-> Accumulated(c), electrons |-> Rescaled(c)]]'
                = [c \in Channels |-> [raw |-> Accumulated(c), electrons |-> Rescaled(c)]]
<1>1. /\ nspin' = nspin /\ scheme' = scheme /\ smeared' = smeared /\ evs' = evs
      /\ tot_magnetization' = tot_magnetization /\ n_electrons' = n_electrons
  BY DEF params
<1>2. Orbitals' = Orbitals /\ Calls' = Calls /\ Channels' = Channels
  BY <1>1 DEF Orbitals, Calls, Channels, FixedMagnetization
<1>3. \A s : Finite(s)' = Finite(s)
  BY <1>1, <1>2 DEF Finite, Counted, CallOf, FixedMagnetization
<1>4. ASSUME fermi' = fermi, NEW o
      PROVE  occupation(evs[o], LevelOf(o[1]))' = occupation(evs[o], LevelOf(o[1]))
  <2>1. LevelOf(o[1])' = LevelOf(o[1])
    BY <1>1, <1>4 DEF LevelOf, CallOf, FixedMagnetization
  <2>2. ASSUME NEW y PROVE SmearedOccupation(y)' = SmearedOccupation(y)
    BY <1>1 DEF SmearedOccupation
  <2>3. spin_factor' = spin_factor
    BY <1>1 DEF spin_factor
  <2>4. ASSUME NEW e, NEW mu PROVE occupation(e, mu)' = occupation(e, mu)
    BY <1>1, <2>2, <2>3 DEF occupation
  <2> QED BY <1>1, <2>1, <2>4
<1>5. ASSUME occ' = occ, NEW c
      PROVE  Accumulated(c)' = Accumulated(c) /\ Rescaled(c)' = Rescaled(c)
  <2>1. Accumulated(c)' = Accumulated(c)
    BY <1>5 DEF Accumulated, Sum, Total, OrbitalsOf, Skipped
  <2>2. n_el(c)' = n_el(c)
    BY <1>1, <1>5 DEF n_el, Sum, Total, OrbitalsOf
  <2> QED BY <2>1, <2>2 DEF Rescaled
<1>6. ASSUME fermi' = fermi
      PROVE  [o \in Orbitals |-> occupation(evs[o], LevelOf(o[1]))]'
               = [o \in Orbitals |-> occupation(evs[o], LevelOf(o[1]))]
  BY <1>2, <1>4, <1>6
<1>7. ASSUME occ' = occ
      PROVE  [c \in Channels |-> [raw |-> Accumulated(c), electrons |-> Rescaled(c)]]'
               = [c \in Channels |-> [raw |-> Accumulated(c), electrons |-> Rescaled(c)]]
  BY <1>2, <1>5, <1>7
<1> QED BY <1>1, <1>2, <1>3, <1>6, <1>7

\* It holds at the start.
LEMMA DensityInvInit == Init => DensityInv
<1> SUFFICES ASSUME Init PROVE DensityInv
  OBVIOUS
<1>1. ValueInv
  BY ValueInvInit
<1>2. /\ pc = "bracket" /\ nspin \in {1, 2} /\ \A s \in Search : fermi[s] = None
  BY DEF Init
<1>3. None # NaN
  BY OccupationAssumption
<1> QED BY <1>1, <1>2, <1>3, CallsAreSearches DEF DensityInv

\* Every step keeps it: the occupations and the density are taken from the
\* levels and the occupations of their step.
LEMMA DensityInvNext == DensityInv /\ [Next]_vars => DensityInv'
<1> SUFFICES ASSUME DensityInv, [Next]_vars PROVE DensityInv'
  OBVIOUS
<1>0. ValueInv' /\ UNCHANGED params /\ nspin' \in {1, 2}
  <2>1. ValueInv'
    BY ValueInvNext DEF DensityInv
  <2>2. UNCHANGED params
    BY DEF Next, vars, Bracket, BracketNothing, Bisect, ReturnLevel, Occupy,
           BuildDensity
  <2>3. nspin' = nspin /\ nspin \in {1, 2}
    BY <2>2 DEF params, DensityInv
  <2> QED BY <2>1, <2>2, <2>3
<1>1. \A s \in Calls' : fermi'[s] = NaN => Finite(s)' = {}
  <2>1. \A s \in Calls : fermi[s] = NaN => Finite(s) = {}
    BY DEF DensityInv
  <2>2. search \in Search /\ fermi \in [Search -> Int \cup {NaN, None}]
    BY CallsAreSearches DEF DensityInv, ValueInv, LevelInv, SearchInv
  <2>3. CASE fermi' = fermi
    BY <1>0, <2>1, <2>3, DensityFramed
  <2>4. CASE BracketNothing
    <3>1. Finite(search) = {} /\ fermi' = [fermi EXCEPT ![search] = NaN]
      BY <2>4 DEF BracketNothing
    <3> QED BY <1>0, <2>1, <2>2, <3>1, CallsAreSearches, DensityFramed
  <2>5. CASE ReturnLevel
    <3>1. PICK mu \in e_min[search] .. e_max[search] : fermi' = [fermi EXCEPT ![search] = mu]
      BY <2>5 DEF ReturnLevel
    <3>2. e_min[search] \in Int /\ e_max[search] \in Int
      BY <2>2 DEF DensityInv, ValueInv, LevelInv, SearchInv
    <3>3. mu # NaN
      BY <3>2, FloatAssumption
    <3> QED BY <1>0, <2>1, <2>2, <3>1, <3>3, CallsAreSearches, DensityFramed
  <2>6. fermi' = fermi \/ BracketNothing \/ ReturnLevel
    BY DEF Next, vars, bisection, Bracket, Bisect, Occupy, BuildDensity
  <2> QED BY <2>3, <2>4, <2>5, <2>6
<1>2. pc' \in {"density", "done"} =>
        occ' = [o \in Orbitals |-> occupation(evs[o], LevelOf(o[1]))]'
  <2>1. \/ pc' \notin {"density", "done"}
        \/ Occupy
        \/ /\ pc \in {"density", "done"}
           /\ fermi' = fermi /\ occ' = occ
    BY DEF Next, vars, bisection, Bracket, BracketNothing, Bisect, ReturnLevel, Returns,
           BuildDensity
  <2>2. CASE Occupy
    BY <1>0, <2>2, DensityFramed DEF Occupy, bisection
  <2> QED BY <1>0, <2>1, <2>2, DensityFramed DEF DensityInv
<1>3. pc' = "done" =>
        rho' = [c \in Channels |-> [raw |-> Accumulated(c), electrons |-> Rescaled(c)]]'
  <2>1. \/ pc' # "done"
        \/ BuildDensity
        \/ /\ pc = "done"
           /\ occ' = occ /\ rho' = rho
    BY DEF Next, vars, bisection, Bracket, BracketNothing, Bisect, ReturnLevel, Returns,
           Occupy
  <2>2. CASE BuildDensity
    BY <1>0, <2>2, DensityFramed DEF BuildDensity, bisection
  <2> QED BY <1>0, <2>1, <2>2, DensityFramed DEF DensityInv
<1> QED BY <1>0, <1>1, <1>2, <1>3 DEF DensityInv

\* It holds throughout.
LEMMA DensityInvariant == Spec => []DensityInv
BY DensityInvInit, DensityInvNext, PTL DEF Spec

\* The orbitals are finitely many.
LEMMA OrbitalsFinite == IsFiniteSet(Orbitals)
<1>1. Channels \subseteq {"up", "down"}
  BY DEF Channels, Spin
<1>2. IsFiniteSet({"up"}) /\ {"up"} \cup {"down"} = {"up", "down"}
  BY FS_Singleton
<1>3. IsFiniteSet({"up", "down"})
  BY <1>2, FS_AddElement
<1>4. IsFiniteSet(Channels)
  BY <1>1, <1>3, FS_Subset
<1>5. IsFiniteSet(Channels \X States)
  BY <1>4, OccupationAssumption, FS_Product DEF States
<1> QED BY <1>5 DEF Orbitals

\* What one orbital adds to a weighted sum of occupations.
Term == [o \in Orbitals |-> Weight[o[2][1]] * occ[o]]

\* Without NaN a weighted sum of occupations is one of integers.
LEMMA SumIsOfTerms ==
  ASSUME NEW S \in SUBSET Orbitals, \A o \in S : occ[o] \in Int
  PROVE  /\ IsFiniteSet(S) /\ IntegersOn(Term, S)
         /\ Sum(S) = SumFunctionOnSet(Term, S) /\ Sum(S) \in Int
<1>1. IsFiniteSet(S)
  BY OrbitalsFinite, FS_Subset
<1>2. ASSUME NEW o \in S PROVE Weight[o[2][1]] * occ[o] \in Int /\ Term[o] = Weight[o[2][1]] * occ[o]
  <2>1. o[2][1] \in KPoints
    BY DEF Orbitals, States
  <2>2. Weight[o[2][1]] \in Nat
    BY <2>1, OccupationAssumption
  <2> DEFINE w == Weight[o[2][1]]
             f == occ[o]
  <2>3. w \in Int /\ f \in Int
    BY <2>2
  <2>4. Term[o] = w * f
    BY DEF Term
  <2> HIDE DEF w, f
  <2>5. w * f \in Int
    BY <2>3
  <2> QED BY <2>4, <2>5 DEF w, f
<1>3. IntegersOn(Term, S)
  BY <1>2 DEF IntegersOn
<1> DEFINE f == [o \in S |-> occ[o]]
           t == [o \in S |-> Weight[o[2][1]] * f[o]]
<1>4. DOMAIN f = S /\ \A o \in S : f[o] # NaN /\ f[o] = occ[o]
  BY FloatAssumption
<1>5. Sum(S) = SumFunctionOnSet(t, S)
  BY <1>4 DEF Sum, Total, SumFunction
<1>6. \A o \in S : t[o] = Term[o]
  BY <1>2, <1>4
<1> HIDE DEF t
<1>7. SumFunctionOnSet(Term, S) = SumFunctionOnSet(t, S)
  BY <1>1, <1>3, <1>6, SumEqual
<1>8. SumFunctionOnSet(Term, S) \in Int
  BY <1>1, <1>3, SumRemove
<1> QED BY <1>1, <1>3, <1>5, <1>7, <1>8

\* With a NaN it is NaN.
LEMMA SumOfNaN ==
  ASSUME NEW S, NEW o \in S, occ[o] = NaN
  PROVE  Sum(S) = NaN
<1>1. [p \in S |-> occ[p]][o] = NaN
  OBVIOUS
<1> QED BY <1>1 DEF Sum, Total

\* The orbitals skipped are those that hold nothing, or less.
LEMMA SkippingKeepsElectrons ==
  ASSUME NEW S \in SUBSET Orbitals, \A o \in S : occ[o] \in Int
  PROVE  /\ Sum({o \in S : ~ Skipped(o)}) \in Int /\ Sum(S) \in Int
         /\ Sum(S) <= Sum({o \in S : ~ Skipped(o)})
         /\ (\A o \in S : occ[o] >= 0) => Sum(S) = Sum({o \in S : ~ Skipped(o)})
<1> DEFINE K == {o \in S : ~ Skipped(o)}
           g == [o \in S |-> IF Skipped(o) THEN 0 ELSE Term[o]]
<1>1. K \in SUBSET S /\ K \in SUBSET Orbitals
  OBVIOUS
<1>2. /\ IsFiniteSet(S) /\ IntegersOn(Term, S)
      /\ Sum(S) = SumFunctionOnSet(Term, S) /\ Sum(S) \in Int
  BY SumIsOfTerms
<1>3. \A o \in S \ K : g[o] = 0 /\ occ[o] <= 0
  BY DEF Skipped
<1>4. \A o \in K : g[o] = Term[o]
  OBVIOUS
<1>5. ASSUME NEW o \in S PROVE g[o] \in Int /\ Term[o] <= g[o] /\ (occ[o] >= 0 => Term[o] = g[o])
  <2>1. Term[o] \in Int
    BY <1>2 DEF IntegersOn
  <2>2. CASE ~ Skipped(o)
    BY <2>1, <2>2
  <2>3. CASE Skipped(o)
    <3> DEFINE w == Weight[o[2][1]]
               f == occ[o]
    <3>1. o[2][1] \in KPoints
      BY DEF Orbitals, States
    <3>2. w \in Nat /\ f \in Int /\ f <= 0 /\ Term[o] = w * f
      BY <2>3, <3>1, OccupationAssumption DEF Skipped, Term
    <3> HIDE DEF w, f
    <3>3. w * f <= 0 /\ (f >= 0 => w * f = 0)
      BY <3>2
    <3> QED BY <2>1, <2>3, <3>2, <3>3 DEF f
  <2> QED BY <2>2, <2>3
<1>6. IntegersOn(g, S) /\ IntegersOn(g, K)
  BY <1>5 DEF IntegersOn
<1> HIDE DEF g
<1>7. IsFiniteSet(K) /\ Sum(K) = SumFunctionOnSet(Term, K) /\ Sum(K) \in Int
  <2> HIDE DEF K
  <2> QED BY <1>1, SumIsOfTerms
<1> HIDE DEF K
<1>8. SumFunctionOnSet(g, S) = SumFunctionOnSet(g, K)
  BY <1>1, <1>2, <1>3, <1>6, SumOfSupport
<1>9. SumFunctionOnSet(g, K) = SumFunctionOnSet(Term, K)
  BY <1>4, <1>6, <1>7, SumEqual
<1>10. SumFunctionOnSet(Term, S) <= SumFunctionOnSet(g, S)
  BY <1>2, <1>5, <1>6, SumMonotone
<1>11. (\A o \in S : occ[o] >= 0) => SumFunctionOnSet(Term, S) = SumFunctionOnSet(g, S)
  BY <1>2, <1>5, <1>6, SumEqual
<1> QED BY <1>2, <1>7, <1>8, <1>9, <1>10, <1>11 DEF K

\* An occupation is a number, or NaN if there is smearing and the level or the
\* eigenvalue is.
LEMMA OccupationNaN ==
  ASSUME scheme \in Scheme, NEW e \in Int \cup {NaN}, NEW mu \in Int \cup {NaN}
  PROVE  /\ occupation(e, mu) \in Int \cup {NaN}
         /\ occupation(e, mu) = NaN <=> smeared /\ (e = NaN \/ mu = NaN)
<1>1. spin_factor \in {1, 2} /\ NaN \notin Int
  BY FloatAssumption DEF spin_factor
<1>2. CASE e = NaN \/ mu = NaN
  <2>1. occupation(e, mu) = IF smeared THEN NaN ELSE 0
    BY <1>2 DEF occupation
  <2>2. 0 # NaN
    BY <1>1
  <2> QED BY <1>2, <2>1, <2>2
<1>3. CASE ~ (e = NaN \/ mu = NaN)
  <2> DEFINE x == e - mu
             f == IF smeared THEN SmearedOccupation(x) ELSE StepOccupation(x)
  <2>1. x \in Int
    BY <1>3
  <2>2. f \in Int
    <3>1. StepOccupation(x) \in Int
      BY <2>1 DEF StepOccupation, Full
    <3>2. SmearedOccupation(x) \in Int
      <4> HIDE DEF x
      <4> QED BY <2>1, SmearedRange
    <3> QED BY <3>1, <3>2
  <2>3. occupation(e, mu) = spin_factor * f
    BY <1>3 DEF occupation
  <2> HIDE DEF f
  <2>4. occupation(e, mu) \in Int
    BY <1>1, <2>2, <2>3
  <2> QED BY <1>1, <1>3, <2>4
<1> QED BY <1>2, <1>3

\* Once the levels are used, an orbital's occupation is the one at its call's
\* level, and NaN only if there is smearing and its own eigenvalue is NaN.
LEMMA OccupiedAtLevel ==
  ASSUME DensityInv, pc \in {"density", "done"}, NEW o \in Orbitals
  PROVE  /\ o[1] \in Channels /\ CallOf(o[1]) \in Calls
         /\ occ[o] = occupation(evs[o], fermi[CallOf(o[1])])
         /\ occ[o] \in Int \cup {NaN}
         /\ occ[o] = NaN <=> smeared /\ evs[o] = NaN
<1> DEFINE s == CallOf(o[1])
<1>1. o[1] \in Channels
  BY DEF Orbitals
<1>2. s \in Calls /\ s \in Search
  BY <1>1 DEF CallOf, Calls, Channels, Spin, Search, FixedMagnetization
<1>3. occ[o] = occupation(evs[o], fermi[s])
  BY DEF DensityInv, LevelOf
<1>4. fermi[s] \in Int \cup {NaN}
  BY <1>2 DEF DensityInv, ValueInv, Occupying
<1>5. evs[o] \in Int \cup {NaN} /\ evs \in [Orbitals -> Energies \cup {NaN}]
  BY OccupationAssumption DEF DensityInv, ValueInv, LevelInv, SearchInv
<1>6. fermi[s] = NaN => evs[o] = NaN
  <2>1. o \in Counted(s)
    BY DEF Counted
  <2>2. fermi[s] = NaN => Finite(s) = {}
    BY <1>2 DEF DensityInv
  <2>3. evs[o] # NaN => evs[o] \in Finite(s)
    BY <2>1 DEF Finite
  <2> QED BY <2>2, <2>3
<1>7. scheme \in Scheme
  BY DEF DensityInv, ValueInv
<1> HIDE DEF s
<1>8. /\ occupation(evs[o], fermi[s]) \in Int \cup {NaN}
      /\ occupation(evs[o], fermi[s]) = NaN <=> smeared /\ (evs[o] = NaN \/ fermi[s] = NaN)
  BY <1>4, <1>5, <1>7, OccupationNaN
<1> QED BY <1>1, <1>2, <1>3, <1>6, <1>8 DEF s

\* The two cases of what a density accumulates.
LEMMA AccumulatedNaN ==
  ASSUME DensityInv, pc \in {"density", "done"}, NEW c \in Channels
  PROVE  Accumulated(c) = NaN <=> smeared /\ \E o \in OrbitalsOf(c) : evs[o] = NaN
<1> DEFINE K == {o \in OrbitalsOf(c) : ~ Skipped(o)}
<1>1. OrbitalsOf(c) \in SUBSET Orbitals
  BY DEF OrbitalsOf, Orbitals
<1>2. \A o \in OrbitalsOf(c) : occ[o] \in Int \cup {NaN} /\ (occ[o] = NaN <=> smeared /\ evs[o] = NaN)
  BY <1>1, OccupiedAtLevel
<1>3. ASSUME NEW o \in OrbitalsOf(c), occ[o] = NaN PROVE Accumulated(c) = NaN
  <2>1. o \in K
    BY <1>3 DEF Skipped
  <2> HIDE DEF K
  <2>2. Sum(K) = NaN
    BY <1>3, <2>1, SumOfNaN
  <2> QED BY <2>2 DEF Accumulated, K
<1>4. ASSUME \A o \in OrbitalsOf(c) : occ[o] # NaN PROVE Accumulated(c) # NaN
  <2>1. \A o \in OrbitalsOf(c) : occ[o] \in Int
    BY <1>2, <1>4
  <2>2. Sum(K) \in Int
    BY <1>1, <2>1, SkippingKeepsElectrons
  <2> QED BY <2>2, FloatAssumption DEF Accumulated
<1> QED BY <1>2, <1>3, <1>4

\* For every spectrum and scheme, a NaN eigenvalue reaches its channel's
\* density if there is smearing, and is lost as an empty orbital if not.
THEOREM NaNReachesDensity == Spec => []NaNReachesDensityIfSmeared
<1>1. DensityInv => NaNReachesDensityIfSmeared
  <2> SUFFICES ASSUME DensityInv, pc = "done", NEW c \in Channels
               PROVE  (rho[c].raw = NaN) = (smeared /\ \E o \in OrbitalsOf(c) : evs[o] = NaN)
    BY DEF NaNReachesDensityIfSmeared
  <2>1. rho[c].raw = Accumulated(c)
    BY DEF DensityInv
  <2>2. Accumulated(c) = NaN <=> smeared /\ \E o \in OrbitalsOf(c) : evs[o] = NaN
    BY AccumulatedNaN
  <2> QED BY <2>1, <2>2
<1> QED BY <1>1, DensityInvariant, PTL

\* What is left of a channel's density after the rescaling: its occupations,
\* where none of them is negative, and never less.
LEMMA ChannelElectrons ==
  ASSUME DensityInv, pc = "done", nspin = 2, NEW c \in Channels,
         \A o \in OrbitalsOf(c) : evs[o] # NaN
  PROVE  /\ rho[c].electrons \in Int /\ Sum(OrbitalsOf(c)) \in Int
         /\ Sum(OrbitalsOf(c)) <= rho[c].electrons
         /\ (\A o \in OrbitalsOf(c) : occ[o] >= 0) => Sum(OrbitalsOf(c)) = rho[c].electrons
<1> DEFINE S == OrbitalsOf(c)
           a == Accumulated(c)
           e == rho[c].electrons
<1>1. S \in SUBSET Orbitals
  BY DEF OrbitalsOf, Orbitals
<1>2. \A o \in S : occ[o] \in Int
  BY <1>1, OccupiedAtLevel
<1>3. /\ a \in Int /\ Sum(S) \in Int /\ Sum(S) <= a
      /\ (\A o \in S : occ[o] >= 0) => Sum(S) = a
  <2> HIDE DEF S
  <2>1. /\ Sum({o \in S : ~ Skipped(o)}) \in Int /\ Sum(S) \in Int
        /\ Sum(S) <= Sum({o \in S : ~ Skipped(o)})
        /\ (\A o \in S : occ[o] >= 0) => Sum(S) = Sum({o \in S : ~ Skipped(o)})
    BY <1>1, <1>2, SkippingKeepsElectrons
  <2> QED BY <2>1 DEF S, Accumulated
<1>4. e = IF a = NaN \/ a = 0 THEN a ELSE Sum(S)
  <2>1. e = Rescaled(c) /\ n_el(c) = Sum(S)
    BY DEF DensityInv, n_el
  <2> QED BY <2>1 DEF Rescaled
<1>5. a # NaN
  BY <1>3, FloatAssumption
<1> HIDE DEF a, e, S
<1>6. e \in Int /\ Sum(S) <= e /\ ((\A o \in S : occ[o] >= 0) => Sum(S) = e)
  BY <1>3, <1>4, <1>5
<1> QED BY <1>3, <1>6 DEF e, S

\* The count at the returned level is the sum of the call's occupations.
LEMMA CountIsSum ==
  ASSUME DensityInv, pc = "done", NEW s \in Calls
  PROVE  Count(s, fermi[s]) = Sum(Counted(s))
<1>1. \A o \in Counted(s) : o \in Orbitals /\ CallOf(o[1]) = s
  BY DEF Counted
<1>2. \A o \in Counted(s) : occ[o] = occupation(evs[o], fermi[s])
  BY <1>1, OccupiedAtLevel
<1>3. [o \in Counted(s) |-> occupation(evs[o], fermi[s])] = [o \in Counted(s) |-> occ[o]]
  BY <1>2
<1> QED BY <1>3 DEF Count, Sum

\* The density holds the electrons the Fermi search counted, for every
\* spectrum, scheme, number of electrons and magnetization; only negative
\* occupations, skipped by one and counted by the other, make it hold more.
THEOREM DensityHoldsElectrons == Spec => []DensityHoldsTheCountedElectrons
<1>1. ASSUME DensityInv, pc = "done", NEW s \in Calls, Clean(s)
      PROVE  IF Negative(s) THEN Held(s) >= Count(s, fermi[s])
                            ELSE Held(s) = Count(s, fermi[s])
  <2> DEFINE S == Counted(s)
             n == Sum(S)
             h == Held(s)
  <2>1. Count(s, fermi[s]) = n
    BY <1>1, CountIsSum
  <2>2. S \in SUBSET Orbitals /\ \A o \in S : evs[o] # NaN
    BY <1>1 DEF Counted, Clean
  <2>3. \A o \in S : occ[o] \in Int
    BY <1>1, <2>2, OccupiedAtLevel
  <2>4. Negative(s) <=> ~ \A o \in S : occ[o] >= 0
    BY <2>3, FloatAssumption DEF Negative
  <2>5. h \in Int /\ n \in Int /\ n <= h /\ ((\A o \in S : occ[o] >= 0) => n = h)
    <3>1. CASE nspin = 1
      <4>1. S = OrbitalsOf("up") /\ "up" \in Channels
        BY <3>1 DEF Counted, Orbitals, Channels, OrbitalsOf, CallOf, Calls, FixedMagnetization
      <4>2. h = Sum({o \in S : ~ Skipped(o)})
        <5>1. rho["up"].raw = Accumulated("up")
          BY <1>1, <4>1 DEF DensityInv
        <5>2. h = rho["up"].raw
          BY <3>1 DEF Held
        <5> HIDE DEF S, h
        <5> QED BY <4>1, <5>1, <5>2 DEF Accumulated
      <4> HIDE DEF S, h
      <4>3. /\ Sum({o \in S : ~ Skipped(o)}) \in Int /\ Sum(S) \in Int
            /\ Sum(S) <= Sum({o \in S : ~ Skipped(o)})
            /\ (\A o \in S : occ[o] >= 0) => Sum(S) = Sum({o \in S : ~ Skipped(o)})
        BY <2>2, <2>3, SkippingKeepsElectrons
      <4> QED BY <4>2, <4>3
    <3>2. CASE nspin = 2 /\ FixedMagnetization
      <4>1. s \in Channels /\ S = OrbitalsOf(s) /\ {d \in Channels : CallOf(d) = s} = {s}
        BY <1>1, <3>2 DEF Counted, Orbitals, Channels, OrbitalsOf, CallOf, Calls
      <4> HIDE DEF S
      <4>2. /\ rho[s].electrons \in Int /\ n \in Int /\ n <= rho[s].electrons
            /\ (\A o \in S : occ[o] >= 0) => n = rho[s].electrons
        BY <1>1, <2>2, <3>2, <4>1, ChannelElectrons
      <4>3. h = SumFunctionOnSet([d \in {s} |-> rho[d].electrons], {s})
        <5>1. ~ \E c \in Channels : CallOf(c) = s /\ rho[c].electrons = NaN
          BY <4>1, <4>2, FloatAssumption
        <5> QED BY <3>2, <4>1, <5>1 DEF Held, SumFunction
      <4> DEFINE f == [d \in {s} |-> rho[d].electrons]
      <4>4. f[s] = rho[s].electrons
        OBVIOUS
      <4> HIDE DEF f, h
      <4>5. h = f[s]
        BY <4>2, <4>3, <4>4, SumSingleton DEF f
      <4> QED BY <4>2, <4>4, <4>5
    <3>3. CASE nspin = 2 /\ ~ FixedMagnetization
      <4> DEFINE u == rho["up"].electrons
                 d == rho["down"].electrons
                 U == OrbitalsOf("up")
                 D == OrbitalsOf("down")
      <4>1. /\ "up" \in Channels /\ "down" \in Channels /\ s = "both"
            /\ Channels = {"up", "down"}
            /\ S = U \cup D /\ U \cap D = {}
            /\ {c \in Channels : CallOf(c) = s} = {"up", "down"}
        BY <1>1, <3>3 DEF Counted, Orbitals, Channels, Spin, OrbitalsOf, CallOf, Calls
      <4> HIDE DEF S
      <4>2. /\ u \in Int /\ Sum(U) \in Int /\ Sum(U) <= u
            /\ (\A o \in U : occ[o] >= 0) => Sum(U) = u
        BY <1>1, <2>2, <3>3, <4>1, ChannelElectrons
      <4>3. /\ d \in Int /\ Sum(D) \in Int /\ Sum(D) <= d
            /\ (\A o \in D : occ[o] >= 0) => Sum(D) = d
        BY <1>1, <2>2, <3>3, <4>1, ChannelElectrons
      <4> DEFINE f == [c \in {"up", "down"} |-> rho[c].electrons]
      <4>4. h = SumFunctionOnSet(f, {"up", "down"})
        <5>1. ~ \E c \in Channels : CallOf(c) = s /\ rho[c].electrons = NaN
          BY <4>1, <4>2, <4>3, FloatAssumption
        <5> QED BY <3>3, <4>1, <5>1 DEF Held, SumFunction
      <4>5. f["up"] = u /\ f["down"] = d
        OBVIOUS
      <4> HIDE DEF f, h, u, d, U, D
      <4>6. h = u + d
        <5>1. /\ IsFiniteSet({"up"}) /\ IsFiniteSet({"down"}) /\ {"up"} \cap {"down"} = {}
              /\ {"up"} \cup {"down"} = {"up", "down"}
              /\ IntegersOn(f, {"up"}) /\ IntegersOn(f, {"down"})
          BY <4>2, <4>3, <4>5, FS_Singleton DEF IntegersOn
        <5>2. SumFunctionOnSet(f, {"up"} \cup {"down"})
                = SumFunctionOnSet(f, {"up"}) + SumFunctionOnSet(f, {"down"})
          BY <5>1, SumOfParts
        <5>3. SumFunctionOnSet(f, {"up"}) = u /\ SumFunctionOnSet(f, {"down"}) = d
          BY <4>2, <4>3, <4>5, SumSingleton
        <5> QED BY <4>4, <5>1, <5>2, <5>3
      <4>7. n = Sum(U) + Sum(D)
        <5>1. U \in SUBSET Orbitals /\ D \in SUBSET Orbitals
          BY <2>2, <4>1
        <5>2. /\ IsFiniteSet(U) /\ IntegersOn(Term, U) /\ Sum(U) = SumFunctionOnSet(Term, U)
              /\ IsFiniteSet(D) /\ IntegersOn(Term, D) /\ Sum(D) = SumFunctionOnSet(Term, D)
          BY <2>3, <4>1, <5>1, SumIsOfTerms
        <5>3. n = SumFunctionOnSet(Term, S)
          BY <2>2, <2>3, SumIsOfTerms
        <5>4. SumFunctionOnSet(Term, U \cup D)
                = SumFunctionOnSet(Term, U) + SumFunctionOnSet(Term, D)
          BY <4>1, <5>2, SumOfParts
        <5> QED BY <4>1, <5>2, <5>3, <5>4
      <4> HIDE DEF n
      <4> QED BY <4>1, <4>2, <4>3, <4>6, <4>7
    <3>4. nspin \in {1, 2}
      BY <1>1 DEF DensityInv
    <3> HIDE DEF n, h, S
    <3> QED BY <3>1, <3>2, <3>3, <3>4
  <2> HIDE DEF n, h, S
  <2>6. IF Negative(s) THEN h >= n ELSE h = n
    BY <2>4, <2>5
  <2> QED BY <2>1, <2>6 DEF n, h
<1>2. DensityInv => DensityHoldsTheCountedElectrons
  BY <1>1 DEF DensityHoldsTheCountedElectrons
<1> QED BY <1>2, DensityInvariant, PTL

-----------------------------------------------------------------------------
(* The ends of the first bracket count almost nothing and almost everything. *)

\* Beyond ten sigma a state holds at most five units, or lacks at most five.
LEMMA TailsOfSmearing ==
  ASSUME scheme \in Scheme, NEW x \in Int
  PROVE  /\ x >= 20 => SmearedOccupation(x) \in 0 .. 5
         /\ x <= -20 => Full - SmearedOccupation(x) \in 0 .. 5
<1>0. Full \in Int /\ FermiReach \in Nat /\ GaussReach = 11
  BY DEF Full, FermiReach, GaussReach
<1>1. ASSUME NEW table, NEW n \in Nat, Len(table) = n, n <= 25, NEW least \in {-1, 1},
             NEW reach \in Nat, n > 20 => least = 1 /\ \A i \in 21 .. n : table[i] \in 0 .. 5,
             n <= 20 => reach < 20
      PROVE  /\ x >= 20 => Symmetric(table, reach, least, x) \in 0 .. 5
             /\ x <= -20 => Full - Symmetric(table, reach, least, x) \in 0 .. 5
  <2>1. ASSUME NEW h \in Nat, h >= 20 PROVE Side(table, reach, least, h) \in 0 .. 5
    <3>1. CASE h < n
      <4>1. h + 1 \in 21 .. n /\ Side(table, reach, least, h) = table[h + 1]
        BY <1>1, <2>1, <3>1, SideCases
      <4> QED BY <1>1, <2>1, <3>1, <4>1
    <3>2. CASE h >= n
      <4>1. Side(table, reach, least, h) = IF h <= reach THEN least ELSE 0
        BY <1>1, <2>1, <3>2, SideCases
      <4>2. h <= reach => n > 20
        BY <1>1, <2>1
      <4>3. least = 1 \/ ~ (h <= reach)
        BY <1>1, <4>2
      <4> QED BY <4>1, <4>3
    <3> QED BY <1>1, <2>1, <3>1, <3>2
  <2>2. ASSUME x >= 20 PROVE Symmetric(table, reach, least, x) \in 0 .. 5
    <3>1. x \in Nat /\ Symmetric(table, reach, least, x) = Side(table, reach, least, x)
      BY <2>2 DEF Symmetric
    <3> QED BY <2>1, <2>2, <3>1
  <2>3. ASSUME x <= -20 PROVE Full - Symmetric(table, reach, least, x) \in 0 .. 5
    <3> DEFINE v == Side(table, reach, least, -x)
               k == Full
    <3>1. -x \in Nat /\ -x >= 20 /\ Symmetric(table, reach, least, x) = k - v
      BY <2>3 DEF Symmetric
    <3>2. v \in 0 .. 5 /\ k \in Int
      BY <1>0, <2>1, <3>1
    <3> HIDE DEF v, k
    <3>3. k - (k - v) = v
      BY <3>2
    <3> QED BY <3>1, <3>2, <3>3 DEF k
  <2> QED BY <2>2, <2>3
<1>2. CASE scheme = "FermiDirac"
  <2>1. SmearedOccupation(x) = Symmetric(FermiTable, FermiReach, 1, x)
    BY <1>2 DEF SmearedOccupation
  <2>2. /\ Len(FermiTable) = 25 /\ \A i \in 21 .. 25 : FermiTable[i] \in 0 .. 5
        /\ 25 \in Nat /\ 25 <= 25 /\ 25 > 20 /\ ~ (25 <= 20) /\ 1 \in {-1, 1}
    BY FermiTableInRange
  <2> QED BY <1>0, <1>1, <2>1, <2>2
<1>3. CASE scheme = "Gaussian"
  <2>1. SmearedOccupation(x) = Symmetric(GaussTable, GaussReach, 1, x)
    BY <1>3 DEF SmearedOccupation
  <2>2. Len(GaussTable) = 7 /\ GaussReach \in Nat /\ GaussReach < 20 /\ 1 \in {-1, 1}
        /\ 7 \in Nat /\ 7 <= 25 /\ ~ (7 > 20)
    BY <1>0, GaussTableInRange
  <2> QED BY <1>1, <2>1, <2>2
<1>4. CASE scheme = "MethfesselPaxton"
  <2>1. SmearedOccupation(x) = Symmetric(MethfesselPaxtonTable, GaussReach, -1, x)
    BY <1>4 DEF SmearedOccupation
  <2>2. Len(MethfesselPaxtonTable) = 7 /\ GaussReach \in Nat /\ GaussReach < 20 /\ -1 \in {-1, 1}
        /\ 7 \in Nat /\ 7 <= 25 /\ ~ (7 > 20)
    BY <1>0 DEF MethfesselPaxtonTable
  <2> QED BY <1>1, <2>1, <2>2
<1>5. CASE scheme = "Cold"
  <2>1. SmearedOccupation(x) = ColdOccupation(x)
    BY <1>5 DEF SmearedOccupation
  <2> QED BY <1>0, <2>1 DEF ColdOccupation
<1> QED BY <1>2, <1>3, <1>4, <1>5 DEF Scheme

\* Fermi-Dirac leaves something of a state empty as far as FermiReach.
LEMMA FermiNeverFull ==
  ASSUME scheme = "FermiDirac", NEW x \in Int, x >= - FermiReach
  PROVE  SmearedOccupation(x) < Full
<1>1. SmearedOccupation(x) = Symmetric(FermiTable, FermiReach, 1, x)
  BY DEF SmearedOccupation
<1>2. Full \in Nat /\ Full > 1 /\ FermiReach \in Nat
  BY DEF Full, FermiReach
<1>3. ASSUME NEW h \in Nat
      PROVE  /\ Side(FermiTable, FermiReach, 1, h) \in 0 .. Full - 1
             /\ h <= FermiReach => Side(FermiTable, FermiReach, 1, h) >= 1
  <2>1. CASE h < 25
    <3>1. /\ h + 1 \in 1 .. 25
          /\ Side(FermiTable, FermiReach, 1, h) = FermiTable[h + 1]
      BY <2>1, FermiTableInRange DEF Side
    <3>2. FermiTable[h + 1] \in 1 .. Full - 1
      BY <3>1, FermiTableInRange
    <3> QED BY <1>2, <3>1, <3>2
  <2>2. CASE h >= 25
    <3>1. Side(FermiTable, FermiReach, 1, h) = IF h <= FermiReach THEN 1 ELSE 0
      BY <2>2, FermiTableInRange DEF Side
    <3> QED BY <1>2, <3>1
  <2> QED BY <2>1, <2>2
<1>4. CASE x >= 0
  <2>1. x \in Nat /\ SmearedOccupation(x) = Side(FermiTable, FermiReach, 1, x)
    BY <1>1, <1>4 DEF Symmetric
  <2> QED BY <1>2, <1>3, <2>1
<1>5. CASE ~ (x >= 0)
  <2> DEFINE v == Side(FermiTable, FermiReach, 1, -x)
  <2>1. -x \in Nat /\ -x <= FermiReach /\ SmearedOccupation(x) = Full - v
    BY <1>1, <1>2, <1>5 DEF Symmetric
  <2>2. v \in 0 .. Full - 1 /\ v >= 1
    BY <1>3, <2>1
  <2> HIDE DEF v
  <2> QED BY <1>2, <2>1, <2>2
<1> QED BY <1>4, <1>5

\* At the margin of the bracket, with smearing or without.
LEMMA TailsOfOccupation ==
  ASSUME scheme \in Scheme, NEW e \in Int, NEW mu \in Int
  PROVE  /\ e - mu >= Margin => occupation(e, mu) <= 5 * spin_factor
         /\ e - mu <= - Margin => occupation(e, mu) >= Full * spin_factor - 5 * spin_factor
<1> DEFINE x == e - mu
           f == IF smeared THEN SmearedOccupation(x) ELSE StepOccupation(x)
           k == Full
           p == spin_factor
<1>1. p \in {1, 2} /\ Margin \in Nat /\ Margin >= 20 /\ x \in Int /\ k \in Nat
  BY OccupationAssumption, BisectionAssumption DEF spin_factor, Full
<1>2. occupation(e, mu) = p * f
  BY FloatAssumption DEF occupation
<1> HIDE DEF x
<1>3. x >= Margin => f \in 0 .. 5
  <2>1. x >= Margin => SmearedOccupation(x) \in 0 .. 5 /\ StepOccupation(x) = 0
    BY <1>1, StepRange, TailsOfSmearing
  <2> QED BY <2>1
<1>4. x <= - Margin => k - f \in 0 .. 5
  <2>1. x <= - Margin => k - SmearedOccupation(x) \in 0 .. 5 /\ StepOccupation(x) = k
    BY <1>1, StepRange, TailsOfSmearing
  <2>2. ASSUME x <= - Margin PROVE k - StepOccupation(x) \in 0 .. 5
    <3> HIDE DEF k
    <3> QED BY <1>1, <2>1, <2>2
  <2> QED BY <2>1, <2>2
<1>5. f \in Int
  <2>1. SmearedOccupation(x) \in Int
    BY <1>1, SmearedRange
  <2>2. StepOccupation(x) \in Int
    BY <1>1 DEF StepOccupation, Full
  <2> QED BY <2>1, <2>2
<1> HIDE DEF f, k, p
<1>6. x >= Margin => p * f <= 5 * p
  BY <1>1, <1>3, <1>5
<1>7. x <= - Margin => p * f >= k * p - 5 * p
  BY <1>1, <1>4, <1>5
<1> QED BY <1>2, <1>6, <1>7 DEF x, k, p

\* What the orbitals of a sum weigh.
Weighted(f) == [o \in DOMAIN f |-> Weight[o[2][1]] * f[o]]

\* A sum without NaN is one of integers.
LEMMA TotalIsSum ==
  ASSUME NEW S \in SUBSET Orbitals, NEW f \in [S -> Int]
  PROVE  /\ IsFiniteSet(S) /\ IntegersOn(Weighted(f), S)
         /\ Total(f) = SumFunctionOnSet(Weighted(f), S) /\ Total(f) \in Int
         /\ \A o \in S : /\ Weighted(f)[o] = Weight[o[2][1]] * f[o]
                         /\ Weight[o[2][1]] \in Nat \ {0}
<1>1. IsFiniteSet(S)
  BY OrbitalsFinite, FS_Subset
<1>2. \A o \in S : Weight[o[2][1]] \in Nat \ {0}
  BY OccupationAssumption DEF Orbitals, States
<1>3. \A o \in S : Weighted(f)[o] = Weight[o[2][1]] * f[o]
  BY DEF Weighted
<1>4. IntegersOn(Weighted(f), S)
  <2>1. ASSUME NEW o \in S PROVE Weighted(f)[o] \in Int
    <3> DEFINE w == Weight[o[2][1]]
               v == f[o]
    <3>1. w \in Int /\ v \in Int /\ Weighted(f)[o] = w * v
      BY <1>2, <1>3
    <3> HIDE DEF w, v
    <3>2. w * v \in Int
      BY <3>1
    <3> QED BY <3>1, <3>2
  <2> QED BY <2>1 DEF IntegersOn
<1>5. Total(f) = SumFunctionOnSet(Weighted(f), S)
  <2>1. DOMAIN f = S /\ ~ \E o \in DOMAIN f : f[o] = NaN
    BY FloatAssumption
  <2>2. DOMAIN Weighted(f) = S
    BY <2>1 DEF Weighted
  <2> QED BY <2>1, <2>2 DEF Total, SumFunction, Weighted
<1>6. SumFunctionOnSet(Weighted(f), S) \in Int
  BY <1>1, <1>4, SumRemove
<1> QED BY <1>1, <1>2, <1>3, <1>4, <1>5, <1>6

\* It grows with what it adds, and strictly if an orbital does.
LEMMA TotalGrows ==
  ASSUME NEW S \in SUBSET Orbitals, NEW f \in [S -> Int], NEW g \in [S -> Int],
         \A o \in S : f[o] <= g[o]
  PROVE  /\ Total(f) <= Total(g)
         /\ (\E o \in S : f[o] < g[o]) => Total(f) < Total(g)
<1> DEFINE F == Weighted(f)
           G == Weighted(g)
<1>1. ASSUME NEW o \in S PROVE F[o] <= G[o] /\ (f[o] < g[o] => F[o] < G[o])
  <2> DEFINE w == Weight[o[2][1]]
             a == f[o]
             b == g[o]
  <2>1. w \in Nat \ {0} /\ a \in Int /\ b \in Int /\ a <= b /\ F[o] = w * a /\ G[o] = w * b
    BY TotalIsSum
  <2> HIDE DEF w, a, b, F, G
  <2>2. w * a <= w * b /\ (a < b => w * a < w * b)
    BY <2>1
  <2> QED BY <2>1, <2>2 DEF a, b
<1>2. /\ IsFiniteSet(S) /\ IntegersOn(F, S) /\ IntegersOn(G, S)
      /\ Total(f) = SumFunctionOnSet(F, S) /\ Total(g) = SumFunctionOnSet(G, S)
  BY TotalIsSum
<1> HIDE DEF F, G
<1>3. Total(f) <= Total(g)
  BY <1>1, <1>2, SumMonotone
<1>4. ASSUME NEW o \in S, f[o] < g[o] PROVE Total(f) < Total(g)
  <2> DEFINE T == S \ {o}
             a == SumFunctionOnSet(F, T)
             b == SumFunctionOnSet(G, T)
  <2>1. IsFiniteSet(T) /\ IntegersOn(F, T) /\ IntegersOn(G, T) /\ \A q \in T : F[q] <= G[q]
    BY <1>1, <1>2, FS_Subset DEF IntegersOn
  <2>2. a \in Int /\ b \in Int /\ a <= b
    <3> HIDE DEF T
    <3> QED BY <2>1, SumMonotone, SumRemove
  <2>3. Total(f) = F[o] + a /\ Total(g) = G[o] + b
    BY <1>2, SumRemove
  <2>4. F[o] < G[o] /\ F[o] \in Int /\ G[o] \in Int
    BY <1>1, <1>2, <1>4 DEF IntegersOn
  <2> HIDE DEF a, b
  <2> QED BY <2>2, <2>3, <2>4
<1> QED BY <1>3, <1>4

\* Every state of a call holding the same.
Uniform(s, k) == [o \in Counted(s) |-> k]

\* What a call's states hold, and their tails, are integers; the difference is
\* what they hold without them.
LEMMA CapacityIsInt ==
  ASSUME NEW s
  PROVE  /\ Counted(s) \in SUBSET Orbitals
         /\ Full * spin_factor \in Nat /\ 5 * spin_factor \in Nat
         /\ Capacity(s) \in Int /\ Capacity(s) = Total(Uniform(s, Full * spin_factor))
         /\ Tails(s) \in Int /\ Tails(s) = Total(Uniform(s, 5 * spin_factor))
         /\ Capacity(s) - Tails(s)
              = Total(Uniform(s, Full * spin_factor - 5 * spin_factor))
<1> DEFINE S == Counted(s)
           c == Full * spin_factor
           t == 5 * spin_factor
           F == Uniform(s, c)
           G == Uniform(s, t)
           H == Uniform(s, c - t)
<1>1. S \in SUBSET Orbitals
  BY DEF Counted
<1>2. c \in Nat /\ t \in Nat /\ c - t \in Int
  BY DEF spin_factor, Full
<1>3. Capacity(s) = Total(F) /\ Tails(s) = Total(G)
  BY DEF Capacity, Tails, Uniform
<1> HIDE DEF S, c, t
<1>4. F \in [S -> Int] /\ G \in [S -> Int] /\ H \in [S -> Int]
      /\ \A o \in S : F[o] = c /\ G[o] = t /\ H[o] = c - t
  BY <1>2 DEF Uniform, S
<1> HIDE DEF F, G, H
<1>5. /\ IsFiniteSet(S) /\ IntegersOn(Weighted(G), S) /\ IntegersOn(Weighted(H), S)
      /\ Total(F) = SumFunctionOnSet(Weighted(F), S) /\ Total(F) \in Int
      /\ Total(G) = SumFunctionOnSet(Weighted(G), S) /\ Total(G) \in Int
      /\ Total(H) = SumFunctionOnSet(Weighted(H), S) /\ Total(H) \in Int
  BY <1>1, <1>4, TotalIsSum
<1>6. \A o \in S : Weighted(F)[o] = Weighted(G)[o] + Weighted(H)[o]
  <2> SUFFICES ASSUME NEW o \in S PROVE Weighted(F)[o] = Weighted(G)[o] + Weighted(H)[o]
    OBVIOUS
  <2> DEFINE w == Weight[o[2][1]]
  <2>1. /\ w \in Nat /\ Weighted(F)[o] = w * c /\ Weighted(G)[o] = w * t
        /\ Weighted(H)[o] = w * (c - t)
    BY <1>1, <1>4, TotalIsSum
  <2> HIDE DEF w
  <2>2. w * c = w * t + w * (c - t)
    BY <1>2, <2>1
  <2> QED BY <2>1, <2>2
<1>7. Total(F) = Total(G) + Total(H)
  <2> DEFINE f == Weighted(F)
             g == Weighted(G)
             h == Weighted(H)
  <2>1. /\ IsFiniteSet(S) /\ IntegersOn(g, S) /\ IntegersOn(h, S)
        /\ \A o \in S : f[o] = g[o] + h[o]
    BY <1>5, <1>6
  <2>2. Total(F) = SumFunctionOnSet(f, S) /\ Total(G) = SumFunctionOnSet(g, S)
        /\ Total(H) = SumFunctionOnSet(h, S)
    BY <1>5
  <2> HIDE DEF f, g, h
  <2>3. SumFunctionOnSet(f, S) = SumFunctionOnSet(g, S) + SumFunctionOnSet(h, S)
    BY <2>1, SumOfSums
  <2> QED BY <2>2, <2>3
<1>8. Total(F) - Total(G) = Total(H)
  BY <1>5, <1>7
<1> QED BY <1>1, <1>2, <1>3, <1>5, <1>8 DEF S, c, t, F, G, H

\* The occupations a call counts at a level.
CountedAt(s, mu) == [o \in Counted(s) |-> occupation(evs[o], mu)]

\* Without NaN among them the count is an integer.
LEMMA CountIsInt ==
  ASSUME ValueInv, NEW s, Clean(s), NEW mu \in Int
  PROVE  /\ CountedAt(s, mu) \in [Counted(s) -> Int]
         /\ Count(s, mu) = Total(CountedAt(s, mu)) /\ Count(s, mu) \in Int
         /\ \A o \in Counted(s) : /\ evs[o] \in Int /\ evs[o] \in Finite(s)
                                  /\ CountedAt(s, mu)[o] = occupation(evs[o], mu)
<1>1. /\ evs \in [Orbitals -> Energies \cup {NaN}] /\ scheme \in Scheme
      /\ Counted(s) \in SUBSET Orbitals
  BY DEF ValueInv, LevelInv, SearchInv, Counted
<1>2. ASSUME NEW o \in Counted(s)
      PROVE  /\ evs[o] \in Int /\ evs[o] \in Finite(s) /\ occupation(evs[o], mu) \in Int
  <2>1. evs[o] \in Energies /\ evs[o] # NaN /\ evs[o] \in Finite(s)
    BY <1>1 DEF Clean, Finite
  <2>2. evs[o] \in Int
    BY <2>1, OccupationAssumption
  <2>3. occupation(evs[o], mu) \in Int
    <3>1. mu # NaN
      BY FloatAssumption
    <3> QED BY <1>1, <2>1, <2>2, <3>1, OccupationNaN
  <2> QED BY <2>1, <2>2, <2>3
<1>3. CountedAt(s, mu) \in [Counted(s) -> Int]
  BY <1>2 DEF CountedAt
<1>4. Count(s, mu) = Total(CountedAt(s, mu))
  BY DEF Count, CountedAt
<1>5. Total(CountedAt(s, mu)) \in Int
  <2>1. Counted(s) \in SUBSET Orbitals
    BY <1>1
  <2> QED BY <1>3, <2>1, TotalIsSum
<1> QED BY <1>2, <1>3, <1>4, <1>5 DEF CountedAt

\* A call's levels lie at least Margin inside its first bracket.
LEMMA LevelsInBracket ==
  ASSUME ValueInv, NEW s, Clean(s), Finite(s) # {}
  PROVE  /\ FirstBracket(s) \in Int \X Int
         /\ \A y \in Finite(s) : /\ y - FirstBracket(s)[1] >= Margin
                                 /\ y - FirstBracket(s)[2] <= - Margin
         /\ \E o \in Counted(s) : evs[o] - FirstBracket(s)[2] = - Margin
<1> DEFINE F == Finite(s)
<1>1. F \in SUBSET Energies
  BY DEF ValueInv, LevelInv, SearchInv, Finite, Counted
<1>2. F \in SUBSET Int /\ IsFiniteSet(F) /\ Margin \in Nat
  BY <1>1, FS_Subset, OccupationAssumption
<1>3. /\ Min(F) \in F /\ \A y \in F : Min(F) <= y
      /\ Max(F) \in F /\ \A y \in F : Max(F) >= y
  <2> HIDE DEF F
  <2> QED BY <1>2, MinExists, MaxExists DEF F
<1>4. \E o \in Counted(s) : evs[o] = Max(F)
  BY <1>3 DEF Finite
<1> DEFINE lo == FirstBracket(s)[1]
           hi == FirstBracket(s)[2]
<1>5. lo = Min(F) - Margin /\ hi = Max(F) + Margin /\ FirstBracket(s) = <<lo, hi>>
  BY DEF FirstBracket
<1> HIDE DEF F, lo, hi
<1>6. Min(F) \in Int /\ Max(F) \in Int /\ lo \in Int /\ hi \in Int
  <2>1. Min(F) \in Int /\ Max(F) \in Int
    BY <1>2, <1>3
  <2> QED BY <1>2, <1>5, <2>1
<1>7. ASSUME NEW y \in F PROVE y - lo >= Margin /\ y - hi <= - Margin
  <2>1. y \in Int /\ Min(F) <= y /\ Max(F) >= y
    BY <1>2, <1>3
  <2> QED BY <1>2, <1>5, <1>6, <2>1
<1>8. Max(F) - hi = - Margin
  BY <1>2, <1>5, <1>6
<1> QED BY <1>4, <1>5, <1>6, <1>7, <1>8 DEF F, lo, hi

\* A call's first bracket counts no more than the tails at its lower end, and
\* no less than all but the tails at its upper end.
LEMMA EdgesCount ==
  ASSUME ValueInv, NEW s, Clean(s), Finite(s) # {}
  PROVE  /\ Count(s, FirstBracket(s)[1]) <= Tails(s)
         /\ Count(s, FirstBracket(s)[2]) >= Capacity(s) - Tails(s)
<1> DEFINE S == Counted(s)
           lo == FirstBracket(s)[1]
           hi == FirstBracket(s)[2]
           c == Full * spin_factor
           t == 5 * spin_factor
<1>1. lo \in Int /\ hi \in Int
  BY LevelsInBracket
<1>2. S \in SUBSET Orbitals /\ c \in Nat /\ t \in Nat
  BY CapacityIsInt
<1>3. scheme \in Scheme
  BY DEF ValueInv
<1> HIDE DEF lo, hi, c, t
<1>4. ASSUME NEW o \in S PROVE CountedAt(s, lo)[o] <= t /\ CountedAt(s, hi)[o] >= c - t
  <2>1. evs[o] \in Int /\ evs[o] - lo >= Margin /\ evs[o] - hi <= - Margin
    BY <1>1, CountIsInt, LevelsInBracket DEF lo, hi
  <2>2. occupation(evs[o], lo) <= t /\ occupation(evs[o], hi) >= c - t
    BY <1>1, <1>3, <2>1, TailsOfOccupation DEF c, t
  <2> QED BY <2>2 DEF CountedAt
<1>5. /\ CountedAt(s, lo) \in [S -> Int] /\ CountedAt(s, hi) \in [S -> Int]
      /\ Count(s, lo) = Total(CountedAt(s, lo)) /\ Count(s, hi) = Total(CountedAt(s, hi))
  BY <1>1, CountIsInt
<1>6. /\ Uniform(s, t) \in [S -> Int] /\ \A o \in S : Uniform(s, t)[o] = t
      /\ Uniform(s, c - t) \in [S -> Int] /\ \A o \in S : Uniform(s, c - t)[o] = c - t
  BY <1>2 DEF Uniform
<1> HIDE DEF S
<1>7. Total(CountedAt(s, lo)) <= Total(Uniform(s, t))
  BY <1>2, <1>4, <1>5, <1>6, TotalGrows
<1>8. Total(Uniform(s, c - t)) <= Total(CountedAt(s, hi))
  <2>1. \A o \in S : Uniform(s, c - t)[o] <= CountedAt(s, hi)[o]
    BY <1>2, <1>4, <1>5, <1>6
  <2> QED BY <1>2, <1>5, <1>6, <2>1, TotalGrows
<1>9. Tails(s) = Total(Uniform(s, t)) /\ Capacity(s) - Tails(s) = Total(Uniform(s, c - t))
  BY CapacityIsInt DEF c, t
<1>10. Count(s, hi) \in Int /\ Capacity(s) - Tails(s) \in Int
  BY <1>1, CountIsInt, CapacityIsInt
<1> QED BY <1>5, <1>7, <1>8, <1>9, <1>10 DEF lo, hi

\* The two schemes without negative tails count between nothing and what the
\* states hold, and Fermi-Dirac less than that up to FermiReach.
LEMMA BoundedCount ==
  ASSUME ValueInv, NEW s, Clean(s), Finite(s) # {}, NEW mu \in Int,
         scheme \in {"FermiDirac", "Gaussian"}
  PROVE  /\ 0 <= Count(s, mu) /\ Count(s, mu) <= Capacity(s)
         /\ smeared /\ scheme = "FermiDirac" /\ Margin <= FermiReach
              /\ mu <= FirstBracket(s)[2] => Count(s, mu) < Capacity(s)
<1> DEFINE S == Counted(s)
           c == Full * spin_factor
           f == CountedAt(s, mu)
<1>1. S \in SUBSET Orbitals /\ c \in Nat
  BY CapacityIsInt
<1>2. f \in [S -> Int] /\ Count(s, mu) = Total(f) /\ \A o \in S : f[o] = occupation(evs[o], mu)
  BY CountIsInt
<1> HIDE DEF S, c, f
<1>3. ASSUME NEW o \in S PROVE f[o] \in 0 .. c
  <2>1. /\ evs[o] \in Int /\ mu # NaN /\ NaN \notin Int /\ scheme \in Scheme
    BY CountIsInt, FloatAssumption DEF S, ValueInv
  <2>2. f[o] \in OccupationRange /\ f[o] \in Int
    BY <1>2, <2>1, OccupationInRange
  <2> QED BY <2>1, <2>2 DEF OccupationRange, c
<1>4. Uniform(s, c) \in [S -> Int] /\ \A o \in S : Uniform(s, c)[o] = c
  BY <1>1 DEF Uniform, S
<1>5. Capacity(s) = Total(Uniform(s, c))
  BY CapacityIsInt DEF c
<1>6. Total(f) <= Total(Uniform(s, c))
  BY <1>1, <1>2, <1>3, <1>4, TotalGrows
<1>7. 0 <= Total(f)
  <2> DEFINE z == [o \in S |-> 0]
  <2>1. z \in [S -> Int] /\ \A o \in S : z[o] <= f[o]
    BY <1>3
  <2>2. /\ IsFiniteSet(S) /\ Total(z) = SumFunctionOnSet(Weighted(z), S)
        /\ \A o \in S : Weighted(z)[o] = 0
    <3>1. ASSUME NEW o \in S PROVE Weight[o[2][1]] * z[o] = 0
      <4>1. Weight[o[2][1]] \in Nat /\ z[o] = 0
        BY <1>1, <2>1, TotalIsSum
      <4> QED BY <4>1
    <3> HIDE DEF z
    <3>2. \A o \in S : Weighted(z)[o] = Weight[o[2][1]] * z[o]
      BY <1>1, <2>1, TotalIsSum
    <3> QED BY <1>1, <2>1, <3>1, <3>2, TotalIsSum
  <2> HIDE DEF z
  <2>3. SumFunctionOnSet(Weighted(z), S) = 0 * Cardinality(S) /\ Cardinality(S) \in Nat
    BY <2>2, SumOfConstant, FS_CardinalityType
  <2>4. Total(z) <= Total(f)
    BY <1>1, <1>2, <2>1, TotalGrows
  <2> QED BY <2>2, <2>3, <2>4
<1>8. ASSUME smeared, scheme = "FermiDirac", Margin <= FermiReach, mu <= FirstBracket(s)[2]
      PROVE  Total(f) < Total(Uniform(s, c))
  <2>1. PICK o \in S : evs[o] - FirstBracket(s)[2] = - Margin
    BY LevelsInBracket DEF S
  <2>2. evs[o] \in Int /\ FirstBracket(s)[2] \in Int /\ Margin \in Nat /\ FermiReach \in Nat
    BY CountIsInt, LevelsInBracket, OccupationAssumption DEF S, FermiReach
  <2> DEFINE x == evs[o] - mu
             v == SmearedOccupation(x)
             p == spin_factor
             k == Full
  <2>3. x \in Int /\ x >= - FermiReach
    BY <1>8, <2>1, <2>2
  <2>4. occupation(evs[o], mu) = p * v /\ p \in {1, 2} /\ k \in Nat
    BY <1>8, <2>2, FloatAssumption DEF occupation, spin_factor, Full
  <2> HIDE DEF x
  <2>5. v \in Int /\ v < k
    <3>1. scheme \in Scheme
      BY DEF ValueInv
    <3> QED BY <1>8, <2>3, <3>1, FermiNeverFull, SmearedRange
  <2> HIDE DEF v, p, k
  <2>6. p * v < k * p
    BY <2>4, <2>5
  <2>7. f[o] < Uniform(s, c)[o]
    BY <1>2, <1>4, <2>4, <2>6 DEF c, k, p
  <2>8. \A q \in S : f[q] <= Uniform(s, c)[q]
    BY <1>1, <1>3, <1>4
  <2> QED BY <1>1, <1>2, <1>4, <2>7, <2>8, TotalGrows
<1> QED BY <1>2, <1>5, <1>6, <1>7, <1>8

-----------------------------------------------------------------------------
(* The bisection ends at one unit.                                         *)

\* k halvings are allowed, and bring every first bracket down to one unit.
Suffices(k) ==
  k \in 0 .. MaxSteps /\ \A a, b \in Energies : (b - a) + 2 * Margin <= 2 ^ k

\* The bracket is still too wide, and as many halvings as it needs are left.
Halving(lo, hi, n) == hi - lo > 1 /\ \E j \in Nat : Suffices(n + j) /\ hi - lo <= 2 ^ j

\* A level that was returned lies in a bracket of one unit.
LevelIn(s) ==
  fermi[s] \notin {None, NaN} =>
    /\ edge[s] # None
    /\ fermi[s] \in e_min[s] .. e_max[s] /\ e_max[s] - e_min[s] <= 1

\* The inductive invariant of the search's end.
EndInv ==
  /\ ValueInv
  /\ n_electrons \in NElectrons /\ tot_magnetization \in Magnetizations \cup {None}
  /\ \A s \in Search : edge[s] # None => edge[s] = FirstBracket(s) /\ Finite(s) # {}
  /\ \A s \in Search : LevelIn(s)
  /\ pc \in {"bracket", "bisect", "level"} => fermi[search] = None
  /\ search = "up" => fermi["down"] = None
  /\ pc = "bisect" => Halving(e_min[search], e_max[search], step)
  /\ pc = "level" => e_max[search] - e_min[search] <= 1

\* The first bracket is of the kind that MaxSteps halvings bring down.
LEMMA FirstBracketHalves ==
  ASSUME ValueInv, NEW s, Finite(s) # {}
  PROVE  Halving(FirstBracket(s)[1], FirstBracket(s)[2], 0)
<1> DEFINE F == Finite(s)
<1>1. F \in SUBSET Energies
  <2>1. evs \in [Orbitals -> Energies \cup {NaN}]
    BY DEF ValueInv, LevelInv, SearchInv
  <2> QED BY <2>1 DEF Finite, Counted
<1>2. F \in SUBSET Int /\ IsFiniteSet(F) /\ Margin \in Nat /\ Margin >= 20
  BY <1>1, FS_Subset, OccupationAssumption, BisectionAssumption
<1>3. Min(F) \in F /\ Max(F) \in F /\ Min(F) <= Max(F)
  <2> HIDE DEF F
  <2>1. Min(F) \in F /\ \A y \in F : Min(F) <= y
    BY <1>2, MinExists DEF F
  <2>2. Max(F) \in F
    BY <1>2, MaxExists DEF F
  <2> QED BY <2>1, <2>2
<1> DEFINE a == Min(F)
           b == Max(F)
<1>4. a \in Energies /\ b \in Energies /\ a \in Int /\ b \in Int /\ a <= b
  BY <1>1, <1>2, <1>3
<1>5. FirstBracket(s)[1] = a - Margin /\ FirstBracket(s)[2] = b + Margin
  BY DEF FirstBracket
<1> HIDE DEF F, a, b
<1>6. PICK k \in 0 .. MaxSteps : \A c, d \in Energies : (d - c) + 2 * Margin <= 2 ^ k
  BY BisectionAssumption
<1>7. k \in Nat /\ 0 + k = k /\ Suffices(k)
  BY <1>6 DEF Suffices
<1> DEFINE p == 2 ^ k
<1>8. p \in Nat /\ (b - a) + 2 * Margin <= p
  BY <1>4, <1>6, <1>7, PowerCountsSubsets
<1> HIDE DEF p
<1>9. (b + Margin) - (a - Margin) <= p /\ (b + Margin) - (a - Margin) > 1
  BY <1>2, <1>4, <1>8
<1> QED BY <1>5, <1>7, <1>9 DEF Halving, p

\* One halving uses one of those left, and the last one leaves one unit.
LEMMA HalvingHalves ==
  ASSUME NEW lo \in Int, NEW hi \in Int, NEW n \in Nat, Halving(lo, hi, n),
         NEW l \in Int, NEW h \in Int,
         \/ l = (lo + hi) \div 2 /\ h = hi
         \/ l = lo /\ h = (lo + hi) \div 2
  PROVE  /\ h - l > 1 => Halving(l, h, n + 1)
         /\ n + 1 = MaxSteps => h - l <= 1
<1>1. PICK j \in Nat : Suffices(n + j) /\ hi - lo <= 2 ^ j
  BY DEF Halving
<1>2. hi - lo > 1
  BY DEF Halving
<1>3. j # 0
  <2>1. CASE j = 0
    BY <1>1, <1>2, <2>1, PowerOfNone
  <2> QED BY <2>1
<1> DEFINE i == j - 1
           p == 2 ^ i
<1>4. i \in Nat /\ j = i + 1 /\ (n + 1) + i = n + j
  BY <1>3
<1> HIDE DEF i
<1>5. p \in Nat /\ 2 ^ j = 2 * p
  BY <1>4, PowerCountsSubsets, PowerDoubles
<1> HIDE DEF p
<1>6. hi - lo <= 2 * p
  BY <1>1, <1>5
<1>7. h - l <= p
  BY <1>5, <1>6
<1>8. Suffices((n + 1) + i)
  BY <1>1, <1>4
<1>9. h - l > 1 => Halving(l, h, n + 1)
  BY <1>4, <1>7, <1>8 DEF Halving, p
<1>10. ASSUME n + 1 = MaxSteps PROVE h - l <= 1
  <2>1. i = 0
    BY <1>4, <1>8, <1>10, OccupationAssumption DEF Suffices
  <2>2. p = 1
    BY <2>1, PowerOfNone DEF p
  <2> QED BY <1>7, <2>2
<1> QED BY <1>9, <1>10

\* No call has a bracket yet.
LEMMA EndInvInit == Init => EndInv
<1> SUFFICES ASSUME Init PROVE EndInv
  OBVIOUS
<1>1. ValueInv
  BY ValueInvInit
<1>2. /\ pc = "bracket" /\ search \in Search
      /\ \A s \in Search : edge[s] = None /\ fermi[s] = None
  BY DEF Init, Search, Spin
<1>3. "down" \in Search
  BY DEF Search, Spin
<1>4. n_electrons \in NElectrons /\ tot_magnetization \in Magnetizations \cup {None}
  BY DEF Init
<1> QED BY <1>1, <1>2, <1>3, <1>4 DEF EndInv, LevelIn

\* A call that returns a level of its bracket, or NaN for want of one.
LEMMA ReturnEnds ==
  ASSUME EndInv, ValueInv', UNCHANGED <<params, e_min, e_max, edge>>,
         NEW mu \in Int \cup {NaN}, fermi' = [fermi EXCEPT ![search] = mu],
         mu # NaN => /\ edge[search] # None
                     /\ mu \in e_min[search] .. e_max[search]
                     /\ e_max[search] - e_min[search] <= 1,
         Returns
  PROVE  EndInv'
<1>1. search \in Search /\ fermi \in [Search -> Int \cup {NaN, None}]
  BY CallsAreSearches DEF EndInv, ValueInv, LevelInv, SearchInv
<1>2. \A s \in Search : edge'[s] # None => edge'[s] = FirstBracket(s)' /\ Finite(s)' # {}
  BY DensityFramed DEF EndInv, FirstBracket
<1>3. ASSUME NEW s \in Search PROVE LevelIn(s)'
  <2>1. CASE s = search
    BY <1>1, <2>1 DEF LevelIn
  <2>2. CASE s # search
    <3>1. fermi'[s] = fermi[s] /\ LevelIn(s)
      BY <1>1, <2>2 DEF EndInv
    <3> QED BY <3>1 DEF LevelIn
  <2> QED BY <2>1, <2>2
<1>4. CASE search = "up"
  <2>1. search' = "down" /\ pc' = "bracket"
    BY <1>4 DEF Returns
  <2>2. fermi'["down"] = None
    BY <1>1, <1>4 DEF EndInv, Search, Spin
  <2> QED BY <1>2, <1>3, <2>1, <2>2 DEF EndInv, params
<1>5. CASE search # "up"
  <2>1. search' = search /\ pc' = "occupy"
    BY <1>5 DEF Returns
  <2> QED BY <1>2, <1>3, <1>5, <2>1 DEF EndInv, params
<1> QED BY <1>4, <1>5

\* A halving either leaves the bracket to the next or ends the call.
LEMMA BisectEnds ==
  ASSUME EndInv, ValueInv', Bisect
  PROVE  EndInv'
<1> DEFINE lo == e_min[search]
           hi == e_max[search]
           l == e_min'[search]
           h == e_max'[search]
<1>1. /\ search \in Search /\ search' = search /\ UNCHANGED params
      /\ edge' = edge /\ fermi' = fermi
      /\ e_min \in [Search -> Int] /\ e_max \in [Search -> Int]
      /\ step \in Nat /\ step' = step + 1
      /\ fermi[search] = None /\ Halving(lo, hi, step)
  BY CallsAreSearches DEF EndInv, ValueInv, LevelInv, SearchInv, Bisect
<1>2. /\ \/ l = (lo + hi) \div 2 /\ h = hi
         \/ l = lo /\ h = (lo + hi) \div 2
      /\ \A s \in Search \ {search} : e_min'[s] = e_min[s] /\ e_max'[s] = e_max[s]
  BY <1>1 DEF Bisect
<1>3. lo \in Int /\ hi \in Int
  BY <1>1
<1>4. pc' = IF h - l <= 1 \/ step' = MaxSteps THEN "level" ELSE "bisect"
  BY <1>1 DEF Bisect
<1> HIDE DEF lo, hi, l, h
<1>5. l \in Int /\ h \in Int
  BY <1>2, <1>3
<1>6. /\ h - l > 1 => Halving(l, h, step + 1)
      /\ step + 1 = MaxSteps => h - l <= 1
  BY <1>1, <1>2, <1>3, <1>5, HalvingHalves
<1>7. (pc' = "bisect" => Halving(l, h, step')) /\ (pc' = "level" => h - l <= 1)
  <2>1. CASE h - l <= 1
    BY <1>4, <2>1
  <2>2. CASE ~ (h - l <= 1)
    <3>1. h - l > 1 /\ step' # MaxSteps
      BY <1>1, <1>5, <1>6, <2>2
    <3> QED BY <1>1, <1>4, <1>6, <2>2, <3>1
  <2> QED BY <2>1, <2>2
<1>8. \A s \in Search : edge'[s] # None => edge'[s] = FirstBracket(s)' /\ Finite(s)' # {}
  BY <1>1, DensityFramed DEF EndInv, FirstBracket
<1>9. \A s \in Search : LevelIn(s)'
  BY <1>1, <1>2 DEF EndInv, LevelIn
<1> QED BY <1>1, <1>7, <1>8, <1>9 DEF EndInv, l, h, params

\* The first bracket of a call.
LEMMA BracketEnds ==
  ASSUME EndInv, ValueInv', Bracket
  PROVE  EndInv'
<1>1. /\ search \in Search /\ search' = search /\ UNCHANGED params /\ fermi' = fermi
      /\ e_min \in [Search -> Int] /\ e_max \in [Search -> Int]
      /\ edge \in [Search -> (Int \X Int) \cup {None}]
      /\ step' = 0 /\ pc' = "bisect" /\ fermi[search] = None /\ Finite(search) # {}
  BY CallsAreSearches DEF EndInv, ValueInv, LevelInv, SearchInv, Bracket
<1>2. /\ edge'[search] = FirstBracket(search)
      /\ e_min'[search] = FirstBracket(search)[1] /\ e_max'[search] = FirstBracket(search)[2]
      /\ \A s \in Search \ {search} :
           edge'[s] = edge[s] /\ e_min'[s] = e_min[s] /\ e_max'[s] = e_max[s]
  BY <1>1 DEF Bracket
<1>3. Halving(e_min'[search], e_max'[search], 0)
  BY <1>1, <1>2, FirstBracketHalves DEF EndInv
<1>4. \A s \in Search : edge'[s] # None => edge'[s] = FirstBracket(s)' /\ Finite(s)' # {}
  <2>1. \A s : Finite(s)' = Finite(s) /\ FirstBracket(s)' = FirstBracket(s)
    BY <1>1, DensityFramed DEF FirstBracket
  <2> QED BY <1>1, <1>2, <2>1 DEF EndInv
<1>5. \A s \in Search : LevelIn(s)'
  BY <1>1, <1>2 DEF EndInv, LevelIn
<1>6. search' = "up" => fermi'["down"] = None
  BY <1>1 DEF EndInv
<1> QED BY <1>1, <1>3, <1>4, <1>5, <1>6 DEF EndInv, params

\* Every step keeps it.
LEMMA EndInvNext == EndInv /\ [Next]_vars => EndInv'
<1> SUFFICES ASSUME EndInv, [Next]_vars PROVE EndInv'
  OBVIOUS
<1>0. ValueInv'
  BY ValueInvNext DEF EndInv
<1>1. CASE Bracket
  BY <1>0, <1>1, BracketEnds
<1>2. CASE BracketNothing
  BY <1>0, <1>2, ReturnEnds DEF BracketNothing
<1>3. CASE Bisect
  BY <1>0, <1>3, BisectEnds
<1>4. CASE ReturnLevel
  <2>1. PICK mu \in e_min[search] .. e_max[search] : fermi' = [fermi EXCEPT ![search] = mu]
    BY <1>4 DEF ReturnLevel
  <2>2. /\ search \in Search /\ e_min[search] \in Int /\ e_max[search] \in Int
        /\ edge[search] # None /\ e_max[search] - e_min[search] <= 1
    BY <1>4, CallsAreSearches DEF ReturnLevel, EndInv, ValueInv, LevelInv, SearchInv
  <2>3. mu \in Int
    BY <2>1, <2>2
  <2> QED BY <1>0, <1>4, <2>1, <2>2, <2>3, ReturnEnds DEF ReturnLevel
<1>5. CASE /\ UNCHANGED <<params, bisection>>
           /\ pc' \in {"density", "done"} \/ pc' = pc
  <2>1. UNCHANGED <<params, search, step, e_min, e_max, edge, fermi>>
    BY <1>5 DEF bisection
  <2>2. \A s \in Search : edge'[s] # None => edge'[s] = FirstBracket(s)' /\ Finite(s)' # {}
    BY <2>1, DensityFramed DEF EndInv, FirstBracket
  <2>3. \A s \in Search : LevelIn(s)'
    BY <2>1 DEF EndInv, LevelIn
  <2> QED BY <1>0, <1>5, <2>1, <2>2, <2>3 DEF EndInv, params
<1>6. CASE Occupy \/ BuildDensity \/ UNCHANGED vars
  BY <1>5, <1>6 DEF Occupy, BuildDensity, vars
<1> QED BY <1>1, <1>2, <1>3, <1>4, <1>6 DEF Next

\* It holds throughout.
LEMMA EndInvariant == Spec => []EndInv
BY EndInvInit, EndInvNext, PTL DEF Spec

\* The number of electrons a call looks for is an integer.
LEMMA TargetIsInt ==
  ASSUME n_electrons \in NElectrons, tot_magnetization \in Magnetizations \cup {None},
         NEW s \in Calls
  PROVE  Target(s) \in Int
<1>1. WeightTotal \in Int
  <2>1. DOMAIN Weight = KPoints /\ IsFiniteSet(KPoints) /\ IntegersOn(Weight, KPoints)
    BY OccupationAssumption DEF IntegersOn
  <2>2. SumFunctionOnSet(Weight, KPoints) \in Int
    BY <2>1, SumRemove
  <2> QED BY <2>1, <2>2 DEF WeightTotal, SumFunction
<1>2. Electron \in Int /\ Electron \div 2 \in Int
  <2>1. Electron \in Int
    BY <1>1 DEF Electron, Full
  <2> HIDE DEF Electron
  <2> QED BY <2>1
<1> DEFINE e == Electron
           h == Electron \div 2
           n == n_electrons
           m == tot_magnetization
<1>3. e \in Int /\ h \in Int /\ n \in Int
  BY <1>2, OccupationAssumption
<1>4. CASE s = "both"
  <2>1. Target(s) = e * n
    BY <1>4 DEF Target
  <2> HIDE DEF e, n
  <2> QED BY <1>3, <2>1
<1>5. CASE s # "both"
  <2>1. s \in {"up", "down"} /\ m \in Int
    BY <1>5, OccupationAssumption DEF Calls, FixedMagnetization, Spin
  <2>2. Target(s) = h * (n + m) \/ Target(s) = h * (n - m)
    BY <2>1 DEF Target
  <2> HIDE DEF h, n, m
  <2>3. h * (n + m) \in Int /\ h * (n - m) \in Int
    BY <1>3, <2>1
  <2> QED BY <2>2, <2>3
<1> QED BY <1>4, <1>5

\* For every spectrum, scheme, weights and electrons, in a call without NaN:
\* where its states can hold its electrons with the tails of the smearing, the
\* level found is the one at which the count passes them, within the unit the
\* bisection ends at.  Where no level counts them, or every level does, it is
\* the end of the first bracket that comes closest.
THEOREM LevelCarriesElectrons == Spec => []LevelCarriesTheElectrons
<1>1. ASSUME EndInv, NEW s \in Calls, Returned(s), Clean(s)
      PROVE  /\ Attainable(s) =>
                  /\ TooFew(s, e_min[s]) /\ ~ TooFew(s, e_max[s])
                  /\ e_max[s] = e_min[s] + 1 /\ fermi[s] \in e_min[s] .. e_max[s]
             /\ NeverEnough(s) =>
                  /\ e_max[s] = edge[s][2] /\ TooFew(s, fermi[s])
                  /\ fermi[s] \in edge[s][2] - 1 .. edge[s][2]
             /\ AlwaysEnough(s) =>
                  /\ e_min[s] = edge[s][1] /\ ~ TooFew(s, fermi[s])
                  /\ fermi[s] \in edge[s][1] .. edge[s][1] + 1
  <2> DEFINE lo == e_min[s]
             hi == e_max[s]
             a == edge[s][1]
             b == edge[s][2]
             mu == fermi[s]
             n == Target(s)
             c == Capacity(s)
             t == Tails(s)
  <2>1. /\ ValueInv /\ s \in Search /\ lo \in Int /\ hi \in Int
        /\ edge[s] = FirstBracket(s) /\ edge[s] # None /\ Finite(s) # {}
        /\ mu \in lo .. hi /\ hi - lo <= 1
    BY <1>1, CallsAreSearches DEF EndInv, ValueInv, LevelInv, SearchInv, LevelIn, Returned
  <2>2. /\ a <= lo /\ lo <= hi /\ hi <= b
        /\ lo = a \/ TooFew(s, lo)
        /\ hi = b \/ ~ TooFew(s, hi)
    BY <1>1, <2>1 DEF EndInv, ValueInv, LevelInv, Bracketed
  <2>3. a \in Int /\ b \in Int /\ mu \in Int /\ c \in Int /\ t \in Int /\ n \in Int
    BY <1>1, <2>1, LevelsInBracket, CapacityIsInt, TargetIsInt DEF EndInv
  <2>4. \A x \in Int : Count(s, x) \in Int /\ (TooFew(s, x) <=> Count(s, x) < n)
    BY <1>1, <2>1, CountIsInt, FloatAssumption DEF TooFew, Below
  <2>5. Count(s, a) <= t /\ Count(s, b) >= c - t
    BY <1>1, <2>1, EdgesCount
  <2> HIDE DEF lo, hi, a, b, mu, n, c, t
  <2>6. ASSUME Attainable(s)
        PROVE  /\ TooFew(s, lo) /\ ~ TooFew(s, hi)
               /\ hi = lo + 1 /\ mu \in lo .. hi
    <3>1. t < n /\ n <= c - t
      BY <2>6 DEF Attainable, t, n, c
    <3>2. Count(s, a) < n /\ ~ (Count(s, b) < n)
      BY <2>3, <2>4, <2>5, <3>1
    <3>3. TooFew(s, lo) /\ ~ TooFew(s, hi)
      BY <2>2, <2>3, <2>4, <3>2
    <3> QED BY <2>1, <2>2, <3>3
  <2>7. ASSUME NeverEnough(s)
        PROVE  hi = b /\ TooFew(s, mu) /\ mu \in b - 1 .. b
    <3>1. ASSUME NEW x \in Int, x <= b PROVE TooFew(s, x)
      <4>1. /\ scheme \in {"FermiDirac", "Gaussian"}
            /\ \/ c < n
               \/ smeared /\ scheme = "FermiDirac" /\ c = n /\ Margin <= FermiReach
        BY <2>7 DEF NeverEnough, c, n
      <4>2. Count(s, x) <= c
        BY <1>1, <2>1, <4>1, BoundedCount DEF c
      <4>3. smeared /\ scheme = "FermiDirac" /\ Margin <= FermiReach => Count(s, x) < c
        BY <1>1, <2>1, <3>1, <4>1, BoundedCount DEF b, c
      <4>4. CASE c < n
        BY <2>3, <2>4, <4>2, <4>4
      <4>5. CASE smeared /\ scheme = "FermiDirac" /\ c = n /\ Margin <= FermiReach
        BY <2>4, <4>3, <4>5
      <4> QED BY <4>1, <4>4, <4>5
    <3>2. TooFew(s, hi)
      BY <2>1, <2>2, <3>1 DEF hi
    <3>3. hi = b
      BY <2>2, <3>2
    <3>4. mu <= b /\ mu >= b - 1
      BY <2>1, <2>3, <3>3 DEF lo, hi
    <3> QED BY <2>3, <3>1, <3>3, <3>4
  <2>8. ASSUME AlwaysEnough(s)
        PROVE  lo = a /\ ~ TooFew(s, mu) /\ mu \in a .. a + 1
    <3>1. ASSUME NEW x \in Int PROVE ~ TooFew(s, x)
      <4>1. scheme \in {"FermiDirac", "Gaussian"} /\ n <= 0
        BY <2>8 DEF AlwaysEnough, n
      <4>2. 0 <= Count(s, x)
        BY <1>1, <2>1, <4>1, BoundedCount
      <4> QED BY <2>3, <2>4, <4>1, <4>2
    <3>2. lo = a
      BY <2>1, <2>2, <3>1 DEF lo
    <3>3. mu >= a /\ mu <= a + 1
      BY <2>1, <2>3, <3>2 DEF lo, hi
    <3> QED BY <2>3, <3>1, <3>2, <3>3
  <2> QED BY <2>6, <2>7, <2>8 DEF lo, hi, a, b, mu
<1>2. EndInv => LevelCarriesTheElectrons
  BY <1>1 DEF LevelCarriesTheElectrons
<1> QED BY <1>2, EndInvariant, PTL
=============================================================================
