---------------------------- MODULE Occupations ----------------------------
(***************************************************************************)
(* From eigenvalues to a density: scf/smearing.rs (Fermi level by          *)
(* bisection, occupation functions), the occupation steps of both SCF      *)
(* drivers and the bookkeeping of scf/density.rs (which bands are skipped, *)
(* what the density is rescaled to).                                       *)
(*                                                                         *)
(* Energies are integers, in halves of smearing_sigma where there is       *)
(* smearing; one unit also stands for the tolerance the bisection ends at. *)
(* Occupations are in 1e-5 of a state, k-point weights integers, so that   *)
(* one electron is Electron units.  A part of a state that the code tells  *)
(* from none (OCCUPATION_SKIP_THRESHOLD = 1e-15) is one unit at least, so  *)
(* that the long tails of Fermi-Dirac smearing never count as nothing or   *)
(* as everything.  An orbital is a channel and a (k-point, band) pair; a   *)
(* density is how much of it the orbitals carry.                           *)
(***************************************************************************)
EXTENDS FloatOrder, Sequences, FiniteSets, FiniteSetsExt

CONSTANTS
  KPoints, Bands, \* of one channel
  Weight,         \* kpt_weights, as integers
  Energies,       \* finite eigenvalues
  NElectrons,     \* electrons in the cell
  Magnetizations, \* ScfParams::tot_magnetization, not validated
  Margin,         \* 10.0 * sigma.max(0.1), in energy units
  MaxSteps,       \* 200 bisection steps
  None            \* Option::None

ASSUME OccupationAssumption ==
  /\ IsFiniteSet(KPoints) /\ IsFiniteSet(Bands)
  /\ Weight \in [KPoints -> Nat \ {0}]
  /\ Energies \subseteq Int /\ IsFiniteSet(Energies)
  /\ NElectrons \subseteq Nat /\ Magnetizations \subseteq Int
  /\ Margin \in Nat \ {0} /\ MaxSteps \in Nat \ {0}
  /\ None \notin Int /\ None \notin Int \X Int /\ None # NaN

\* Ten sigma are twenty halves of it, and MaxSteps halvings bring the widest
\* bracket down to the tolerance: 200 of them do so from 1e46 Hartree.
ASSUME BisectionAssumption ==
  /\ Margin >= 20
  /\ \E k \in 0 .. MaxSteps : \A a, b \in Energies : (b - a) + 2 * Margin <= 2 ^ k

Spin == {"up", "down"}
Search == {"both"} \cup Spin   \* one call of find_fermi_energy each
Scheme == {"FermiDirac", "Gaussian", "MethfesselPaxton", "Cold"}

VARIABLES
  nspin, scheme, smeared,  \* ScfParams; smeared: smearing_sigma >= 1e-15
  tot_magnetization, n_electrons,
  evs,                     \* eigenvalues of this iteration
  pc,
  search,                  \* the call that runs or ran last
  step,                    \* bisection steps of that call
  e_min, e_max,            \* its bracket, per call
  edge,                    \* history: the first bracket, per call
  fermi,                   \* the level returned, per call
  occ,                     \* occupations
  rho                      \* per channel: what was accumulated, what is left

params == <<nspin, scheme, smeared, tot_magnetization, n_electrons, evs>>
bisection == <<search, step, e_min, e_max, edge, fermi>>
vars == <<params, pc, bisection, occ, rho>>

-----------------------------------------------------------------------------
(* Occupation functions, with the energy relative to the level.            *)

Full == 100000   \* one state

\* Values of f at 0, 1, 2, ... halves of sigma above the level.
FermiTable == <<50000, 37754, 26894, 18243, 11920, 7586, 4743, 2931, 1799, 1099,
                669, 407, 247, 150, 91, 55, 34, 20, 12, 7, 5, 3, 2, 1, 1>>
GaussTable == <<50000, 23975, 7865, 1695, 234, 20, 1>>
MethfesselPaxtonTable == <<50000, 12990, -2513, -2765, -799, -116, -9>>
\* cold_01 has no symmetry: from eight halves below the level to five above.
ColdTable == <<100001, 100012, 100149, 101041, 104124, 108168, 102679, 76699,
               40063, 13682, 2953, 396, 33, 2>>

\* Where the tails fall below 1e-15.
FermiReach == 69
GaussReach == 11

\* Above the level: the table, then the least part of a state, then nothing.
Side(table, reach, least, h) ==
  IF h < Len(table) THEN table[h + 1] ELSE IF h <= reach THEN least ELSE 0

Symmetric(table, reach, least, x) ==
  IF x >= 0 THEN Side(table, reach, least, x) ELSE Full - Side(table, reach, least, -x)

ColdOccupation(x) ==
  IF x < -8 THEN IF x >= -12 THEN Full + 1 ELSE Full
  ELSE IF x > 5 THEN IF x <= 10 THEN 1 ELSE 0
  ELSE ColdTable[x + 9]

SmearedOccupation(x) ==
  CASE scheme = "FermiDirac"       -> Symmetric(FermiTable, FermiReach, 1, x)
    [] scheme = "Gaussian"         -> Symmetric(GaussTable, GaussReach, 1, x)
    [] scheme = "MethfesselPaxton" -> Symmetric(MethfesselPaxtonTable, GaussReach, -1, x)
    [] scheme = "Cold"             -> ColdOccupation(x)

\* sigma < 1e-15: all four schemes, a level within 1e-12 counts one half.
StepOccupation(x) == IF x < 0 THEN Full ELSE IF x = 0 THEN Full \div 2 ELSE 0

spin_factor == IF nspin = 1 THEN 2 ELSE 1

\* (mutant of occupation: compute_occupations applies the factor once more)
occupation_doubled(e, mu) ==
  IF e = NaN \/ mu = NaN THEN IF smeared THEN NaN ELSE 0
  ELSE spin_factor * spin_factor *
         (IF smeared THEN SmearedOccupation(e - mu) ELSE StepOccupation(e - mu))

\* NaN passes through every smeared scheme, and fails every test of the step.
occupation(e, mu) ==
  IF e = NaN \/ mu = NaN THEN IF smeared THEN NaN ELSE 0
  ELSE spin_factor * (IF smeared THEN SmearedOccupation(e - mu)
                                 ELSE StepOccupation(e - mu))

-----------------------------------------------------------------------------
(* The calls of find_fermi_energy.                                         *)

States == KPoints \X Bands
WeightTotal == SumFunction(Weight)
Electron == Full * WeightTotal

Channels == IF nspin = 1 THEN {"up"} ELSE Spin
Orbitals == Channels \X States
FixedMagnetization == nspin = 2 /\ tot_magnetization # None

Calls == IF FixedMagnetization THEN Spin ELSE {"both"}
CallOf(c) == IF FixedMagnetization THEN c ELSE "both"
Counted(call) == {o \in Orbitals : CallOf(o[1]) = call}

Target(call) ==
  CASE call = "both" -> Electron * n_electrons
    [] call = "up"   -> (Electron \div 2) * (n_electrons + tot_magnetization)
    [] call = "down" -> (Electron \div 2) * (n_electrons - tot_magnetization)

\* Weighted sum of an occupation per orbital, NaN if any of them is.
Total(f) ==
  IF \E o \in DOMAIN f : f[o] = NaN THEN NaN
  ELSE SumFunction([o \in DOMAIN f |-> Weight[o[2][1]] * f[o]])

Count(call, mu) == Total([o \in Counted(call) |-> occupation(evs[o], mu)])

Finite(call) == {evs[o] : o \in Counted(call)} \ {NaN}

Init ==
  /\ nspin \in {1, 2}
  /\ scheme \in Scheme
  /\ smeared \in BOOLEAN
  /\ ~ smeared => scheme = "FermiDirac"   \* the step is the same in all schemes
  /\ tot_magnetization \in Magnetizations \cup {None}
  /\ nspin = 1 => tot_magnetization = None \* driver.rs never reads it
  /\ n_electrons \in NElectrons
  /\ evs \in [Orbitals -> Energies \cup {NaN}]
  /\ pc = "bracket"
  /\ search = IF FixedMagnetization THEN "up" ELSE "both"
  /\ step = 0
  /\ e_min = [s \in Search |-> 0]
  /\ e_max = [s \in Search |-> 0]
  /\ edge = [s \in Search |-> None]
  /\ fermi = [s \in Search |-> None]
  /\ occ = None
  /\ rho = None

\* (mutant of FirstBracket: not widened beyond the levels)
LevelBracket(call) == <<Min(Finite(call)), Max(Finite(call))>>

\* f64::min and f64::max skip NaN eigenvalues.
FirstBracket(call) == <<Min(Finite(call)) - Margin, Max(Finite(call)) + Margin>>

Bracket ==
  /\ pc = "bracket"
  /\ Finite(search) # {}
  /\ edge' = [edge EXCEPT ![search] = FirstBracket(search)]
  /\ e_min' = [e_min EXCEPT ![search] = FirstBracket(search)[1]]
  /\ e_max' = [e_max EXCEPT ![search] = FirstBracket(search)[2]]
  /\ step' = 0
  /\ pc' = "bisect"
  /\ UNCHANGED <<params, search, fermi, occ, rho>>

\* The driver's second call, or its use of the levels.
Returns ==
  IF search = "up"
  THEN search' = "down" /\ pc' = "bracket"
  ELSE search' = search /\ pc' = "occupy"

\* Without a finite eigenvalue the bracket is (inf, -inf), its middle NaN.
BracketNothing ==
  /\ pc = "bracket"
  /\ Finite(search) = {}
  /\ fermi' = [fermi EXCEPT ![search] = NaN]
  /\ Returns
  /\ UNCHANGED <<params, step, e_min, e_max, edge, occ, rho>>

\* n < n_electrons, which no NaN is.
TooFew(call, mid) == Below(Count(call, mid), Target(call))

\* (mutant of RaiseLowerEnd: the test turned into n >= n_electrons)
RaiseLowerEndOnNaN(call, mid) ==
  Count(call, mid) = NaN \/ ~ Count(call, mid) >= Target(call)

RaiseLowerEnd(call, mid) == TooFew(call, mid)

Bisect ==
  /\ pc = "bisect"
  /\ LET mid == (e_min[search] + e_max[search]) \div 2
     IN IF RaiseLowerEnd(search, mid)
        THEN e_min' = [e_min EXCEPT ![search] = mid] /\ e_max' = e_max
        ELSE e_max' = [e_max EXCEPT ![search] = mid] /\ e_min' = e_min
  /\ step' = step + 1
  /\ pc' = IF e_max'[search] - e_min'[search] <= 1 \/ step' = MaxSteps
           THEN "level" ELSE "bisect"
  /\ UNCHANGED <<params, search, edge, fermi, occ, rho>>

\* The middle of the last bracket, which may lie on either side of a jump of
\* the count inside it.
ReturnLevel ==
  /\ pc = "level"
  /\ \E mu \in e_min[search] .. e_max[search] :
       fermi' = [fermi EXCEPT ![search] = mu]
  /\ Returns
  /\ UNCHANGED <<params, step, e_min, e_max, edge, occ, rho>>

-----------------------------------------------------------------------------
(* What the drivers do with the levels.                                    *)

\* (mutant of LevelOf: the second call's level for both channels)
LevelOfLastCall(c) == fermi[search]

LevelOf(c) == fermi[CallOf(c)]

\* compute_occupations, in each channel at its own level.
Occupy ==
  /\ pc = "occupy"
  /\ occ' = [o \in Orbitals |-> occupation(evs[o], LevelOf(o[1]))]
  /\ pc' = "density"
  /\ UNCHANGED <<params, bisection, rho>>

\* (mutant of Skipped: the test turned into ! (f >= threshold))
SkippedUnlessAbove(o) == occ[o] = NaN \/ occ[o] <= 0

\* f < OCCUPATION_SKIP_THRESHOLD: nothing, or a negative occupation.
Skipped(o) == occ[o] # NaN /\ occ[o] <= 0

OrbitalsOf(c) == {c} \X States
Sum(S) == Total([o \in S |-> occ[o]])
Accumulated(c) == Sum({o \in OrbitalsOf(c) : ~ Skipped(o)})

\* What compute_density is told to normalise to: the cell's electrons, or in
\* driver_spin.rs the sum of the channel's own occupations.
n_el(c) == IF nspin = 1 THEN Electron * n_electrons ELSE Sum(OrbitalsOf(c))

\* integral.abs() > NORMALIZATION_INTEGRAL_FLOOR, which NaN is not.
Rescaled(c) ==
  IF Accumulated(c) = NaN \/ Accumulated(c) = 0 THEN Accumulated(c) ELSE n_el(c)

BuildDensity ==
  /\ pc = "density"
  /\ rho' = [c \in Channels |-> [raw |-> Accumulated(c), electrons |-> Rescaled(c)]]
  /\ pc' = "done"
  /\ UNCHANGED <<params, bisection, occ>>

Next ==
  \/ Bracket \/ BracketNothing \/ Bisect \/ ReturnLevel
  \/ Occupy \/ BuildDensity
Spec == Init /\ [][Next]_vars

-----------------------------------------------------------------------------
\* The variables hold values of their types; a channel's occupations stay
\* within [0, spin_factor], the range the code documents, in the schemes
\* without negative tails.
OccupationTypeOK ==
  /\ pc \in {"bracket", "bisect", "level", "occupy", "density", "done"}
  /\ search \in Calls /\ step \in 0 .. MaxSteps
  /\ \A s \in Search : e_min[s] \in Int /\ e_max[s] \in Int
  /\ \A s \in Search : fermi[s] \in Int \cup {NaN, None}
  /\ occ # None =>
       \A o \in Orbitals :
         IF scheme \in {"FermiDirac", "Gaussian"}
         THEN occ[o] \in 0 .. Full * spin_factor \cup {NaN}
         ELSE occ[o] \in Int \cup {NaN}

\* Whatever the scheme, Methfessel-Paxton and cold smearing with their
\* non-monotonic counts included, and whatever NaN the eigenvalues hold: the
\* lower end of the bracket counts too few electrons unless it has not moved,
\* and the upper end does not (smearing.rs:64).
BracketHolds ==
  \A s \in Calls :
    edge[s] # None =>
      /\ edge[s][1] <= e_min[s] /\ e_min[s] <= e_max[s] /\ e_max[s] <= edge[s][2]
      /\ e_min[s] = edge[s][1] \/ TooFew(s, e_min[s])
      /\ e_max[s] = edge[s][2] \/ ~ TooFew(s, e_max[s])

Returned(s) == fermi[s] \notin {None, NaN}
Capacity(s) == Total([o \in Counted(s) |-> Full * spin_factor])
Clean(s) == \A o \in Counted(s) : evs[o] # NaN

\* The first bracket reaches Margin from the outermost levels: where that is
\* ten sigma, Fermi-Dirac still counts 4.5e-5 of every state there.
Tails(s) == Total([o \in Counted(s) |-> 5 * spin_factor])
Attainable(s) == Tails(s) < Target(s) /\ Target(s) <= Capacity(s) - Tails(s)

\* No level counts the call's electrons: there are more of them than states, or
\* as many while Fermi-Dirac smearing leaves something of each state empty.
NeverEnough(s) ==
  /\ scheme \in {"FermiDirac", "Gaussian"}
  /\ \/ Capacity(s) < Target(s)
     \/ /\ smeared /\ scheme = "FermiDirac"
        /\ Capacity(s) = Target(s) /\ Margin <= FermiReach

\* Every level counts them: tot_magnetization takes all, or more.
AlwaysEnough(s) == scheme \in {"FermiDirac", "Gaussian"} /\ Target(s) <= 0

\* A search that can succeed does: the count passes the target within one unit
\* of the level.  One that cannot, because n_bands holds too few electrons or
\* tot_magnetization exceeds them, returns an end of its first bracket and
\* reports nothing: with all bands full, as validation lets them be, that is the
\* upper end under Fermi-Dirac smearing, where the electrons are not counted
\* either (smearing.rs:65-66,128).  With other schemes and a target within
\* 5e-5 of a full or an empty set of states, it depends on rounding.
LevelCarriesTheElectrons ==
  \A s \in Calls :
    Returned(s) /\ Clean(s) =>
      /\ Attainable(s) =>
           /\ TooFew(s, e_min[s]) /\ ~ TooFew(s, e_max[s])
           /\ e_max[s] = e_min[s] + 1 /\ fermi[s] \in e_min[s] .. e_max[s]
      /\ NeverEnough(s) =>
           /\ e_max[s] = edge[s][2] /\ TooFew(s, fermi[s])
           /\ fermi[s] \in edge[s][2] - 1 .. edge[s][2]
      /\ AlwaysEnough(s) =>
           /\ e_min[s] = edge[s][1] /\ ~ TooFew(s, fermi[s])
           /\ fermi[s] \in edge[s][1] .. edge[s][1] + 1

Negative(s) == \E o \in Counted(s) : occ[o] # NaN /\ occ[o] < 0

\* Electrons the densities of a call's channels hold without the silent
\* rescaling of driver.rs.
Held(s) ==
  IF nspin = 1 THEN rho["up"].raw
  ELSE IF \E c \in Channels : CallOf(c) = s /\ rho[c].electrons = NaN THEN NaN
  ELSE SumFunction([c \in {d \in Channels : CallOf(d) = s} |-> rho[c].electrons])

\* The density holds the electrons the Fermi search counted, in both channels
\* and with one level or two.  Only negative occupations, which the density
\* skips and the search does not (density.rs:72), make it hold more.
DensityHoldsTheCountedElectrons ==
  pc = "done" =>
    \A s \in Calls :
      Clean(s) =>
        IF Negative(s) THEN Held(s) >= Count(s, fermi[s])
                       ELSE Held(s) = Count(s, fermi[s])

\* A NaN eigenvalue makes its channel's density NaN if there is smearing, and
\* leaves it finite if there is none: the step function takes the orbital for
\* empty.
NaNReachesDensityIfSmeared ==
  pc = "done" =>
    \A c \in Channels :
      (rho[c].raw = NaN) = (smeared /\ \E o \in OrbitalsOf(c) : evs[o] = NaN)

\* smearing.rs:43: the level is such that the occupations add up to the
\* electrons.  Stated where it is exact: without smearing, and where some level
\* does count them, as one in the gap of an insulator.
LevelCountsElectrons ==
  \A s \in Calls :
    /\ Returned(s) /\ ~ smeared
    /\ Clean(s)
    /\ (\E mu \in edge[s][1] .. edge[s][2] : Count(s, mu) = Target(s))
    => Count(s, fermi[s]) = Target(s)
=============================================================================
