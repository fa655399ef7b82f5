-------------------------- MODULE SpaceGroupProofs --------------------------
(***************************************************************************)
(* The integer matrices of determinant 1 or -1 are a group, and so are     *)
(* those that preserve a metric.  Where the search radius covers the cell  *)
(* the detection finds all of them; in a primitive cell it finds every     *)
(* operation of the cell, and these are a group, too.  What preserves the  *)
(* metric acts on the reciprocal lattice as well, and on its residues      *)
(* modulo a grid that it maps onto itself.                                 *)
(***************************************************************************)
EXTENDS SpaceGroup, IntegerFolds

-----------------------------------------------------------------------------
(* Division with remainder.                                                *)
LEMMA DivMod ==
  ASSUME NEW a \in Int, NEW b \in Nat \ {0}
  PROVE  /\ a \div b \in Int /\ a % b \in Int
         /\ a = b * (a \div b) + (a % b)
         /\ 0 <= a % b /\ a % b < b
OBVIOUS

(* The quotient and the remainder are determined.                          *)
LEMMA DivModUnique ==
  ASSUME NEW q \in Int, NEW r \in Int, NEW b \in Nat \ {0}, 0 <= r, r < b
  PROVE  (b * q + r) \div b = q /\ (b * q + r) % b = r
OBVIOUS

(* Whole periods do not change a residue.                                  *)
LEMMA ModOfShift ==
  ASSUME NEW n \in Nat \ {0}, NEW i \in 0 .. n - 1, NEW t \in Int
  PROVE  (i - n * t) % n = i
<1> DEFINE q == -t
<1>1. q \in Int /\ i - n * t = n * q + i
  OBVIOUS
<1> HIDE DEF q
<1> QED BY <1>1, DivModUnique

(* A product grows with its factor.                                        *)
LEMMA TimesMonotone ==
  ASSUME NEW a \in Int, NEW b \in Int, NEW c \in Nat, a <= b
  PROVE  a * c <= b * c
OBVIOUS
-----------------------------------------------------------------------------
(* A matrix of integers.                                                   *)
IsMatrix(r) == \A i, j \in Axes : r[i][j] \in Int
IsVector(f) == \A j \in Axes : f[j] \in Int

(* The nine entries of a matrix.                                           *)
LEMMA MatrixEntries ==
  ASSUME NEW r, IsMatrix(r)
  PROVE  /\ r[1][1] \in Int /\ r[1][2] \in Int /\ r[1][3] \in Int
         /\ r[2][1] \in Int /\ r[2][2] \in Int /\ r[2][3] \in Int
         /\ r[3][1] \in Int /\ r[3][2] \in Int /\ r[3][3] \in Int
BY DEF IsMatrix, Axes

(* Minors of an integer matrix are integers.                               *)
LEMMA CofactorIsInt ==
  ASSUME NEW r, IsMatrix(r), NEW i \in Axes, NEW j \in Axes
  PROVE  Cofactor(r, i, j) \in Int
<1>1. \A a \in Axes : (a % 3) + 1 \in Axes
  BY DEF Axes
<1> QED BY <1>1 DEF Cofactor, IsMatrix

(* So is the determinant, and the matrix that acts on k-points.            *)
LEMMA InverseTransposeIsMatrix ==
  ASSUME NEW r, IsMatrix(r)
  PROVE  IsMatrix(InverseTranspose(r))
<1>1. Det(r) \in Int
  BY CofactorIsInt, MatrixEntries DEF Det, Axes
<1>2. ASSUME NEW i \in Axes, NEW j \in Axes
      PROVE  InverseTranspose(r)[i][j] \in Int
  <2>1. InverseTranspose(r)[i][j] = Det(r) * Cofactor(r, i, j)
    BY DEF InverseTranspose, Transpose, InverseRotation
  <2>2. Cofactor(r, i, j) \in Int
    BY CofactorIsInt
  <2> QED BY <1>1, <2>1, <2>2
<1> QED BY <1>2 DEF IsMatrix

(* An integer matrix takes integer vectors to integer vectors.             *)
LEMMA ApplyIsVector ==
  ASSUME NEW r, IsMatrix(r), NEW f, IsVector(f)
  PROVE  IsVector(Apply(r, f))
<1>1. f[1] \in Int /\ f[2] \in Int /\ f[3] \in Int
  BY DEF IsVector, Axes
<1>2. ASSUME NEW i \in Axes PROVE Apply(r, f)[i] \in Int
  <2>1. r[i][1] \in Int /\ r[i][2] \in Int /\ r[i][3] \in Int
    BY DEF IsMatrix, Axes
  <2>2. Apply(r, f)[i] = r[i][1] * f[1] + r[i][2] * f[2] + r[i][3] * f[3]
    BY DEF Apply
  <2> QED BY <1>1, <2>1, <2>2
<1> QED BY <1>2 DEF IsVector

(* The identity is its own inverse transpose and moves nothing.            *)
LEMMA IdentityActs ==
  ASSUME NEW f, IsVector(f)
  PROVE  \A j \in Axes : Apply(InverseTranspose(Identity), f)[j] = f[j]
<1> DEFINE e == InverseTranspose(Identity)
<1>1. \A i, j \in Axes : e[i][j] = Det(Identity) * Cofactor(Identity, i, j)
  BY DEF InverseTranspose, Transpose, InverseRotation
<1>2. \A i, j \in Axes : Cofactor(Identity, i, j) = IF i = j THEN 1 ELSE 0
  BY DEF Cofactor, Identity, Axes
<1>3. Det(Identity) = 1
  BY <1>2 DEF Det, Identity, Axes
<1>4. \A i, j \in Axes : e[i][j] = IF i = j THEN 1 ELSE 0
  BY <1>1, <1>2, <1>3
<1>5. \A i \in Axes : Apply(e, f)[i] = e[i][1] * f[1] + e[i][2] * f[2] + e[i][3] * f[3]
  BY DEF Apply
<1>6. f[1] \in Int /\ f[2] \in Int /\ f[3] \in Int
  BY DEF IsVector, Axes
<1> HIDE DEF e
<1>7. /\ Apply(e, f)[1] = f[1] /\ Apply(e, f)[2] = f[2] /\ Apply(e, f)[3] = f[3]
  BY <1>4, <1>5, <1>6 DEF Axes
<1> QED BY <1>7 DEF Axes, e

(* Whatever the metric, detected rotations are integer matrices.           *)
LEMMA DetectedAreMatrices ==
  ASSUME NEW c, NEW op \in FindSymmetryOperations(c)
  PROVE  IsMatrix(op.rotation)
<1>1. PICK r \in MetricPreservingRotations(c.metric) : op.rotation = r
  BY DEF FindSymmetryOperations, Operation
<1>2. PICK v \in CandidateVectors(c.metric, 1) \X CandidateVectors(c.metric, 2)
                   \X CandidateVectors(c.metric, 3) : r = Transpose(v)
  BY DEF MetricPreservingRotations
<1>3. ASSUME NEW j \in Axes, NEW u \in CandidateVectors(c.metric, j)
      PROVE  u[1] \in Int /\ u[2] \in Int /\ u[3] \in Int
  BY DEF CandidateVectors
<1>4. /\ v[1] \in CandidateVectors(c.metric, 1)
      /\ v[2] \in CandidateVectors(c.metric, 2)
      /\ v[3] \in CandidateVectors(c.metric, 3)
  BY <1>2
<1>5. \A i, j \in Axes : r[i][j] = v[j][i]
  BY <1>2 DEF Transpose
<1>6. \A i, j \in Axes : v[j][i] \in Int
  BY <1>3, <1>4 DEF Axes
<1> QED BY <1>1, <1>5, <1>6 DEF IsMatrix

(* The identity operation is an integer matrix too.                        *)
LEMMA IdentityIsMatrix == IsMatrix(IdentityOp.rotation) /\ IdentityOp.rotation = Identity
BY DEF IdentityOp, Operation, Identity, IsMatrix, Axes
-----------------------------------------------------------------------------
(* Determinants and inverses.                                              *)

(* Expanding a determinant by its rows.                                    *)
LEMMA RowExpansion ==
  ASSUME NEW r, IsMatrix(r), NEW i \in Axes, NEW j \in Axes
  PROVE  Cofactor(r, i, 1) * r[j][1] + Cofactor(r, i, 2) * r[j][2]
           + Cofactor(r, i, 3) * r[j][3] = IF i = j THEN Det(r) ELSE 0
<1> DEFINE a == r[1][1]  b == r[1][2]  c == r[1][3]
           d == r[2][1]  e == r[2][2]  f == r[2][3]
           g == r[3][1]  h == r[3][2]  k == r[3][3]
<1>1. /\ a \in Int /\ b \in Int /\ c \in Int
      /\ d \in Int /\ e \in Int /\ f \in Int
      /\ g \in Int /\ h \in Int /\ k \in Int
  BY MatrixEntries
<1>2. /\ Cofactor(r, 1, 1) = e * k - f * h
      /\ Cofactor(r, 1, 2) = f * g - d * k
      /\ Cofactor(r, 1, 3) = d * h - e * g
      /\ Cofactor(r, 2, 1) = h * c - k * b
      /\ Cofactor(r, 2, 2) = k * a - g * c
      /\ Cofactor(r, 2, 3) = g * b - h * a
      /\ Cofactor(r, 3, 1) = b * f - c * e
      /\ Cofactor(r, 3, 2) = c * d - a * f
      /\ Cofactor(r, 3, 3) = a * e - b * d
  BY DEF Cofactor
<1>3. Det(r) = a * (e * k - f * h) + b * (f * g - d * k) + c * (d * h - e * g)
  BY <1>2 DEF Det
<1> HIDE DEF a, b, c, d, e, f, g, h, k
<1>4. CASE i = 1
  <2>1. (e * k - f * h) * a + (f * g - d * k) * b + (d * h - e * g) * c = Det(r)
    BY <1>1, <1>3
  <2>2. (e * k - f * h) * d + (f * g - d * k) * e + (d * h - e * g) * f = 0
    BY <1>1
  <2>3. (e * k - f * h) * g + (f * g - d * k) * h + (d * h - e * g) * k = 0
    BY <1>1
  <2> QED BY <1>2, <1>4, <2>1, <2>2, <2>3 DEF Axes, a, b, c, d, e, f, g, h, k
<1>5. CASE i = 2
  <2>1. (h * c - k * b) * a + (k * a - g * c) * b + (g * b - h * a) * c = 0
    BY <1>1
  <2>2. (h * c - k * b) * d + (k * a - g * c) * e + (g * b - h * a) * f = Det(r)
    BY <1>1, <1>3
  <2>3. (h * c - k * b) * g + (k * a - g * c) * h + (g * b - h * a) * k = 0
    BY <1>1
  <2> QED BY <1>2, <1>5, <2>1, <2>2, <2>3 DEF Axes, a, b, c, d, e, f, g, h, k
<1>6. CASE i = 3
  <2>1. (b * f - c * e) * a + (c * d - a * f) * b + (a * e - b * d) * c = 0
    BY <1>1
  <2>2. (b * f - c * e) * d + (c * d - a * f) * e + (a * e - b * d) * f = 0
    BY <1>1
  <2>3. (b * f - c * e) * g + (c * d - a * f) * h + (a * e - b * d) * k = Det(r)
    BY <1>1, <1>3
  <2> QED BY <1>2, <1>6, <2>1, <2>2, <2>3 DEF Axes, a, b, c, d, e, f, g, h, k
<1> QED BY <1>4, <1>5, <1>6 DEF Axes

(* Every rotation the code works with has determinant 1 or -1.             *)
IsUnimodular(r) == IsMatrix(r) /\ Det(r) \in {1, -1}

(* The detection keeps no other.                                           *)
LEMMA DetectedAreUnimodular ==
  ASSUME NEW c, NEW op \in FindSymmetryOperations(c)
  PROVE  IsUnimodular(op.rotation)
<1>1. PICK r \in MetricPreservingRotations(c.metric) : op.rotation = r
  BY DEF FindSymmetryOperations, Operation
<1>2. PICK v : r = Transpose(v) /\ PreservesMetric(v, c.metric)
  BY DEF MetricPreservingRotations
<1>3. Det(op.rotation) \in {1, -1}
  BY <1>1, <1>2 DEF PreservesMetric
<1> QED BY <1>3, DetectedAreMatrices DEF IsUnimodular

(* The identity has determinant 1.                                         *)
LEMMA IdentityIsUnimodular == IsUnimodular(IdentityOp.rotation)
<1>1. Det(Identity) = 1
  BY DEF Det, Identity, Cofactor
<1> QED BY <1>1, IdentityIsMatrix DEF IsUnimodular

(* The matrix that acts on k-points is undone by that of the inverse       *)
(* rotation, if the latter is unimodular, too.                             *)
LEMMA InverseUndoes ==
  ASSUME NEW r, IsMatrix(r), IsUnimodular(InverseRotation(r)), NEW f, IsVector(f),
         NEW i \in Axes
  PROVE  Apply(InverseTranspose(InverseRotation(r)), Apply(InverseTranspose(r), f))[i] = f[i]
<1> DEFINE s == InverseRotation(r)
           C == InverseTranspose(r)
           D == InverseTranspose(s)
           d == Det(s)
           g == Apply(C, f)
<1>1. IsMatrix(s) /\ IsMatrix(D) /\ IsMatrix(C) /\ d \in Int /\ d * d = 1
  BY InverseTransposeIsMatrix DEF IsUnimodular
<1>2. \A k, j \in Axes : C[k][j] = s[j][k]
  BY DEF InverseTranspose, Transpose
<1>3. \A k \in Axes : D[i][k] = d * Cofactor(s, i, k)
  BY DEF InverseTranspose, Transpose, InverseRotation
<1>4. Apply(D, g)[i] = D[i][1] * g[1] + D[i][2] * g[2] + D[i][3] * g[3]
  BY DEF Apply
<1>5. \A k \in Axes : g[k] = C[k][1] * f[1] + C[k][2] * f[2] + C[k][3] * f[3]
  BY DEF Apply
<1> HIDE DEF C, D, g, d
<1>6. \A j \in Axes : Cofactor(s, i, 1) * s[j][1] + Cofactor(s, i, 2) * s[j][2]
                        + Cofactor(s, i, 3) * s[j][3] = IF i = j THEN d ELSE 0
  BY <1>1, RowExpansion DEF d
<1> HIDE DEF s
<1> DEFINE P(j) == D[i][1] * C[1][j] + D[i][2] * C[2][j] + D[i][3] * C[3][j]
<1>7. ASSUME NEW j \in Axes PROVE P(j) = IF i = j THEN 1 ELSE 0
  <2> DEFINE x == Cofactor(s, i, 1)  y == Cofactor(s, i, 2)  z == Cofactor(s, i, 3)
             u == s[j][1]  v == s[j][2]  w == s[j][3]
  <2>1. /\ x \in Int /\ y \in Int /\ z \in Int
        /\ u \in Int /\ v \in Int /\ w \in Int
    BY <1>1, CofactorIsInt DEF IsMatrix, Axes
  <2>2. P(j) = d * x * u + d * y * v + d * z * w
    BY <1>2, <1>3 DEF Axes
  <2>3. x * u + y * v + z * w = IF i = j THEN d ELSE 0
    BY <1>6
  <2> HIDE DEF x, y, z, u, v, w, P
  <2>4. d * x * u + d * y * v + d * z * w = d * (x * u + y * v + z * w)
    BY <1>1, <2>1
  <2> QED BY <1>1, <2>2, <2>3, <2>4
<1> DEFINE a == f[1]  b == f[2]  c == f[3]
           p == D[i][1]  q == D[i][2]  t == D[i][3]
<1>8. /\ a \in Int /\ b \in Int /\ c \in Int
      /\ p \in Int /\ q \in Int /\ t \in Int
      /\ \A k, j \in Axes : C[k][j] \in Int
  BY <1>1 DEF IsVector, IsMatrix, Axes
<1>9. Apply(D, g)[i] = p * (C[1][1] * a + C[1][2] * b + C[1][3] * c)
                        + q * (C[2][1] * a + C[2][2] * b + C[2][3] * c)
                        + t * (C[3][1] * a + C[3][2] * b + C[3][3] * c)
  BY <1>4, <1>5 DEF Axes
<1>10. /\ P(1) = p * C[1][1] + q * C[2][1] + t * C[3][1]
       /\ P(2) = p * C[1][2] + q * C[2][2] + t * C[3][2]
       /\ P(3) = p * C[1][3] + q * C[2][3] + t * C[3][3]
  OBVIOUS
<1>11. /\ P(1) = IF i = 1 THEN 1 ELSE 0
       /\ P(2) = IF i = 2 THEN 1 ELSE 0
       /\ P(3) = IF i = 3 THEN 1 ELSE 0
  BY <1>7 DEF Axes
<1> DEFINE c11 == C[1][1]  c12 == C[1][2]  c13 == C[1][3]
           c21 == C[2][1]  c22 == C[2][2]  c23 == C[2][3]
           c31 == C[3][1]  c32 == C[3][2]  c33 == C[3][3]
           l == Apply(D, g)[i]
<1>12. /\ c11 \in Int /\ c12 \in Int /\ c13 \in Int
       /\ c21 \in Int /\ c22 \in Int /\ c23 \in Int
       /\ c31 \in Int /\ c32 \in Int /\ c33 \in Int
  BY <1>8 DEF Axes
<1>13. /\ p * c11 + q * c21 + t * c31 = IF i = 1 THEN 1 ELSE 0
       /\ p * c12 + q * c22 + t * c32 = IF i = 2 THEN 1 ELSE 0
       /\ p * c13 + q * c23 + t * c33 = IF i = 3 THEN 1 ELSE 0
       /\ l = p * (c11 * a + c12 * b + c13 * c) + q * (c21 * a + c22 * b + c23 * c)
                + t * (c31 * a + c32 * b + c33 * c)
  BY <1>9, <1>10, <1>11
<1>14. (i = 1 /\ f[i] = a) \/ (i = 2 /\ f[i] = b) \/ (i = 3 /\ f[i] = c)
  BY DEF Axes
<1> HIDE DEF a, b, c, p, q, t, c11, c12, c13, c21, c22, c23, c31, c32, c33, l, P
<1>15. l = (p * c11 + q * c21 + t * c31) * a + (p * c12 + q * c22 + t * c32) * b
             + (p * c13 + q * c23 + t * c33) * c
  BY <1>8, <1>12, <1>13
<1>16. l = f[i]
  BY <1>8, <1>13, <1>14, <1>15
<1> QED BY <1>16 DEF l, g, D, C, s

(* A residue forgets whole periods.                                        *)
LEMMA ResidueOfSum ==
  ASSUME NEW n \in Nat \ {0}, NEW x \in Int, NEW t \in Int
  PROVE  (x + n * t) % n = x % n
<1> DEFINE q == x \div n
           r == x % n
<1>1. q \in Int /\ r \in Int /\ x = n * q + r /\ 0 <= r /\ r < n
  BY DivMod
<1> HIDE DEF q, r
<1> DEFINE s == q + t
<1>2. s \in Int /\ x + n * t = n * s + r
  BY <1>1
<1> HIDE DEF s
<1>3. (x + n * t) % n = r
  BY <1>1, <1>2, DivModUnique
<1> QED BY <1>3 DEF r

(* Equal residues differ by whole periods.                                 *)
LEMMA EqualResidues ==
  ASSUME NEW n \in Nat \ {0}, NEW x \in Int, NEW y \in Int, x % n = y % n
  PROVE  \E t \in Int : x = y + n * t
<1> DEFINE a == x \div n
           b == y \div n
           r == x % n
<1>1. a \in Int /\ b \in Int /\ r \in Int /\ x = n * a + r /\ y = n * b + r
  BY DivMod
<1> HIDE DEF a, b, r
<1>2. a - b \in Int /\ x = y + n * (a - b)
  BY <1>1
<1> QED BY <1>2
-----------------------------------------------------------------------------
(* The identity is always detected.                                        *)

(* A crystal as CrystalAssumption has them.                                *)
IsMetric(m) ==
  /\ m \in [Axes -> [Axes -> Int]]
  /\ \A i, j \in Axes : m[i][j] = m[j][i]
  /\ \A i \in Axes : m[i][i] > 0

(* The search radius is defined: it exceeds the quotient of the lengths.   *)
LEMMA RadiusIsDefined ==
  ASSUME NEW t \in Nat \ {0}, NEW d \in Nat \ {0}
  PROVE  /\ SearchRadius(t, d) \in 1 .. t + 2
         /\ (2 * SearchRadius(t, d) - 1) * (2 * SearchRadius(t, d) - 1) * d > 4 * t
<1> DEFINE Q(r) == (2 * r - 1) * (2 * r - 1) * d
           S == {r \in 1 .. t + 2 : Q(r) > 4 * t}
           m == Min(S)
<1>1. t + 2 \in S
  <2> DEFINE y == (2 * t + 3) * (2 * t + 3)
  <2>1. y \in Nat /\ y > 4 * t
    OBVIOUS
  <2>2. 2 * (t + 2) - 1 = 2 * t + 3
    OBVIOUS
  <2>3. Q(t + 2) = y * d
    BY <2>2
  <2> HIDE DEF y
  <2>4. y * d >= y
    BY <2>1
  <2>5. Q(t + 2) > 4 * t /\ t + 2 \in 1 .. t + 2
    BY <2>1, <2>3, <2>4
  <2> QED BY <2>5
<1>2. S \in SUBSET Int /\ IsFiniteSet(S) /\ S # {}
  <2>1. IsFiniteSet(1 .. t + 2)
    <3>1. 1 \in Int /\ t + 2 \in Int
      OBVIOUS
    <3> QED BY <3>1, FS_Interval
  <2>2. S \subseteq 1 .. t + 2 /\ S \subseteq Int
    OBVIOUS
  <2> HIDE DEF S
  <2> QED BY <1>1, <2>1, <2>2, FS_Subset
<1>3. m \in S /\ \A y \in S : m <= y
  <2> HIDE DEF S
  <2> QED BY <1>2, MinExists
<1> HIDE DEF m
<1>4. m \in 1 .. t + 2 /\ Q(m) > 4 * t
  BY <1>3
<1>5. m = 1 \/ (2 * m - 3) * (2 * m - 3) * d <= 4 * t
  <2> SUFFICES ASSUME m # 1 PROVE (2 * m - 3) * (2 * m - 3) * d <= 4 * t
    OBVIOUS
  <2>1. m - 1 \in 1 .. t + 2 /\ ~ (m <= m - 1) /\ 2 * (m - 1) - 1 = 2 * m - 3
    BY <1>4
  <2>2. ~ (Q(m - 1) > 4 * t)
    BY <1>3, <2>1
  <2>3. Q(m - 1) = (2 * m - 3) * (2 * m - 3) * d
    BY <2>1
  <2> DEFINE x == (2 * m - 3) * (2 * m - 3) * d
  <2>4. x \in Int
    BY <1>4
  <2> HIDE DEF x, Q
  <2> QED BY <2>2, <2>3, <2>4 DEF x
<1>6. \E r \in 1 .. t + 2 :
        /\ r = 1 \/ (2 * r - 3) * (2 * r - 3) * d <= 4 * t
        /\ (2 * r - 1) * (2 * r - 1) * d > 4 * t
  BY <1>4, <1>5
<1> QED BY <1>6 DEF SearchRadius

(* The columns of the identity are the unit vectors.                       *)
LEMMA IdentityIsSymmetric == Transpose(Identity) = Identity
<1>1. /\ [j \in Axes |-> Identity[j][1]] = <<1, 0, 0>>
      /\ [j \in Axes |-> Identity[j][2]] = <<0, 1, 0>>
      /\ [j \in Axes |-> Identity[j][3]] = <<0, 0, 1>>
  BY DEF Identity, Axes
<1>2. Transpose(Identity) = <<[j \in Axes |-> Identity[j][1]], [j \in Axes |-> Identity[j][2]],
                              [j \in Axes |-> Identity[j][3]]>>
  BY DEF Transpose, Axes
<1> QED BY <1>1, <1>2 DEF Identity

(* They are as long as the basis vectors, and at their angles.             *)
LEMMA IdentityPreservesMetric ==
  ASSUME NEW m, IsMetric(m)
  PROVE  Identity \in MetricPreservingRotations(m)
<1>1. \A i, j \in Axes : m[i][j] \in Int /\ m[i][i] \in Nat \ {0}
  BY DEF IsMetric
<1>2. \A i, j \in Axes : DotMetric(Identity[i], Identity[j], m) = m[i][j]
  <2>1. \A d : \A i \in Axes : Apply(m, d)[i] = m[i][1] * d[1] + m[i][2] * d[2] + m[i][3] * d[3]
    BY DEF Apply
  <2>2. \A j \in Axes : \A i \in Axes : Apply(m, Identity[j])[i] = m[i][j]
    BY <1>1, <2>1 DEF Identity, Axes
  <2>3. \A c, d : DotMetric(c, d, m)
          = c[1] * Apply(m, d)[1] + c[2] * Apply(m, d)[2] + c[3] * Apply(m, d)[3]
    BY DEF DotMetric
  <2>4. \A i, j \in Axes : DotMetric(Identity[i], Identity[j], m)
          = Identity[i][1] * m[1][j] + Identity[i][2] * m[2][j] + Identity[i][3] * m[3][j]
    BY <2>2, <2>3 DEF Axes
  <2> QED BY <1>1, <2>4 DEF Identity, Axes
<1>3. ASSUME NEW j \in Axes PROVE Identity[j] \in CandidateVectors(m, j)
  <2> DEFINE r(i) == SearchRadius(m[j][j], m[i][i])
  <2>1. \A i \in Axes : r(i) \in Nat \ {0}
    BY <1>1, RadiusIsDefined
  <2>2. \A i \in Axes : {-1, 0, 1} \subseteq (-r(i)) .. r(i)
    <3> HIDE DEF r
    <3> QED BY <2>1
  <2>3. Identity[j] \in {-1, 0, 1} \X {-1, 0, 1} \X {-1, 0, 1}
    BY DEF Identity, Axes
  <2>4. Identity[j] \in ((-r(1)) .. r(1)) \X ((-r(2)) .. r(2)) \X ((-r(3)) .. r(3))
    <3> HIDE DEF r
    <3> QED BY <2>2, <2>3 DEF Axes
  <2> QED BY <1>2, <2>4 DEF CandidateVectors
<1>4. PreservesMetric(Identity, m)
  BY <1>2, IdentityIsSymmetric, IdentityIsUnimodular, IdentityIsMatrix
     DEF PreservesMetric, IsUnimodular, Axes
<1>5. Identity \in CandidateVectors(m, 1) \X CandidateVectors(m, 2) \X CandidateVectors(m, 3)
  BY <1>3 DEF Identity, Axes
<1> QED BY <1>4, <1>5, IdentityIsSymmetric DEF MetricPreservingRotations

Atom == [z : Nat, position : [Axes -> Int]]

(* The identity matrix moves no vector.                                    *)
LEMMA IdentityFixes ==
  ASSUME NEW f, IsVector(f), NEW i \in Axes
  PROVE  Apply(Identity, f)[i] = f[i]
<1>1. f[1] \in Int /\ f[2] \in Int /\ f[3] \in Int
  BY DEF IsVector, Axes
<1>2. Apply(Identity, f)[i]
        = Identity[i][1] * f[1] + Identity[i][2] * f[2] + Identity[i][3] * f[3]
  BY DEF Apply
<1>3. Identity[i][1] * f[1] + Identity[i][2] * f[2] + Identity[i][3] * f[3] = f[i]
  BY <1>1 DEF Identity, Axes
<1> QED BY <1>2, <1>3

(* It has a translation, and the first that works is zero.                 *)
LEMMA IdentityTranslation ==
  ASSUME NEW atoms \in Seq(Atom), atoms # <<>>
  PROVE  /\ HasTranslation(atoms, Identity)
         /\ Translation(atoms, Identity) = [i \in Axes |-> 0]
<1>1. Len(atoms) \in Nat /\ 1 \in DOMAIN atoms /\ DOMAIN atoms = 1 .. Len(atoms)
  OBVIOUS
<1>2. \A k \in DOMAIN atoms : IsVector(atoms[k].position)
  <2>1. \A k \in DOMAIN atoms : atoms[k] \in Atom
    BY <1>1
  <2> QED BY <2>1 DEF Atom, IsVector
<1> DEFINE zero == [i \in Axes |-> 0]
<1>3. \A n \in Nat \ {0} : 0 % n = 0
  OBVIOUS
<1>4. \A x \in Int : x + (-x) = 0 /\ x + 0 = x
  OBVIOUS
<1>5. TranslationTo(atoms, Identity, 1) = zero
  <2> DEFINE x == atoms[1].position
  <2>1. \A i \in Axes : (x[i] + (- Apply(Identity, x)[i])) % Unit = 0
    <3>1. ASSUME NEW i \in Axes PROVE (x[i] + (- Apply(Identity, x)[i])) % Unit = 0
      <4>1. x[i] \in Int /\ Apply(Identity, x)[i] = x[i]
        BY <1>1, <1>2, IdentityFixes DEF IsVector
      <4> QED BY <1>3, <1>4, <4>1, UnitAssumption
    <3> QED BY <3>1
  <2> QED BY <2>1 DEF TranslationTo, Wrap, Plus, Negated
<1> HIDE DEF zero
<1>6. AllAtomsMap(atoms, Identity, zero)
  <2>1. ASSUME NEW k \in DOMAIN atoms
        PROVE  Wrap(Plus(Apply(Identity, atoms[k].position), zero)) = Wrap(atoms[k].position)
    <3> DEFINE x == atoms[k].position
    <3>1. \A i \in Axes : Apply(Identity, x)[i] + zero[i] = x[i]
      <4>1. \A i \in Axes : x[i] \in Int /\ Apply(Identity, x)[i] = x[i]
        BY <1>2, IdentityFixes DEF IsVector
      <4> QED BY <1>4, <4>1 DEF zero
    <3> QED BY <3>1 DEF Wrap, Plus
  <2> QED BY <2>1 DEF AllAtomsMap
<1>7. 1 \in Targets(atoms, Identity) /\ \A j \in Targets(atoms, Identity) : j \in Nat /\ 1 <= j
  BY <1>1, <1>5, <1>6 DEF Targets
<1> DEFINE T == Targets(atoms, Identity)
           f == CHOOSE i \in T : \A j \in T : i <= j
<1> HIDE DEF T
<1>8. f = 1
  <2>1. f \in T /\ \A j \in T : f <= j
    BY <1>7 DEF T
  <2> HIDE DEF f
  <2> QED BY <1>7, <2>1 DEF T
<1>9. Translation(atoms, Identity) = TranslationTo(atoms, Identity, f)
  BY DEF Translation, T
<1> QED BY <1>5, <1>7, <1>8, <1>9 DEF HasTranslation, zero

(* So the detection finds the identity in every crystal, with atoms or     *)
(* without.                                                                *)
LEMMA IdentityIsDetected ==
  ASSUME NEW c, IsMetric(c.metric), c.atoms \in Seq(Atom)
  PROVE  IdentityOp \in FindSymmetryOperations(c)
<1> DEFINE tau == Translation(c.atoms, Identity)
<1>1. HasTranslation(c.atoms, Identity) /\ \A i \in Axes : tau[i] = 0
  <2>1. CASE c.atoms = <<>>
    BY <2>1 DEF HasTranslation, Translation, Axes
  <2>2. CASE c.atoms # <<>>
    BY <2>2, IdentityTranslation
  <2> QED BY <2>1, <2>2
<1>2. Wrap(tau) = Wrap(<<0, 0, 0>>)
  BY <1>1 DEF Wrap, Axes
<1>3. Operation(Identity, tau) = IdentityOp
  BY <1>2 DEF Operation, IdentityOp
<1> QED BY <1>1, <1>3, IdentityPreservesMetric DEF FindSymmetryOperations
-----------------------------------------------------------------------------
(* The integer matrices of determinant 1 or -1 are a group.                *)

Matrix == [Axes -> [Axes -> Int]]

(* A matrix is determined by its entries.                                  *)
LEMMA MatrixEqual ==
  ASSUME NEW a \in Matrix, NEW b \in Matrix, \A i, j \in Axes : a[i][j] = b[i][j]
  PROVE  a = b
<1>1. ASSUME NEW i \in Axes PROVE a[i] = b[i]
  <2>1. a[i] \in [Axes -> Int] /\ b[i] \in [Axes -> Int]
    BY DEF Matrix
  <2> QED BY <2>1
<1> QED BY <1>1 DEF Matrix

(* Composition multiplies rows by columns.                                 *)
LEMMA ProductEntries ==
  ASSUME NEW a, IsMatrix(a), NEW b, IsMatrix(b)
  PROVE  /\ Product(a, b) \in Matrix /\ IsMatrix(Product(a, b))
         /\ \A i, j \in Axes :
              Product(a, b)[i][j] = a[i][1] * b[1][j] + a[i][2] * b[2][j] + a[i][3] * b[3][j]
<1> DEFINE column(j) == Apply(a, Transpose(b)[j])
<1>1. \A j \in Axes : IsVector(Transpose(b)[j])
  BY DEF IsMatrix, IsVector, Transpose
<1>2. \A j \in Axes : IsVector(column(j))
  BY <1>1, ApplyIsVector
<1>3. \A i, j \in Axes : column(j)[i] = a[i][1] * b[1][j] + a[i][2] * b[2][j] + a[i][3] * b[3][j]
  BY DEF Apply, Transpose, Axes
<1>4. Product(a, b) = [i \in Axes |-> [j \in Axes |-> column(j)[i]]]
  BY DEF Product, Transpose
<1> HIDE DEF column
<1>5. \A i, j \in Axes : Product(a, b)[i][j] = column(j)[i] /\ column(j)[i] \in Int
  BY <1>2, <1>4 DEF IsVector
<1> QED BY <1>3, <1>4, <1>5 DEF Matrix, IsMatrix

(* It is one matrix acting after the other.                                *)
LEMMA ProductActs ==
  ASSUME NEW a, IsMatrix(a), NEW b, IsMatrix(b), NEW f, IsVector(f), NEW i \in Axes
  PROVE  Apply(Product(a, b), f)[i] = Apply(a, Apply(b, f))[i]
<1> DEFINE P == Product(a, b)
           g == Apply(b, f)
           x == f[1]  y == f[2]  z == f[3]
           p == a[i][1]  q == a[i][2]  r == a[i][3]
<1>1. \A j \in Axes : P[i][j] = p * b[1][j] + q * b[2][j] + r * b[3][j]
  BY ProductEntries
<1>2. Apply(P, f)[i] = P[i][1] * x + P[i][2] * y + P[i][3] * z
  BY DEF Apply
<1>3. Apply(a, g)[i] = p * g[1] + q * g[2] + r * g[3]
  BY DEF Apply
<1>4. \A j \in Axes : g[j] = b[j][1] * x + b[j][2] * y + b[j][3] * z
  BY DEF Apply
<1>5. /\ x \in Int /\ y \in Int /\ z \in Int /\ p \in Int /\ q \in Int /\ r \in Int
  BY DEF IsVector, IsMatrix, Axes
<1> HIDE DEF P, g, x, y, z, p, q, r
<1> DEFINE b11 == b[1][1]  b12 == b[1][2]  b13 == b[1][3]
           b21 == b[2][1]  b22 == b[2][2]  b23 == b[2][3]
           b31 == b[3][1]  b32 == b[3][2]  b33 == b[3][3]
<1>6. /\ b11 \in Int /\ b12 \in Int /\ b13 \in Int
      /\ b21 \in Int /\ b22 \in Int /\ b23 \in Int
      /\ b31 \in Int /\ b32 \in Int /\ b33 \in Int
  BY MatrixEntries
<1>7. /\ Apply(P, f)[i] = (p * b11 + q * b21 + r * b31) * x
           + (p * b12 + q * b22 + r * b32) * y + (p * b13 + q * b23 + r * b33) * z
      /\ Apply(a, g)[i] = p * (b11 * x + b12 * y + b13 * z)
           + q * (b21 * x + b22 * y + b23 * z) + r * (b31 * x + b32 * y + b33 * z)
  BY <1>1, <1>2, <1>3, <1>4 DEF Axes
<1> HIDE DEF b11, b12, b13, b21, b22, b23, b31, b32, b33
<1>8. Apply(P, f)[i] = Apply(a, g)[i]
  BY <1>5, <1>6, <1>7
<1> QED BY <1>8 DEF P, g

(* The determinant by the entries.                                         *)
LEMMA DetByEntries ==
  ASSUME NEW r
  PROVE  Det(r) = r[1][1] * (r[2][2] * r[3][3] - r[2][3] * r[3][2])
                + r[1][2] * (r[2][3] * r[3][1] - r[2][1] * r[3][3])
                + r[1][3] * (r[2][1] * r[3][2] - r[2][2] * r[3][1])
BY DEF Det, Cofactor

(* The determinant of a product is the product of the determinants.        *)
LEMMA DetOfProduct ==
  ASSUME NEW r, IsMatrix(r), NEW s, IsMatrix(s)
  PROVE  Det(Product(r, s)) = Det(r) * Det(s)
<1> DEFINE a == r[1][1]  b == r[1][2]  c == r[1][3]
           d == r[2][1]  e == r[2][2]  f == r[2][3]
           g == r[3][1]  h == r[3][2]  k == r[3][3]
           A == s[1][1]  B == s[1][2]  C == s[1][3]
           D == s[2][1]  E == s[2][2]  F == s[2][3]
           G == s[3][1]  H == s[3][2]  K == s[3][3]
           P == Product(r, s)
<1>1. /\ a \in Int /\ b \in Int /\ c \in Int
      /\ d \in Int /\ e \in Int /\ f \in Int
      /\ g \in Int /\ h \in Int /\ k \in Int
  BY MatrixEntries
<1>2. /\ A \in Int /\ B \in Int /\ C \in Int
      /\ D \in Int /\ E \in Int /\ F \in Int
      /\ G \in Int /\ H \in Int /\ K \in Int
  BY MatrixEntries
<1>3. \A i, j \in Axes : P[i][j] = r[i][1] * s[1][j] + r[i][2] * s[2][j] + r[i][3] * s[3][j]
  BY ProductEntries
<1>4. Det(r) = a * (e * k - f * h) + b * (f * g - d * k) + c * (d * h - e * g)
  BY DetByEntries
<1>5. Det(s) = A * (E * K - F * H) + B * (F * G - D * K) + C * (D * H - E * G)
  BY DetByEntries
<1>6. Det(P) = P[1][1] * (P[2][2] * P[3][3] - P[2][3] * P[3][2])
                + P[1][2] * (P[2][3] * P[3][1] - P[2][1] * P[3][3])
                + P[1][3] * (P[2][1] * P[3][2] - P[2][2] * P[3][1])
  BY DetByEntries
<1>7. /\ P[1][1] = a * A + b * D + c * G /\ P[1][2] = a * B + b * E + c * H
      /\ P[1][3] = a * C + b * F + c * K /\ P[2][1] = d * A + e * D + f * G
      /\ P[2][2] = d * B + e * E + f * H /\ P[2][3] = d * C + e * F + f * K
      /\ P[3][1] = g * A + h * D + k * G /\ P[3][2] = g * B + h * E + k * H
      /\ P[3][3] = g * C + h * F + k * K
  BY <1>3 DEF Axes
<1> HIDE DEF a, b, c, d, e, f, g, h, k, A, B, C, D, E, F, G, H, K
<1>8. Det(P)
   = (a * A + b * D + c * G)
       * ((d * B + e * E + f * H) * (g * C + h * F + k * K)
            - (d * C + e * F + f * K) * (g * B + h * E + k * H))
     + (a * B + b * E + c * H)
       * ((d * C + e * F + f * K) * (g * A + h * D + k * G)
            - (d * A + e * D + f * G) * (g * C + h * F + k * K))
     + (a * C + b * F + c * K)
       * ((d * A + e * D + f * G) * (g * B + h * E + k * H)
            - (d * B + e * E + f * H) * (g * A + h * D + k * G))
  BY <1>6, <1>7
<1> HIDE DEF P
<1>9. Det(P) = (a * (e * k - f * h) + b * (f * g - d * k) + c * (d * h - e * g))
                * (A * (E * K - F * H) + B * (F * G - D * K) + C * (D * H - E * G))
  BY <1>1, <1>2, <1>8
<1> QED BY <1>4, <1>5, <1>9 DEF P

(* Transposition keeps it.                                                 *)
LEMMA DetOfTranspose ==
  ASSUME NEW r, IsMatrix(r)
  PROVE  Det(Transpose(r)) = Det(r) /\ IsMatrix(Transpose(r)) /\ Transpose(r) \in Matrix
<1> DEFINE a == r[1][1]  b == r[1][2]  c == r[1][3]
           d == r[2][1]  e == r[2][2]  f == r[2][3]
           g == r[3][1]  h == r[3][2]  k == r[3][3]
           T == Transpose(r)
<1>1. /\ a \in Int /\ b \in Int /\ c \in Int
      /\ d \in Int /\ e \in Int /\ f \in Int
      /\ g \in Int /\ h \in Int /\ k \in Int
  BY MatrixEntries
<1>2. \A i, j \in Axes : T[i][j] = r[j][i]
  BY DEF Transpose
<1>3. Det(r) = a * (e * k - f * h) + b * (f * g - d * k) + c * (d * h - e * g)
  BY DetByEntries
<1>4. Det(T) = T[1][1] * (T[2][2] * T[3][3] - T[2][3] * T[3][2])
                + T[1][2] * (T[2][3] * T[3][1] - T[2][1] * T[3][3])
                + T[1][3] * (T[2][1] * T[3][2] - T[2][2] * T[3][1])
  BY DetByEntries
<1>5. Det(T) = a * (e * k - h * f) + d * (h * c - b * k) + g * (b * f - e * c)
  BY <1>2, <1>4 DEF Axes
<1>6. IsMatrix(T) /\ T \in Matrix
  BY DEF IsMatrix, Transpose, Matrix
<1> HIDE DEF a, b, c, d, e, f, g, h, k, T
<1>7. Det(T) = Det(r)
  BY <1>1, <1>3, <1>5
<1> QED BY <1>6, <1>7 DEF T

(* The inverse by the entries.                                             *)
LEMMA InverseEntries ==
  ASSUME NEW r, IsMatrix(r)
  PROVE  /\ InverseRotation(r) \in Matrix /\ IsMatrix(InverseRotation(r))
         /\ \A i, j \in Axes : InverseRotation(r)[i][j] = Det(r) * Cofactor(r, j, i)
<1>1. Det(r) \in Int
  BY CofactorIsInt, MatrixEntries DEF Det, Axes
<1>2. ASSUME NEW i \in Axes, NEW j \in Axes
      PROVE  InverseRotation(r)[i][j] = Det(r) * Cofactor(r, j, i)
             /\ Det(r) * Cofactor(r, j, i) \in Int
  <2>1. Cofactor(r, j, i) \in Int
    BY CofactorIsInt
  <2> QED BY <1>1, <2>1 DEF InverseRotation
<1> QED BY <1>2 DEF Matrix, IsMatrix, InverseRotation

(* A matrix times its inverse is the identity.                             *)
LEMMA InverseOnRight ==
  ASSUME NEW r, IsUnimodular(r)
  PROVE  Product(r, InverseRotation(r)) = Identity
<1> DEFINE s == InverseRotation(r)
           D == Det(r)
<1>1. IsMatrix(r) /\ IsMatrix(s) /\ D \in Int /\ D * D = 1
  BY InverseEntries DEF IsUnimodular
<1>2. ASSUME NEW i \in Axes, NEW j \in Axes PROVE Product(r, s)[i][j] = Identity[i][j]
  <2> DEFINE x == r[i][1]  y == r[i][2]  z == r[i][3]
             u == Cofactor(r, j, 1)  v == Cofactor(r, j, 2)  w == Cofactor(r, j, 3)
  <2>1. /\ x \in Int /\ y \in Int /\ z \in Int /\ u \in Int /\ v \in Int /\ w \in Int
    BY <1>1, CofactorIsInt DEF IsMatrix, Axes
  <2>2. Product(r, s)[i][j] = x * s[1][j] + y * s[2][j] + z * s[3][j]
    BY <1>1, ProductEntries
  <2>3. s[1][j] = D * u /\ s[2][j] = D * v /\ s[3][j] = D * w
    BY <1>1, InverseEntries DEF Axes
  <2>4. u * x + v * y + w * z = IF j = i THEN D ELSE 0
    BY <1>1, RowExpansion
  <2> HIDE DEF x, y, z, u, v, w, D
  <2>5. Product(r, s)[i][j] = D * (u * x + v * y + w * z)
    BY <1>1, <2>1, <2>2, <2>3
  <2>6. Product(r, s)[i][j] = IF j = i THEN 1 ELSE 0
    BY <1>1, <2>4, <2>5
  <2>7. Identity[i][j] = IF j = i THEN 1 ELSE 0
    BY DEF Identity, Axes
  <2> QED BY <2>6, <2>7
<1>3. Product(r, s) \in Matrix /\ Identity \in Matrix
  BY <1>1, ProductEntries DEF Matrix, Identity, Axes
<1> QED BY <1>2, <1>3, MatrixEqual

(* The inverse is unimodular.                                              *)
LEMMA InverseIsUnimodular ==
  ASSUME NEW r, IsUnimodular(r)
  PROVE  IsUnimodular(InverseRotation(r))
<1> DEFINE s == InverseRotation(r)
<1>1. IsMatrix(r) /\ IsMatrix(s) /\ Det(r) \in {1, -1}
  BY InverseEntries DEF IsUnimodular
<1>2. Det(r) * Det(s) = 1
  <2>1. Det(Identity) = 1
    BY DEF Det, Identity, Cofactor
  <2> QED BY <1>1, <2>1, DetOfProduct, InverseOnRight
<1>3. Det(s) \in Int
  BY <1>1, CofactorIsInt, MatrixEntries DEF Det, Axes
<1>4. Det(s) \in {1, -1}
  BY <1>1, <1>2, <1>3
<1> QED BY <1>1, <1>4 DEF IsUnimodular

(* So is a product.                                                        *)
LEMMA ProductIsUnimodular ==
  ASSUME NEW r, IsUnimodular(r), NEW s, IsUnimodular(s)
  PROVE  IsUnimodular(Product(r, s))
<1>1. Det(Product(r, s)) = Det(r) * Det(s)
  BY DetOfProduct DEF IsUnimodular
<1>2. Det(r) * Det(s) \in {1, -1}
  BY DEF IsUnimodular
<1> QED BY <1>1, <1>2, ProductEntries DEF IsUnimodular

(* Multiplication is associative, and the identity neutral.                *)
LEMMA ProductAssociates ==
  ASSUME NEW a, IsMatrix(a), NEW b, IsMatrix(b), NEW c, IsMatrix(c)
  PROVE  Product(Product(a, b), c) = Product(a, Product(b, c))
<1>1. IsMatrix(Product(a, b)) /\ IsMatrix(Product(b, c))
  BY ProductEntries
<1>2. ASSUME NEW i \in Axes, NEW j \in Axes
      PROVE  Product(Product(a, b), c)[i][j] = Product(a, Product(b, c))[i][j]
  <2> DEFINE p == a[i][1]  q == a[i][2]  r == a[i][3]
             x == c[1][j]  y == c[2][j]  z == c[3][j]
             b11 == b[1][1]  b12 == b[1][2]  b13 == b[1][3]
             b21 == b[2][1]  b22 == b[2][2]  b23 == b[2][3]
             b31 == b[3][1]  b32 == b[3][2]  b33 == b[3][3]
             L == Product(Product(a, b), c)[i][j]
             R == Product(a, Product(b, c))[i][j]
  <2>1. /\ p \in Int /\ q \in Int /\ r \in Int /\ x \in Int /\ y \in Int /\ z \in Int
    BY DEF IsMatrix, Axes
  <2>2. /\ b11 \in Int /\ b12 \in Int /\ b13 \in Int
        /\ b21 \in Int /\ b22 \in Int /\ b23 \in Int
        /\ b31 \in Int /\ b32 \in Int /\ b33 \in Int
    BY MatrixEntries
  <2>3. L = Product(a, b)[i][1] * x + Product(a, b)[i][2] * y + Product(a, b)[i][3] * z
    BY <1>1, ProductEntries
  <2>4. R = p * Product(b, c)[1][j] + q * Product(b, c)[2][j] + r * Product(b, c)[3][j]
    BY <1>1, ProductEntries
  <2>5. \A k \in Axes : Product(a, b)[i][k] = p * b[1][k] + q * b[2][k] + r * b[3][k]
    BY ProductEntries
  <2>6. \A k \in Axes : Product(b, c)[k][j] = b[k][1] * x + b[k][2] * y + b[k][3] * z
    BY ProductEntries
  <2>7. L = (p * b11 + q * b21 + r * b31) * x + (p * b12 + q * b22 + r * b32) * y
             + (p * b13 + q * b23 + r * b33) * z
    BY <2>3, <2>5 DEF Axes
  <2>8. R = p * (b11 * x + b12 * y + b13 * z) + q * (b21 * x + b22 * y + b23 * z)
             + r * (b31 * x + b32 * y + b33 * z)
    BY <2>4, <2>6 DEF Axes
  <2> HIDE DEF p, q, r, x, y, z, b11, b12, b13, b21, b22, b23, b31, b32, b33, L, R
  <2>9. L = R
    BY <2>1, <2>2, <2>7, <2>8
  <2> QED BY <2>9 DEF L, R
<1> QED BY <1>1, <1>2, ProductEntries, MatrixEqual

(* The identity is neutral.                                                *)
LEMMA IdentityIsNeutral ==
  ASSUME NEW a \in Matrix
  PROVE  Product(Identity, a) = a /\ Product(a, Identity) = a
<1>1. IsMatrix(a) /\ IsMatrix(Identity)
  BY DEF Matrix, IsMatrix, Identity, Axes
<1>2. ASSUME NEW i \in Axes, NEW j \in Axes
      PROVE  Product(Identity, a)[i][j] = a[i][j] /\ Product(a, Identity)[i][j] = a[i][j]
  <2>1. /\ Product(Identity, a)[i][j]
             = Identity[i][1] * a[1][j] + Identity[i][2] * a[2][j] + Identity[i][3] * a[3][j]
        /\ Product(a, Identity)[i][j]
             = a[i][1] * Identity[1][j] + a[i][2] * Identity[2][j] + a[i][3] * Identity[3][j]
    BY <1>1, ProductEntries
  <2>2. \A k \in Axes : a[k][j] \in Int /\ a[i][k] \in Int
    BY DEF Matrix
  <2> QED BY <2>1, <2>2 DEF Identity, Axes
<1> QED BY <1>1, <1>2, ProductEntries, MatrixEqual

(* The inverse is one on the left, too.                                    *)
LEMMA InverseOnLeft ==
  ASSUME NEW r \in Matrix, IsUnimodular(r)
  PROVE  /\ Product(InverseRotation(r), r) = Identity
         /\ InverseRotation(InverseRotation(r)) = r
<1> DEFINE s == InverseRotation(r)
           q == InverseRotation(s)
<1>1. IsUnimodular(s) /\ IsMatrix(r) /\ IsMatrix(s) /\ s \in Matrix
      /\ IsMatrix(q) /\ q \in Matrix
  BY InverseIsUnimodular, InverseEntries DEF IsUnimodular
<1>2. Product(r, s) = Identity /\ Product(s, q) = Identity
  BY <1>1, InverseOnRight
<1>3. Product(Product(r, s), q) = Product(r, Product(s, q))
  BY <1>1, ProductAssociates
<1> HIDE DEF s, q
<1>4. q = r
  BY <1>1, <1>2, <1>3, IdentityIsNeutral
<1> QED BY <1>2, <1>4 DEF s, q
-----------------------------------------------------------------------------
(* The rotations found are all that preserve the metric, if the radius     *)
(* covers them, and then they are a group.                                 *)

(* Cauchy and Schwarz for one component, with d > 0 and A > 0 the leading  *)
(* minors of the other two: D x^2 <= A N, by completing two squares.       *)
LEMMA ComponentBound ==
  ASSUME NEW a \in Int, NEW b \in Int, NEW c \in Int,
         NEW d \in Int, NEW e \in Int, NEW f \in Int,
         NEW x \in Int, NEW y \in Int, NEW z \in Int,
         NEW N, N = a * x * x + d * y * y + f * z * z
                      + 2 * b * x * y + 2 * c * x * z + 2 * e * y * z,
         NEW A, A = d * f - e * e,
         NEW D, D = a * (d * f - e * e) + b * (e * c - b * f) + c * (b * e - d * c),
         d > 0, A > 0
  PROVE  D * x * x <= A * N
<1> DEFINE u == A * y + (f * b - e * c) * x
           v == A * z + (d * c - e * b) * x
           X == A * N - D * x * x
           q == d * u + e * v
<1>1. A \in Int /\ D \in Int /\ N \in Int
  OBVIOUS
<1>2. u \in Int /\ v \in Int /\ X \in Int /\ q \in Int
  BY <1>1
<1>3. A * X = d * u * u + 2 * e * u * v + f * v * v
  OBVIOUS
<1> HIDE DEF u, v, X
<1>4. d * (A * X) = q * q + A * (v * v)
  BY <1>1, <1>2, <1>3
<1> HIDE DEF q
<1>5. q * q >= 0 /\ v * v >= 0
  BY <1>2
<1>6. A * (v * v) >= 0
  <2> DEFINE w == v * v
  <2>1. w \in Int /\ w >= 0
    BY <1>2, <1>5
  <2> HIDE DEF w
  <2>2. A * w >= 0
    BY <1>1, <2>1
  <2> QED BY <2>2 DEF w
<1>7. d * (A * X) >= 0
  <2> DEFINE g == q * q
             h == A * (v * v)
  <2>1. g \in Int /\ h \in Int /\ g >= 0 /\ h >= 0 /\ d * (A * X) = g + h
    BY <1>1, <1>2, <1>4, <1>5, <1>6
  <2> HIDE DEF g, h
  <2> QED BY <2>1
<1>8. A * X >= 0
  <2> DEFINE g == A * X
  <2>1. g \in Int /\ d * g >= 0
    BY <1>1, <1>2, <1>7
  <2> HIDE DEF g
  <2>2. g >= 0
    BY <2>1
  <2> QED BY <2>2 DEF g
<1>9. X >= 0
  BY <1>1, <1>2, <1>8
<1> DEFINE g == A * N
           h == D * x * x
<1>10. g \in Int /\ h \in Int /\ X = g - h
  BY <1>1 DEF X
<1> HIDE DEF g, h
<1>11. h <= g
  BY <1>9, <1>10
<1> QED BY <1>11 DEF g, h

(* So it is within a radius whose square, plus one, exceeds the quotient.  *)
LEMMA WithinRadius ==
  ASSUME NEW D \in Int, D > 0, NEW x \in Int, NEW r \in Nat, NEW q \in Int,
         D * x * x <= q, q < (r + 1) * (r + 1) * D
  PROVE  x \in (-r) .. r
<1> DEFINE s == x * x
           w == (r + 1) * (r + 1)
<1>1. s \in Int /\ w \in Int /\ D * x * x = D * s /\ (r + 1) * (r + 1) * D = w * D
  OBVIOUS
<1> HIDE DEF s, w
<1>2. D * s < w * D
  <2> DEFINE l == D * s
             h == w * D
  <2>1. l \in Int /\ h \in Int /\ l <= q /\ q < h
    BY <1>1
  <2> HIDE DEF l, h
  <2>2. l < h
    BY <2>1
  <2> QED BY <2>2 DEF l, h
<1>3. s < w
  BY <1>1, <1>2
<1>4. ~ (x > r) /\ ~ (x < -r)
  <2>1. ASSUME x > r PROVE FALSE
    <3>1. x >= r + 1
      BY <2>1
    <3>2. x * x >= (r + 1) * (r + 1)
      BY <3>1
    <3> QED BY <1>1, <1>3, <3>2 DEF s, w
  <2>2. ASSUME x < -r PROVE FALSE
    <3>1. -x >= r + 1
      BY <2>2
    <3>2. (-x) * (-x) >= (r + 1) * (r + 1) /\ (-x) * (-x) = x * x
      BY <3>1
    <3> QED BY <1>1, <1>3, <3>2 DEF s, w
  <2> QED BY <2>1, <2>2
<1> QED BY <1>4

(* The length of a vector by the entries of the metric.                    *)
LEMMA DotByEntries ==
  ASSUME NEW m, NEW c, NEW d
  PROVE  DotMetric(c, d, m)
           = c[1] * (m[1][1] * d[1] + m[1][2] * d[2] + m[1][3] * d[3])
           + c[2] * (m[2][1] * d[1] + m[2][2] * d[2] + m[2][3] * d[3])
           + c[3] * (m[3][1] * d[1] + m[3][2] * d[2] + m[3][3] * d[3])
BY DEF DotMetric, Apply, Axes

(* It is symmetric, as the metric is.                                      *)
LEMMA DotIsSymmetric ==
  ASSUME NEW m, IsMetric(m), NEW c, IsVector(c), NEW d, IsVector(d)
  PROVE  DotMetric(c, d, m) = DotMetric(d, c, m) /\ DotMetric(c, d, m) \in Int
<1> DEFINE m11 == m[1][1]  m12 == m[1][2]  m13 == m[1][3]
           m22 == m[2][2]  m23 == m[2][3]  m33 == m[3][3]
           x == c[1]  y == c[2]  z == c[3]
           u == d[1]  v == d[2]  w == d[3]
<1>1. /\ m11 \in Int /\ m12 \in Int /\ m13 \in Int /\ m22 \in Int /\ m23 \in Int /\ m33 \in Int
      /\ m[2][1] = m12 /\ m[3][1] = m13 /\ m[3][2] = m23
  BY DEF IsMetric, Axes
<1>2. /\ x \in Int /\ y \in Int /\ z \in Int /\ u \in Int /\ v \in Int /\ w \in Int
  BY DEF IsVector, Axes
<1>3. DotMetric(c, d, m) = x * (m11 * u + m12 * v + m13 * w) + y * (m12 * u + m22 * v + m23 * w)
                             + z * (m13 * u + m23 * v + m33 * w)
  BY <1>1, DotByEntries
<1>4. DotMetric(d, c, m) = u * (m11 * x + m12 * y + m13 * z) + v * (m12 * x + m22 * y + m23 * z)
                             + w * (m13 * x + m23 * y + m33 * z)
  BY <1>1, DotByEntries
<1> HIDE DEF m11, m12, m13, m22, m23, m33, x, y, z, u, v, w
<1> QED BY <1>1, <1>2, <1>3, <1>4

(* And linear: a rotated vector is a combination of the columns.           *)
LEMMA DotIsLinear ==
  ASSUME NEW m, IsMetric(m), NEW r, IsMatrix(r), NEW c, IsVector(c), NEW d, IsVector(d)
  PROVE  DotMetric(Apply(r, c), d, m)
           = c[1] * DotMetric(Transpose(r)[1], d, m) + c[2] * DotMetric(Transpose(r)[2], d, m)
           + c[3] * DotMetric(Transpose(r)[3], d, m)
<1> DEFINE w == Apply(m, d)
           w1 == w[1]  w2 == w[2]  w3 == w[3]
           x == c[1]  y == c[2]  z == c[3]
           r11 == r[1][1]  r12 == r[1][2]  r13 == r[1][3]
           r21 == r[2][1]  r22 == r[2][2]  r23 == r[2][3]
           r31 == r[3][1]  r32 == r[3][2]  r33 == r[3][3]
<1>1. IsMatrix(m)
  BY DEF IsMetric, IsMatrix
<1>2. w1 \in Int /\ w2 \in Int /\ w3 \in Int
  <2>1. IsVector(w)
    BY <1>1, ApplyIsVector
  <2> QED BY <2>1 DEF IsVector, Axes
<1>3. /\ r11 \in Int /\ r12 \in Int /\ r13 \in Int
      /\ r21 \in Int /\ r22 \in Int /\ r23 \in Int
      /\ r31 \in Int /\ r32 \in Int /\ r33 \in Int
  BY MatrixEntries
<1>4. x \in Int /\ y \in Int /\ z \in Int
  BY DEF IsVector, Axes
<1>5. /\ DotMetric(Transpose(r)[1], d, m) = r11 * w1 + r21 * w2 + r31 * w3
      /\ DotMetric(Transpose(r)[2], d, m) = r12 * w1 + r22 * w2 + r32 * w3
      /\ DotMetric(Transpose(r)[3], d, m) = r13 * w1 + r23 * w2 + r33 * w3
  BY DEF DotMetric, Transpose, Axes
<1>6. DotMetric(Apply(r, c), d, m)
        = (r11 * x + r12 * y + r13 * z) * w1 + (r21 * x + r22 * y + r23 * z) * w2
        + (r31 * x + r32 * y + r33 * z) * w3
  <2> HIDE DEF w
  <2>1. DotMetric(Apply(r, c), d, m)
          = Apply(r, c)[1] * w1 + Apply(r, c)[2] * w2 + Apply(r, c)[3] * w3
    BY DEF DotMetric, w
  <2>2. /\ Apply(r, c)[1] = r11 * x + r12 * y + r13 * z
        /\ Apply(r, c)[2] = r21 * x + r22 * y + r23 * z
        /\ Apply(r, c)[3] = r31 * x + r32 * y + r33 * z
    BY DEF Apply, Axes
  <2> QED BY <2>1, <2>2
<1> DEFINE L == DotMetric(Apply(r, c), d, m)
           d1 == DotMetric(Transpose(r)[1], d, m)
           d2 == DotMetric(Transpose(r)[2], d, m)
           d3 == DotMetric(Transpose(r)[3], d, m)
<1> HIDE DEF w1, w2, w3, x, y, z, r11, r12, r13, r21, r22, r23, r31, r32, r33, L, d1, d2, d3
<1>7. L = x * d1 + y * d2 + z * d3
  BY <1>2, <1>3, <1>4, <1>5, <1>6 DEF L, d1, d2, d3
<1> QED BY <1>7 DEF L, d1, d2, d3, x, y, z

(* R^T M R = M, column by column.                                          *)
Preserves(r, m) ==
  \A i, j \in Axes : DotMetric(Transpose(r)[i], Transpose(r)[j], m) = m[i][j]

(* A matrix that preserves the metric preserves every scalar product.      *)
LEMMA PreservesDots ==
  ASSUME NEW m, IsMetric(m), NEW r, IsMatrix(r), Preserves(r, m),
         NEW c, IsVector(c), NEW d, IsVector(d)
  PROVE  DotMetric(Apply(r, c), Apply(r, d), m) = DotMetric(c, d, m)
<1> DEFINE col(i) == Transpose(r)[i]
           x == c[1]  y == c[2]  z == c[3]
           u == d[1]  v == d[2]  w == d[3]
           m11 == m[1][1]  m12 == m[1][2]  m13 == m[1][3]
           m21 == m[2][1]  m22 == m[2][2]  m23 == m[2][3]
           m31 == m[3][1]  m32 == m[3][2]  m33 == m[3][3]
           L == DotMetric(Apply(r, c), Apply(r, d), m)
<1>1. /\ \A i \in Axes : IsVector(col(i))
      /\ IsVector(Apply(r, c)) /\ IsVector(Apply(r, d))
  BY ApplyIsVector DEF IsVector, IsMatrix, Transpose
<1>2. \A i \in Axes : DotMetric(col(i), Apply(r, d), m) = m[i][1] * u + m[i][2] * v + m[i][3] * w
  <2>1. ASSUME NEW i \in Axes
        PROVE  DotMetric(col(i), Apply(r, d), m) = m[i][1] * u + m[i][2] * v + m[i][3] * w
    <3>1. DotMetric(col(i), Apply(r, d), m) = DotMetric(Apply(r, d), col(i), m)
      BY <1>1, DotIsSymmetric
    <3>2. DotMetric(Apply(r, d), col(i), m)
            = u * DotMetric(col(1), col(i), m) + v * DotMetric(col(2), col(i), m)
            + w * DotMetric(col(3), col(i), m)
      BY <1>1, DotIsLinear
    <3>3. /\ DotMetric(col(1), col(i), m) = m[i][1] /\ DotMetric(col(2), col(i), m) = m[i][2]
          /\ DotMetric(col(3), col(i), m) = m[i][3]
      BY DEF Preserves, IsMetric, Axes
    <3>4. /\ m[i][1] \in Int /\ m[i][2] \in Int /\ m[i][3] \in Int
          /\ u \in Int /\ v \in Int /\ w \in Int
      BY DEF IsMetric, IsVector, Axes
    <3> HIDE DEF col, u, v, w
    <3> QED BY <3>1, <3>2, <3>3, <3>4
  <2> QED BY <2>1
<1>3. L = x * DotMetric(col(1), Apply(r, d), m) + y * DotMetric(col(2), Apply(r, d), m)
        + z * DotMetric(col(3), Apply(r, d), m)
  BY <1>1, DotIsLinear
<1>4. L = x * (m11 * u + m12 * v + m13 * w) + y * (m21 * u + m22 * v + m23 * w)
        + z * (m31 * u + m32 * v + m33 * w)
  BY <1>2, <1>3 DEF Axes
<1>5. DotMetric(c, d, m)
        = x * (m11 * u + m12 * v + m13 * w) + y * (m21 * u + m22 * v + m23 * w)
        + z * (m31 * u + m32 * v + m33 * w)
  BY DotByEntries
<1> QED BY <1>4, <1>5

(* Lengths and angles depend on the components only.                       *)
LEMMA DotOfComponents ==
  ASSUME NEW m, NEW c, NEW d, NEW u, NEW v,
         \A i \in Axes : c[i] = u[i] /\ d[i] = v[i]
  PROVE  DotMetric(c, d, m) = DotMetric(u, v, m)
<1>1. /\ c[1] = u[1] /\ c[2] = u[2] /\ c[3] = u[3]
      /\ d[1] = v[1] /\ d[2] = v[2] /\ d[3] = v[3]
  BY DEF Axes
<1> QED BY <1>1, DotByEntries

(* Where the radius covers the cell, every vector as long as a basis       *)
(* vector is a candidate.                                                  *)
LEMMA CandidatesAreComplete ==
  ASSUME NEW m, IsMetric(m), RadiusCovers(m), NEW j \in Axes, NEW c, IsVector(c),
         DotMetric(c, c, m) = m[j][j], NEW i \in Axes
  PROVE  c[i] \in (- SearchRadius(m[j][j], m[i][i])) .. SearchRadius(m[j][j], m[i][i])
<1> DEFINE m11 == m[1][1]  m12 == m[1][2]  m13 == m[1][3]
           m22 == m[2][2]  m23 == m[2][3]  m33 == m[3][3]
           x == c[1]  y == c[2]  z == c[3]
           N == m[j][j]
           D == Det(m)
           A == Cofactor(m, i, i)
           r == SearchRadius(m[j][j], m[i][i])
<1>1. /\ m11 \in Int /\ m12 \in Int /\ m13 \in Int /\ m22 \in Int /\ m23 \in Int /\ m33 \in Int
      /\ m[2][1] = m12 /\ m[3][1] = m13 /\ m[3][2] = m23
      /\ m11 > 0 /\ m22 > 0 /\ m33 > 0
  BY DEF IsMetric, Axes
<1>2. x \in Int /\ y \in Int /\ z \in Int
  BY DEF IsVector, Axes
<1>3. N = x * (m11 * x + m12 * y + m13 * z) + y * (m12 * x + m22 * y + m23 * z)
          + z * (m13 * x + m23 * y + m33 * z)
  BY <1>1, DotByEntries
<1>4. D = m11 * (m22 * m33 - m23 * m23) + m12 * (m23 * m13 - m12 * m33)
          + m13 * (m12 * m23 - m22 * m13)
  BY <1>1, DetByEntries
<1>5. /\ i = 1 => A = m22 * m33 - m23 * m23
      /\ i = 2 => A = m33 * m11 - m13 * m13
      /\ i = 3 => A = m11 * m22 - m12 * m12
  BY <1>1 DEF Cofactor
<1>6. r \in Nat /\ N \in Int
  BY RadiusIsDefined DEF IsMetric
<1>7. D > 0 /\ A > 0 /\ A * N < (r + 1) * (r + 1) * D
  BY DEF RadiusCovers
<1>8. A \in Int /\ D \in Int
  BY <1>1, <1>4, <1>5 DEF Axes
<1>9. A * N \in Int
  BY <1>6, <1>8
<1> HIDE DEF m11, m12, m13, m22, m23, m33, x, y, z, N, D, A, r
<1>10. CASE i = 1
  <2>1. N = m11 * x * x + m22 * y * y + m33 * z * z + 2 * m12 * x * y + 2 * m13 * x * z
            + 2 * m23 * y * z
    BY <1>1, <1>2, <1>3
  <2>2. D * x * x <= A * N
    BY <1>1, <1>2, <1>4, <1>5, <1>7, <1>10, <2>1, ComponentBound
  <2> QED BY <1>2, <1>6, <1>7, <1>8, <1>9, <1>10, <2>2, WithinRadius DEF x, r
<1>11. CASE i = 2
  <2>1. N = m22 * y * y + m33 * z * z + m11 * x * x + 2 * m23 * y * z + 2 * m12 * y * x
            + 2 * m13 * z * x
    BY <1>1, <1>2, <1>3
  <2>2. D = m22 * (m33 * m11 - m13 * m13) + m23 * (m13 * m12 - m23 * m11)
            + m12 * (m23 * m13 - m33 * m12)
    BY <1>1, <1>4
  <2>3. D * y * y <= A * N
    BY <1>1, <1>2, <1>5, <1>7, <1>11, <2>1, <2>2, ComponentBound
  <2> QED BY <1>2, <1>6, <1>7, <1>8, <1>9, <1>11, <2>3, WithinRadius DEF y, r
<1>12. CASE i = 3
  <2>1. N = m33 * z * z + m11 * x * x + m22 * y * y + 2 * m13 * z * x + 2 * m23 * z * y
            + 2 * m12 * x * y
    BY <1>1, <1>2, <1>3
  <2>2. D = m33 * (m11 * m22 - m12 * m12) + m13 * (m12 * m23 - m13 * m22)
            + m23 * (m13 * m12 - m11 * m23)
    BY <1>1, <1>4
  <2>3. D * z * z <= A * N
    BY <1>1, <1>2, <1>5, <1>7, <1>12, <2>1, <2>2, ComponentBound
  <2> QED BY <1>2, <1>6, <1>7, <1>8, <1>9, <1>12, <2>3, WithinRadius DEF z, r
<1> QED BY <1>10, <1>11, <1>12 DEF Axes, r

(* The integer isometries of a cell.                                       *)
IsRotation(r, m) == r \in Matrix /\ IsUnimodular(r) /\ Preserves(r, m)

(* Every rotation found is one.                                            *)
LEMMA FoundAreRotations ==
  ASSUME NEW m, IsMetric(m), NEW r \in MetricPreservingRotations(m)
  PROVE  IsRotation(r, m)
<1>1. PICK c : /\ c \in CandidateVectors(m, 1) \X CandidateVectors(m, 2)
                          \X CandidateVectors(m, 3)
               /\ PreservesMetric(c, m) /\ r = Transpose(c)
  BY DEF MetricPreservingRotations
<1>2. ASSUME NEW j \in Axes, NEW v \in CandidateVectors(m, j)
      PROVE  v[1] \in Int /\ v[2] \in Int /\ v[3] \in Int /\ DotMetric(v, v, m) = m[j][j]
  BY DEF CandidateVectors
<1>3. \A j \in Axes : c[j] \in CandidateVectors(m, j)
  BY <1>1 DEF Axes
<1>4. \A j \in Axes : IsVector(c[j]) /\ DotMetric(c[j], c[j], m) = m[j][j]
  BY <1>2, <1>3 DEF IsVector, Axes
<1>5. r \in Matrix /\ IsMatrix(r)
  BY <1>1, <1>4 DEF Matrix, IsMatrix, IsVector, Transpose
<1>6. \A i, j \in Axes : DotMetric(c[i], c[j], m) = m[i][j]
  <2>1. /\ DotMetric(c[1], c[2], m) = m[1][2] /\ DotMetric(c[1], c[3], m) = m[1][3]
        /\ DotMetric(c[2], c[3], m) = m[2][3]
    BY <1>1 DEF PreservesMetric
  <2>2. \A i, j \in Axes : DotMetric(c[i], c[j], m) = DotMetric(c[j], c[i], m)
    BY <1>4, DotIsSymmetric
  <2>3. \A i, j \in Axes : m[i][j] = m[j][i]
    BY DEF IsMetric
  <2> QED BY <1>4, <2>1, <2>2, <2>3 DEF Axes
<1>7. ASSUME NEW i \in Axes, NEW j \in Axes
      PROVE  DotMetric(Transpose(r)[i], Transpose(r)[j], m) = DotMetric(c[i], c[j], m)
  <2>1. \A k \in Axes : Transpose(r)[i][k] = c[i][k] /\ Transpose(r)[j][k] = c[j][k]
    BY <1>1 DEF Transpose
  <2> QED BY <2>1, DotOfComponents
<1> QED BY <1>1, <1>5, <1>6, <1>7 DEF IsRotation, IsUnimodular, Preserves, PreservesMetric

(* And where the radius covers the cell, every isometry is found.          *)
LEMMA RotationsAreFound ==
  ASSUME NEW m, IsMetric(m), RadiusCovers(m), NEW r, IsRotation(r, m)
  PROVE  r \in MetricPreservingRotations(m)
<1> DEFINE column(j) == <<r[1][j], r[2][j], r[3][j]>>
           c == <<column(1), column(2), column(3)>>
<1>1. r \in Matrix /\ IsMatrix(r) /\ Det(r) \in {1, -1}
  BY DEF IsRotation, IsUnimodular
<1>2. \A i, j \in Axes : c[j] = column(j) /\ column(j)[i] = r[i][j]
  BY DEF Axes
<1>3. ASSUME NEW j \in Axes PROVE IsVector(column(j))
  <2>1. \A i \in Axes : column(j)[i] = r[i][j] /\ r[i][j] \in Int
    BY <1>1 DEF IsMatrix, Axes
  <2> QED BY <2>1 DEF IsVector
<1>4. ASSUME NEW i \in Axes, NEW j \in Axes
      PROVE  DotMetric(column(i), column(j), m) = m[i][j]
  <2>1. \A k \in Axes : /\ column(i)[k] = Transpose(r)[i][k]
                        /\ column(j)[k] = Transpose(r)[j][k]
    BY DEF Transpose, Axes
  <2> HIDE DEF column
  <2>2. DotMetric(column(i), column(j), m) = DotMetric(Transpose(r)[i], Transpose(r)[j], m)
    BY <2>1, DotOfComponents
  <2> QED BY <2>2 DEF IsRotation, Preserves
<1>5. ASSUME NEW j \in Axes PROVE column(j) \in CandidateVectors(m, j)
  <2> DEFINE radius(i) == SearchRadius(m[j][j], m[i][i])
             v == column(j)
  <2>1. \A i \in Axes : v[i] \in (-radius(i)) .. radius(i)
    <3> HIDE DEF v
    <3> QED BY <1>3, <1>4, CandidatesAreComplete DEF v
  <2>2. v = <<v[1], v[2], v[3]>>
    OBVIOUS
  <2>3. v \in ((-radius(1)) .. radius(1)) \X ((-radius(2)) .. radius(2))
                \X ((-radius(3)) .. radius(3))
    <3> HIDE DEF v, radius
    <3> QED BY <2>1, <2>2 DEF Axes
  <2> QED BY <1>4, <2>3 DEF CandidateVectors
<1>6. Transpose(c) = r
  <2>1. \A i, j \in Axes : Transpose(c)[i][j] = r[i][j]
    BY <1>2 DEF Transpose
  <2>2. Transpose(c) \in Matrix
    <3>1. \A i, j \in Axes : c[j][i] \in Int
      BY <1>1, <1>2 DEF IsMatrix
    <3> HIDE DEF c
    <3> QED BY <3>1 DEF Transpose, Matrix
  <2> HIDE DEF c
  <2> QED BY <1>1, <2>1, <2>2, MatrixEqual
<1>7. PreservesMetric(c, m)
  <2>1. /\ c[1] = column(1) /\ c[2] = column(2) /\ c[3] = column(3)
    OBVIOUS
  <2> HIDE DEF c, column
  <2> QED BY <1>1, <1>4, <1>6, <2>1 DEF PreservesMetric, Axes
<1>8. c \in CandidateVectors(m, 1) \X CandidateVectors(m, 2) \X CandidateVectors(m, 3)
  <2> HIDE DEF column
  <2> QED BY <1>5 DEF Axes
<1> HIDE DEF c
<1> QED BY <1>6, <1>7, <1>8 DEF MetricPreservingRotations

(* Isometries compose.                                                     *)
LEMMA RotationsCompose ==
  ASSUME NEW m, IsMetric(m), NEW a, IsRotation(a, m), NEW b, IsRotation(b, m)
  PROVE  IsRotation(Product(a, b), m)
<1> DEFINE p == Product(a, b)
<1>1. IsMatrix(a) /\ IsMatrix(b) /\ IsMatrix(p) /\ p \in Matrix /\ IsUnimodular(p)
  BY ProductEntries, ProductIsUnimodular DEF IsRotation, IsUnimodular
<1>2. ASSUME NEW i \in Axes, NEW j \in Axes
      PROVE  DotMetric(Transpose(p)[i], Transpose(p)[j], m) = m[i][j]
  <2> DEFINE u == Transpose(b)[i]
             v == Transpose(b)[j]
  <2>1. IsVector(u) /\ IsVector(v)
    BY <1>1 DEF IsVector, IsMatrix, Transpose
  <2>2. \A k, l \in Axes : Transpose(p)[l][k] = Apply(a, Transpose(b)[l])[k]
    BY <1>1, ProductEntries DEF Apply, Transpose, Axes
  <2>3. DotMetric(Transpose(p)[i], Transpose(p)[j], m) = DotMetric(Apply(a, u), Apply(a, v), m)
    BY <2>2, DotOfComponents
  <2>4. DotMetric(Apply(a, u), Apply(a, v), m) = DotMetric(u, v, m)
    BY <1>1, <2>1, PreservesDots DEF IsRotation
  <2> QED BY <2>3, <2>4 DEF IsRotation, Preserves
<1> QED BY <1>1, <1>2 DEF IsRotation, Preserves

(* And have isometries as inverses.                                        *)
LEMMA RotationsInvert ==
  ASSUME NEW m, IsMetric(m), NEW r, IsRotation(r, m)
  PROVE  IsRotation(InverseRotation(r), m)
<1> DEFINE s == InverseRotation(r)
<1>1. IsMatrix(r) /\ IsMatrix(s) /\ s \in Matrix /\ IsUnimodular(s) /\ Product(r, s) = Identity
  BY InverseEntries, InverseIsUnimodular, InverseOnRight DEF IsRotation, IsUnimodular
<1>2. ASSUME NEW i \in Axes, NEW j \in Axes
      PROVE  DotMetric(Transpose(s)[i], Transpose(s)[j], m) = m[i][j]
  <2> DEFINE u == Transpose(s)[i]
             v == Transpose(s)[j]
  <2>1. IsVector(u) /\ IsVector(v)
    BY <1>1 DEF IsVector, IsMatrix, Transpose
  <2>2. DotMetric(u, v, m) = DotMetric(Apply(r, u), Apply(r, v), m)
    BY <1>1, <2>1, PreservesDots DEF IsRotation
  <2>3. \A k, l \in Axes : Apply(r, Transpose(s)[l])[k] = Product(r, s)[k][l]
    BY <1>1, ProductEntries DEF Apply, Transpose, Axes
  <2>4. \A k, l \in Axes : Apply(r, Transpose(s)[l])[k] = Transpose(Identity)[l][k]
    BY <1>1, <2>3 DEF Transpose
  <2>5. DotMetric(Apply(r, u), Apply(r, v), m)
          = DotMetric(Transpose(Identity)[i], Transpose(Identity)[j], m)
    BY <2>4, DotOfComponents
  <2>6. DotMetric(Transpose(Identity)[i], Transpose(Identity)[j], m) = m[i][j]
    BY IdentityPreservesMetric, FoundAreRotations DEF IsRotation, Preserves
  <2> QED BY <2>2, <2>5, <2>6
<1> QED BY <1>1, <1>2 DEF IsRotation, Preserves
-----------------------------------------------------------------------------
(* Positions that differ by lattice vectors.                               *)
SamePlace(f, g) == \A j \in Axes : f[j] % Unit = g[j] % Unit

(* They are wrapped to the same position of the unit cell.                 *)
LEMMA WrapsTogether ==
  ASSUME NEW f, NEW g
  PROVE  (Wrap(f) = Wrap(g)) <=> SamePlace(f, g)
<1>1. \A j \in Axes : Wrap(f)[j] = f[j] % Unit /\ Wrap(g)[j] = g[j] % Unit
  BY DEF Wrap
<1>2. (Wrap(f) = Wrap(g)) => SamePlace(f, g)
  BY <1>1 DEF SamePlace
<1>3. SamePlace(f, g) => (Wrap(f) = Wrap(g))
  BY DEF SamePlace, Wrap
<1> QED BY <1>2, <1>3

(* Wrapping leaves a vector's place, and is done once.                     *)
LEMMA WrapStays ==
  ASSUME NEW f, IsVector(f)
  PROVE  /\ IsVector(Wrap(f)) /\ SamePlace(Wrap(f), f)
         /\ Wrap(f) \in [Axes -> 0 .. Unit - 1] /\ Wrap(Wrap(f)) = Wrap(f)
<1>1. ASSUME NEW j \in Axes
      PROVE  /\ Wrap(f)[j] \in Int /\ Wrap(f)[j] % Unit = f[j] % Unit
             /\ Wrap(f)[j] \in 0 .. Unit - 1 /\ Wrap(f)[j] = f[j] % Unit
  <2> DEFINE x == f[j]
             r == x % Unit
  <2>1. x \in Int /\ Unit \in Nat \ {0} /\ Wrap(f)[j] = r
    BY UnitAssumption DEF IsVector, Wrap
  <2> HIDE DEF x
  <2>2. r \in Int /\ 0 <= r /\ r < Unit
    BY <2>1, DivMod
  <2> HIDE DEF r
  <2>3. (Unit * 0 + r) % Unit = r /\ Unit * 0 + r = r
    BY <2>1, <2>2, DivModUnique
  <2>4. r \in 0 .. Unit - 1 /\ r % Unit = r
    BY <2>1, <2>2, <2>3
  <2> QED BY <2>1, <2>2, <2>4 DEF r, x
<1>2. IsVector(Wrap(f)) /\ SamePlace(Wrap(f), f)
  BY <1>1 DEF IsVector, SamePlace
<1>3. Wrap(f) = [j \in Axes |-> f[j] % Unit]
  BY DEF Wrap
<1>4. Wrap(f) \in [Axes -> 0 .. Unit - 1]
  BY <1>1, <1>3
<1> QED BY <1>2, <1>4, WrapsTogether

(* Numbers that differ by whole periods.                                   *)
SameResidue(n, x, y) == x % n = y % n

(* They add.                                                               *)
LEMMA ResiduesAdd ==
  ASSUME NEW n \in Nat \ {0}, NEW x \in Int, NEW y \in Int, NEW u \in Int, NEW v \in Int,
         SameResidue(n, x, y), SameResidue(n, u, v)
  PROVE  SameResidue(n, x + u, y + v)
<1>1. PICK s \in Int : x = y + n * s
  BY EqualResidues DEF SameResidue
<1>2. PICK t \in Int : u = v + n * t
  BY EqualResidues DEF SameResidue
<1> DEFINE w == y + v
           k == s + t
<1>3. w \in Int /\ k \in Int /\ x + u = w + n * k
  BY <1>1, <1>2
<1> HIDE DEF w, k
<1>4. (w + n * k) % n = w % n
  BY <1>3, ResidueOfSum
<1> QED BY <1>3, <1>4 DEF w, SameResidue

(* And are multiplied by whole numbers.                                    *)
LEMMA ResiduesScale ==
  ASSUME NEW n \in Nat \ {0}, NEW x \in Int, NEW y \in Int, NEW k \in Int,
         SameResidue(n, x, y)
  PROVE  SameResidue(n, k * x, k * y)
<1>1. PICK s \in Int : x = y + n * s
  BY EqualResidues DEF SameResidue
<1> DEFINE w == k * y
           t == k * s
<1>2. w \in Int /\ t \in Int /\ k * x = w + n * t
  BY <1>1
<1> HIDE DEF w, t
<1>3. (w + n * t) % n = w % n
  BY <1>2, ResidueOfSum
<1> QED BY <1>2, <1>3 DEF w, SameResidue

(* Vectors that do so in every component.                                  *)
Congruent(n, f, g) == \A j \in Axes : f[j] % n = g[j] % n

(* An integer matrix takes them to such vectors.                           *)
LEMMA CongruentRotate ==
  ASSUME NEW n \in Nat \ {0}, NEW r, IsMatrix(r), NEW f, IsVector(f), NEW g, IsVector(g),
         Congruent(n, f, g)
  PROVE  Congruent(n, Apply(r, f), Apply(r, g))
<1>1. ASSUME NEW i \in Axes PROVE Apply(r, f)[i] % n = Apply(r, g)[i] % n
  <2> DEFINE a == r[i][1] * f[1]  b == r[i][2] * f[2]  c == r[i][3] * f[3]
             x == r[i][1] * g[1]  y == r[i][2] * g[2]  z == r[i][3] * g[3]
  <2>1. ASSUME NEW j \in Axes
        PROVE  /\ r[i][j] * f[j] \in Int /\ r[i][j] * g[j] \in Int
               /\ SameResidue(n, r[i][j] * f[j], r[i][j] * g[j])
    <3>1. r[i][j] \in Int /\ f[j] \in Int /\ g[j] \in Int /\ SameResidue(n, f[j], g[j])
      BY DEF IsMatrix, IsVector, Congruent, SameResidue
    <3>2. r[i][j] * f[j] \in Int /\ r[i][j] * g[j] \in Int
      BY <3>1
    <3> QED BY <3>1, <3>2, ResiduesScale
  <2>2. /\ a \in Int /\ b \in Int /\ c \in Int /\ x \in Int /\ y \in Int /\ z \in Int
        /\ SameResidue(n, a, x) /\ SameResidue(n, b, y) /\ SameResidue(n, c, z)
    BY <2>1 DEF Axes
  <2>3. Apply(r, f)[i] = (a + b) + c /\ Apply(r, g)[i] = (x + y) + z
    BY DEF Apply
  <2> HIDE DEF a, b, c, x, y, z
  <2>4. a + b \in Int /\ x + y \in Int /\ SameResidue(n, a + b, x + y)
    BY <2>2, ResiduesAdd
  <2>5. SameResidue(n, (a + b) + c, (x + y) + z)
    BY <2>2, <2>4, ResiduesAdd
  <2> QED BY <2>3, <2>5 DEF SameResidue
<1> QED BY <1>1 DEF Congruent

(* Sums of vectors at the same places are at the same place.               *)
LEMMA PlacesAdd ==
  ASSUME NEW f, IsVector(f), NEW g, IsVector(g), NEW u, IsVector(u), NEW v, IsVector(v),
         SamePlace(f, g), SamePlace(u, v)
  PROVE  SamePlace(Plus(f, u), Plus(g, v))
<1>1. ASSUME NEW j \in Axes PROVE Plus(f, u)[j] % Unit = Plus(g, v)[j] % Unit
  <2> DEFINE a == f[j]  b == g[j]  c == u[j]  d == v[j]
  <2>1. /\ a \in Int /\ b \in Int /\ c \in Int /\ d \in Int
        /\ SameResidue(Unit, a, b) /\ SameResidue(Unit, c, d)
    BY DEF IsVector, SamePlace, SameResidue
  <2>2. Plus(f, u)[j] = a + c /\ Plus(g, v)[j] = b + d
    BY DEF Plus
  <2> HIDE DEF a, b, c, d
  <2>3. SameResidue(Unit, a + c, b + d)
    BY <2>1, UnitAssumption, ResiduesAdd
  <2> QED BY <2>2, <2>3 DEF SameResidue
<1> QED BY <1>1 DEF SamePlace

(* An integer matrix takes the same place to the same place.               *)
LEMMA PlacesRotate ==
  ASSUME NEW r, IsMatrix(r), NEW f, IsVector(f), NEW g, IsVector(g), SamePlace(f, g)
  PROVE  SamePlace(Apply(r, f), Apply(r, g))
BY UnitAssumption, CongruentRotate DEF SamePlace, Congruent

(* Sums and negatives of integer vectors are integer vectors.              *)
LEMMA VectorSums ==
  ASSUME NEW f, IsVector(f), NEW g, IsVector(g)
  PROVE  IsVector(Plus(f, g)) /\ IsVector(Negated(f))
<1>1. \A j \in Axes : f[j] \in Int /\ g[j] \in Int
  BY DEF IsVector
<1> QED BY <1>1 DEF IsVector, Plus, Negated

(* Rotations are linear.                                                   *)
LEMMA ApplyIsLinear ==
  ASSUME NEW r, IsMatrix(r), NEW f, IsVector(f), NEW g, IsVector(g), NEW i \in Axes
  PROVE  /\ Apply(r, Plus(f, g))[i] = Apply(r, f)[i] + Apply(r, g)[i]
         /\ Apply(r, Negated(f))[i] = - Apply(r, f)[i]
         /\ Apply(r, f)[i] \in Int /\ Apply(r, g)[i] \in Int
<1> DEFINE a == r[i][1]  b == r[i][2]  c == r[i][3]
           x == f[1]  y == f[2]  z == f[3]
           u == g[1]  v == g[2]  w == g[3]
<1>1. /\ a \in Int /\ b \in Int /\ c \in Int /\ x \in Int /\ y \in Int /\ z \in Int
      /\ u \in Int /\ v \in Int /\ w \in Int
  BY DEF IsMatrix, IsVector, Axes
<1>2. /\ Apply(r, Plus(f, g))[i] = a * (x + u) + b * (y + v) + c * (z + w)
      /\ Apply(r, Negated(f))[i] = a * (-x) + b * (-y) + c * (-z)
      /\ Apply(r, f)[i] = a * x + b * y + c * z
      /\ Apply(r, g)[i] = a * u + b * v + c * w
  BY DEF Apply, Plus, Negated, Axes
<1> HIDE DEF a, b, c, x, y, z, u, v, w
<1> QED BY <1>1, <1>2
-----------------------------------------------------------------------------
(* The operations {r | tau} that map the atoms onto themselves compose and *)
(* have inverses.                                                          *)

(* {r | tau} takes atom i to atom j.                                       *)
Lands(atoms, r, tau, i, j) ==
  /\ atoms[j].z = atoms[i].z
  /\ SamePlace(Plus(Apply(r, atoms[i].position), tau), atoms[j].position)

(* What the detection tests of an operation.                               *)
LEMMA AtomMap ==
  ASSUME NEW atoms, NEW r, NEW tau
  PROVE  AllAtomsMap(atoms, r, tau)
           <=> \A i \in DOMAIN atoms : \E j \in DOMAIN atoms : Lands(atoms, r, tau, i, j)
BY WrapsTogether DEF AllAtomsMap, Lands

(* Atoms have integer positions, rotated or not.                           *)
LEMMA PositionsAreVectors ==
  ASSUME NEW atoms \in Seq(Atom), NEW i \in DOMAIN atoms
  PROVE  /\ IsVector(atoms[i].position) /\ atoms[i].z \in Nat
         /\ \A r : IsMatrix(r) => IsVector(Apply(r, atoms[i].position))
<1>1. atoms[i] \in Atom
  OBVIOUS
<1>2. IsVector(atoms[i].position) /\ atoms[i].z \in Nat
  BY <1>1 DEF Atom, IsVector
<1> QED BY <1>2, ApplyIsVector

(* Only the translation's place matters.                                   *)
LEMMA MapsAgree ==
  ASSUME NEW atoms \in Seq(Atom), NEW r, IsMatrix(r), NEW tau, IsVector(tau),
         NEW sigma, IsVector(sigma), SamePlace(tau, sigma), AllAtomsMap(atoms, r, tau)
  PROVE  AllAtomsMap(atoms, r, sigma)
<1>1. ASSUME NEW i \in DOMAIN atoms
      PROVE  \E j \in DOMAIN atoms : Lands(atoms, r, sigma, i, j)
  <2> DEFINE f == Apply(r, atoms[i].position)
  <2>1. PICK j \in DOMAIN atoms : Lands(atoms, r, tau, i, j)
    BY AtomMap
  <2>2. IsVector(f) /\ SamePlace(f, f)
    BY PositionsAreVectors DEF SamePlace
  <2>3. SamePlace(Plus(f, tau), Plus(f, sigma))
    <3> HIDE DEF f
    <3> QED BY <2>2, PlacesAdd
  <2>4. Lands(atoms, r, sigma, i, j)
    BY <2>1, <2>3 DEF Lands, SamePlace
  <2> QED BY <2>4
<1> QED BY <1>1, AtomMap

(* One operation after the other.                                          *)
LEMMA MapsCompose ==
  ASSUME NEW atoms \in Seq(Atom), NEW a, IsMatrix(a), NEW s, IsVector(s),
         NEW b, IsMatrix(b), NEW t, IsVector(t),
         AllAtomsMap(atoms, a, s), AllAtomsMap(atoms, b, t)
  PROVE  AllAtomsMap(atoms, Product(a, b), Plus(Apply(a, t), s))
<1> DEFINE w == Plus(Apply(a, t), s)
<1>1. ASSUME NEW i \in DOMAIN atoms
      PROVE  \E j \in DOMAIN atoms : Lands(atoms, Product(a, b), w, i, j)
  <2>1. PICK k \in DOMAIN atoms : Lands(atoms, b, t, i, k)
    BY AtomMap
  <2>2. PICK j \in DOMAIN atoms : Lands(atoms, a, s, k, j)
    BY AtomMap
  <2> DEFINE p == atoms[i].position
             q == atoms[k].position
             f == Apply(b, p)
             g == Plus(f, t)
  <2>3. IsVector(p) /\ IsVector(q) /\ IsVector(f) /\ IsVector(g)
    BY PositionsAreVectors, VectorSums
  <2>4. SamePlace(g, q)
    BY <2>1 DEF Lands
  <2>5. IsVector(Apply(a, g)) /\ IsVector(Apply(a, q)) /\ SamePlace(Apply(a, g), Apply(a, q))
    <3> HIDE DEF g, q
    <3> QED BY <2>3, <2>4, ApplyIsVector, PlacesRotate
  <2>6. SamePlace(Plus(Apply(a, g), s), Plus(Apply(a, q), s))
    <3>1. SamePlace(s, s)
      BY DEF SamePlace
    <3> QED BY <2>5, <3>1, PlacesAdd
  <2>7. ASSUME NEW m \in Axes
        PROVE  Plus(Apply(Product(a, b), p), w)[m] = Plus(Apply(a, g), s)[m]
    <3> DEFINE x == Apply(Product(a, b), p)[m]
               y == Apply(a, f)[m]
               z == Apply(a, t)[m]
               v == s[m]
    <3>1. x = y /\ Apply(a, g)[m] = y + z /\ y \in Int /\ z \in Int
      <4> HIDE DEF p
      <4>1. x = y
        BY <2>3, ProductActs
      <4> HIDE DEF f
      <4>2. Apply(a, g)[m] = y + z /\ y \in Int /\ z \in Int
        BY <2>3, ApplyIsLinear
      <4> QED BY <4>1, <4>2
    <3>2. v \in Int
      BY DEF IsVector
    <3>3. /\ Plus(Apply(Product(a, b), p), w)[m] = x + (z + v)
          /\ Plus(Apply(a, g), s)[m] = Apply(a, g)[m] + v
      BY DEF Plus
    <3> HIDE DEF x, y, z, v, p, g, f, w
    <3> QED BY <3>1, <3>2, <3>3
  <2>8. SamePlace(Plus(Apply(Product(a, b), p), w), atoms[j].position)
    BY <2>2, <2>6, <2>7 DEF Lands, SamePlace
  <2>9. atoms[j].z = atoms[i].z
    BY <2>1, <2>2 DEF Lands
  <2> QED BY <2>8, <2>9 DEF Lands
<1> QED BY <1>1, AtomMap

(* What an operation does and its inverse undoes.                          *)
LEMMA InverseCancels ==
  ASSUME NEW r \in Matrix, IsUnimodular(r), NEW p, IsVector(p), NEW t, IsVector(t), NEW m \in Axes
  PROVE  Plus(Apply(InverseRotation(r), Plus(Apply(r, p), t)),
              Negated(Apply(InverseRotation(r), t)))[m] = p[m]
<1> DEFINE s == InverseRotation(r)
           f == Apply(r, p)
<1>1. /\ IsMatrix(r) /\ IsMatrix(s) /\ Product(s, r) = Identity /\ IsVector(f)
  BY InverseEntries, InverseOnLeft, ApplyIsVector DEF IsUnimodular
<1> HIDE DEF s
<1>2. Apply(s, f)[m] = p[m]
  BY <1>1, ProductActs, IdentityFixes
<1> HIDE DEF f
<1> DEFINE x == Apply(s, f)[m]
           y == Apply(s, t)[m]
<1>3. Apply(s, Plus(f, t))[m] = x + y /\ x \in Int /\ y \in Int
  BY <1>1, ApplyIsLinear
<1>4. Plus(Apply(s, Plus(f, t)), Negated(Apply(s, t)))[m] = Apply(s, Plus(f, t))[m] + (-y)
  BY DEF Plus, Negated
<1>5. Plus(Apply(s, Plus(f, t)), Negated(Apply(s, t)))[m] = x
  <2> HIDE DEF x, y
  <2> QED BY <1>3, <1>4
<1> QED BY <1>2, <1>5 DEF s, f

(* Species and place of an atom.                                           *)
Site(atoms, i) == <<atoms[i].z, Wrap(atoms[i].position)>>

(* As the cell has finitely many sites, an operation that takes each atom  *)
(* to an atom takes some atom to each.                                     *)
LEMMA MapsReachAll ==
  ASSUME NEW atoms \in Seq(Atom), NEW r \in Matrix, IsUnimodular(r), NEW tau, IsVector(tau),
         AllAtomsMap(atoms, r, tau), NEW j \in DOMAIN atoms
  PROVE  \E i \in DOMAIN atoms : Lands(atoms, r, tau, i, j)
<1> DEFINE I == DOMAIN atoms
           S == {Site(atoms, i) : i \in I}
           F == [x \in S |-> <<x[1], Wrap(Plus(Apply(r, x[2]), tau))>>]
<1>1. IsMatrix(r)
  BY DEF IsUnimodular
<1>2. IsFiniteSet(S)
  <2> DEFINE at == [i \in I |-> Site(atoms, i)]
             n == Len(atoms)
  <2>1. I = 1 .. n /\ n \in Nat
    OBVIOUS
  <2>2. IsFiniteSet(I)
    <3> HIDE DEF n
    <3>1. 1 \in Int /\ n \in Int
      BY <2>1
    <3> QED BY <2>1, <3>1, FS_Interval
  <2>3. at \in Surjection(I, S)
    BY DEF Surjection
  <2> HIDE DEF at, S, I
  <2> QED BY <2>2, <2>3, FS_Surjection
<1>3. ASSUME NEW i \in I, NEW k \in I, Lands(atoms, r, tau, i, k)
      PROVE  F[Site(atoms, i)] = Site(atoms, k)
  <2> DEFINE p == atoms[i].position
             w == Wrap(p)
  <2>1. /\ IsVector(p) /\ IsVector(w) /\ SamePlace(w, p)
        /\ IsVector(Apply(r, w)) /\ IsVector(Apply(r, p))
    BY <1>1, PositionsAreVectors, WrapStays, ApplyIsVector
  <2>2. SamePlace(Apply(r, w), Apply(r, p)) /\ SamePlace(tau, tau)
    <3> HIDE DEF w, p
    <3> QED BY <1>1, <2>1, PlacesRotate DEF SamePlace
  <2>3. SamePlace(Plus(Apply(r, w), tau), Plus(Apply(r, p), tau))
    <3> HIDE DEF w, p
    <3> QED BY <2>1, <2>2, PlacesAdd
  <2>4. SamePlace(Plus(Apply(r, w), tau), atoms[k].position) /\ atoms[k].z = atoms[i].z
    BY <1>3, <2>3 DEF Lands, SamePlace
  <2>5. Wrap(Plus(Apply(r, w), tau)) = Wrap(atoms[k].position)
    BY <2>4, WrapsTogether
  <2>6. Site(atoms, i) \in S /\ Site(atoms, i)[1] = atoms[i].z /\ Site(atoms, i)[2] = w
    BY DEF Site
  <2>7. F[Site(atoms, i)] = <<atoms[i].z, Wrap(Plus(Apply(r, w), tau))>>
    <3> HIDE DEF S, w
    <3> QED BY <2>6
  <2> QED BY <2>4, <2>5, <2>7 DEF Site
<1>4. ASSUME NEW x \in S
      PROVE  \E i \in I, k \in I : x = Site(atoms, i) /\ Lands(atoms, r, tau, i, k)
  <2>1. PICK i \in I : x = Site(atoms, i)
    OBVIOUS
  <2>2. PICK k \in I : Lands(atoms, r, tau, i, k)
    BY AtomMap
  <2> QED BY <2>1, <2>2
<1>5. F \in [S -> S]
  <2>1. ASSUME NEW x \in S PROVE F[x] \in S
    <3>1. PICK i \in I, k \in I : x = Site(atoms, i) /\ Lands(atoms, r, tau, i, k)
      BY <1>4
    <3>2. F[x] = Site(atoms, k)
      <4> HIDE DEF F
      <4> QED BY <1>3, <3>1
    <3> HIDE DEF F
    <3> QED BY <3>2
  <2> HIDE DEF S
  <2> QED BY <2>1
<1>6. ASSUME NEW x \in S, NEW y \in S, F[x] = F[y] PROVE x = y
  <2>1. PICK i \in I : x = Site(atoms, i)
    OBVIOUS
  <2>2. PICK k \in I : y = Site(atoms, k)
    OBVIOUS
  <2> DEFINE u == Wrap(atoms[i].position)
             v == Wrap(atoms[k].position)
  <2>3. x = <<atoms[i].z, u>> /\ y = <<atoms[k].z, v>>
    BY <2>1, <2>2 DEF Site
  <2>4. IsVector(u) /\ IsVector(v) /\ u = Wrap(u) /\ v = Wrap(v)
    BY PositionsAreVectors, WrapStays
  <2> HIDE DEF u, v
  <2>5. x[1] = y[1] /\ Wrap(Plus(Apply(r, u), tau)) = Wrap(Plus(Apply(r, v), tau))
    <3> HIDE DEF S
    <3> QED BY <1>6, <2>3
  <2>6. SamePlace(u, v)
    <3> DEFINE s == InverseRotation(r)
               f == Plus(Apply(r, u), tau)
               g == Plus(Apply(r, v), tau)
               n == Negated(Apply(s, tau))
    <3>1. SamePlace(f, g)
      BY <2>5, WrapsTogether
    <3>2. /\ IsVector(f) /\ IsVector(g) /\ IsMatrix(s) /\ IsVector(Apply(s, tau))
          /\ IsVector(n)
      BY <1>1, <2>4, ApplyIsVector, VectorSums, InverseEntries
    <3>3. \A m \in Axes : /\ Plus(Apply(s, f), n)[m] = u[m]
                          /\ Plus(Apply(s, g), n)[m] = v[m]
      BY <2>4, InverseCancels
    <3> HIDE DEF f, g, s, n
    <3>4. SamePlace(Apply(s, f), Apply(s, g)) /\ SamePlace(n, n)
      BY <3>1, <3>2, PlacesRotate DEF SamePlace
    <3>5. IsVector(Apply(s, f)) /\ IsVector(Apply(s, g))
      BY <3>2, ApplyIsVector
    <3>6. SamePlace(Plus(Apply(s, f), n), Plus(Apply(s, g), n))
      BY <3>2, <3>4, <3>5, PlacesAdd
    <3> QED BY <3>3, <3>6 DEF SamePlace
  <2>7. u = v
    BY <2>4, <2>6, WrapsTogether
  <2> QED BY <2>3, <2>5, <2>7
<1>7. F \in Surjection(S, S)
  <2>1. F \in Injection(S, S)
    <3> HIDE DEF F, S
    <3> QED BY <1>5, <1>6 DEF Injection, IsInjective
  <2> HIDE DEF F, S
  <2> QED BY <1>2, <2>1, FS_Injection
<1>8. PICK x \in S : F[x] = Site(atoms, j)
  <2>1. Site(atoms, j) \in S
    OBVIOUS
  <2> HIDE DEF F, S
  <2> QED BY <1>7, <2>1 DEF Surjection
<1>9. PICK i \in I, k \in I : x = Site(atoms, i) /\ Lands(atoms, r, tau, i, k)
  BY <1>4
<1>10. Site(atoms, k) = Site(atoms, j)
  <2> HIDE DEF F
  <2> QED BY <1>3, <1>8, <1>9
<1>11. SamePlace(atoms[k].position, atoms[j].position) /\ atoms[k].z = atoms[j].z
  BY <1>10, WrapsTogether DEF Site
<1>12. Lands(atoms, r, tau, i, j)
  BY <1>9, <1>11 DEF Lands, SamePlace
<1> QED BY <1>12

(* So the inverse operation takes every atom to an atom.                   *)
LEMMA MapsInvert ==
  ASSUME NEW atoms \in Seq(Atom), NEW r \in Matrix, IsUnimodular(r), NEW t, IsVector(t),
         AllAtomsMap(atoms, r, t)
  PROVE  /\ AllAtomsMap(atoms, InverseRotation(r), Negated(Apply(InverseRotation(r), t)))
         /\ IsVector(Negated(Apply(InverseRotation(r), t)))
<1> DEFINE s == InverseRotation(r)
           n == Negated(Apply(s, t))
<1>1. IsMatrix(r) /\ IsMatrix(s) /\ IsVector(Apply(s, t)) /\ IsVector(n)
  BY InverseEntries, ApplyIsVector, VectorSums DEF IsUnimodular
<1>2. ASSUME NEW i \in DOMAIN atoms
      PROVE  \E j \in DOMAIN atoms : Lands(atoms, s, n, i, j)
  <2>1. PICK j \in DOMAIN atoms : Lands(atoms, r, t, j, i)
    BY MapsReachAll
  <2> DEFINE p == atoms[j].position
             q == atoms[i].position
             f == Plus(Apply(r, p), t)
  <2>2. IsVector(p) /\ IsVector(q) /\ IsVector(f) /\ SamePlace(q, f)
    BY <1>1, <2>1, PositionsAreVectors, VectorSums DEF Lands, SamePlace
  <2>3. \A m \in Axes : Plus(Apply(s, f), n)[m] = p[m]
    <3> HIDE DEF p
    <3> QED BY <2>2, InverseCancels
  <2> HIDE DEF f, s, n, q
  <2>4. IsVector(Apply(s, q)) /\ IsVector(Apply(s, f)) /\ SamePlace(Apply(s, q), Apply(s, f))
    BY <1>1, <2>2, PlacesRotate, ApplyIsVector
  <2>5. SamePlace(Plus(Apply(s, q), n), Plus(Apply(s, f), n))
    <3>1. SamePlace(n, n)
      BY DEF SamePlace
    <3> QED BY <1>1, <2>4, <3>1, PlacesAdd
  <2>6. Lands(atoms, s, n, i, j)
    BY <2>1, <2>3, <2>5 DEF Lands, SamePlace, q
  <2> QED BY <2>6
<1> QED BY <1>1, <1>2, AtomMap
-----------------------------------------------------------------------------
(* The group of a detected cell.                                           *)

(* A crystal as CrystalAssumption has them.                                *)
IsCrystal(c) == IsMetric(c.metric) /\ c.atoms \in Seq(Atom)

(* What the detection finds of a rotation: a translation that works.       *)
LEMMA FirstTranslationWorks ==
  ASSUME NEW atoms \in Seq(Atom), atoms # <<>>, NEW r, IsMatrix(r), HasTranslation(atoms, r)
  PROVE  /\ IsVector(Translation(atoms, r))
         /\ AllAtomsMap(atoms, r, Translation(atoms, r))
<1> DEFINE T == Targets(atoms, r)
           f == CHOOSE i \in T : \A j \in T : i <= j
           m == Min(T)
           n == Len(atoms)
<1>1. T # {} /\ T \subseteq DOMAIN atoms /\ n \in Nat /\ DOMAIN atoms = 1 .. n
      /\ 1 \in DOMAIN atoms
  BY DEF HasTranslation, Targets
<1>2. Translation(atoms, r) = TranslationTo(atoms, r, f)
  BY DEF Translation
<1>3. \A i \in T : AllAtomsMap(atoms, r, TranslationTo(atoms, r, i))
  BY DEF Targets
<1> HIDE DEF T, n
<1>4. IsFiniteSet(T) /\ T \in SUBSET Int
  <2>1. IsFiniteSet(1 .. n)
    <3>1. 1 \in Int /\ n \in Int
      BY <1>1
    <3> QED BY <3>1, FS_Interval
  <2> QED BY <1>1, <2>1, FS_Subset
<1>5. m \in T /\ \A j \in T : m <= j
  BY <1>1, <1>4, MinExists
<1> HIDE DEF m
<1>6. f \in T
  BY <1>5
<1> HIDE DEF f
<1>7. IsVector(TranslationTo(atoms, r, f))
  <2> DEFINE p == atoms[f].position
             q == Apply(r, atoms[1].position)
  <2>1. IsVector(p) /\ IsVector(q)
    BY <1>1, <1>6, PositionsAreVectors
  <2>2. TranslationTo(atoms, r, f) = Wrap(Plus(p, Negated(q)))
    BY DEF TranslationTo
  <2> HIDE DEF p, q
  <2>3. IsVector(Plus(p, Negated(q)))
    BY <2>1, VectorSums
  <2> QED BY <2>2, <2>3, WrapStays
<1> QED BY <1>2, <1>3, <1>6, <1>7

(* If one translation works, the detection has one.                        *)
LEMMA WorkingTranslationIsTried ==
  ASSUME NEW atoms \in Seq(Atom), NEW r, IsMatrix(r), NEW u, IsVector(u),
         AllAtomsMap(atoms, r, u)
  PROVE  HasTranslation(atoms, r)
<1> SUFFICES ASSUME atoms # <<>> PROVE Targets(atoms, r) # {}
  BY DEF HasTranslation
<1>1. 1 \in DOMAIN atoms
  OBVIOUS
<1>2. PICK i \in DOMAIN atoms : Lands(atoms, r, u, 1, i)
  BY <1>1, AtomMap
<1> DEFINE p == Apply(r, atoms[1].position)
           q == atoms[i].position
           n == Negated(p)
           w == Plus(q, n)
<1>3. IsVector(p) /\ IsVector(q) /\ IsVector(n) /\ IsVector(w) /\ IsVector(Plus(p, u))
  BY <1>1, PositionsAreVectors, VectorSums
<1>4. SamePlace(u, w)
  <2>1. SamePlace(Plus(p, u), q) /\ SamePlace(n, n)
    BY <1>2 DEF Lands, SamePlace
  <2>2. \A j \in Axes : Plus(Plus(p, u), n)[j] = u[j]
    <3>1. ASSUME NEW j \in Axes PROVE Plus(Plus(p, u), n)[j] = u[j]
      <4> DEFINE x == p[j]
                 y == u[j]
      <4>1. x \in Int /\ y \in Int /\ Plus(Plus(p, u), n)[j] = (x + y) + (-x)
        BY <1>3 DEF IsVector, Plus, Negated
      <4> HIDE DEF x, y, p, n
      <4>2. Plus(Plus(p, u), n)[j] = y
        BY <4>1
      <4> QED BY <4>2 DEF y
    <3> QED BY <3>1
  <2> HIDE DEF p, q, n
  <2>3. SamePlace(Plus(Plus(p, u), n), Plus(q, n))
    BY <1>3, <2>1, PlacesAdd
  <2> QED BY <2>2, <2>3 DEF SamePlace
<1>5. TranslationTo(atoms, r, i) = Wrap(w)
  BY DEF TranslationTo
<1> HIDE DEF w
<1>6. IsVector(Wrap(w)) /\ SamePlace(u, Wrap(w))
  BY <1>3, <1>4, WrapStays DEF SamePlace
<1>7. AllAtomsMap(atoms, r, TranslationTo(atoms, r, i))
  BY <1>5, <1>6, MapsAgree
<1>8. i \in Targets(atoms, r)
  BY <1>2, <1>7 DEF Targets, Lands
<1> QED BY <1>8

(* What is known of every operation found.                                 *)
LEMMA FoundOperation ==
  ASSUME NEW c, IsCrystal(c), NEW op \in FindSymmetryOperations(c)
  PROVE  /\ IsRotation(op.rotation, c.metric) /\ op.rotation \in Matrix
         /\ IsUnimodular(op.rotation) /\ IsMatrix(op.rotation)
         /\ IsVector(op.translation)
         /\ AllAtomsMap(c.atoms, op.rotation, op.translation)
         /\ c.atoms = <<>> => op.translation = Wrap(<<0, 0, 0>>)
<1>1. PICK r \in MetricPreservingRotations(c.metric) :
        HasTranslation(c.atoms, r) /\ op = Operation(r, Translation(c.atoms, r))
  BY DEF FindSymmetryOperations
<1> DEFINE tau == Translation(c.atoms, r)
<1>2. op.rotation = r /\ op.translation = Wrap(tau)
  BY <1>1 DEF Operation
<1>3. IsRotation(r, c.metric) /\ r \in Matrix /\ IsUnimodular(r) /\ IsMatrix(r)
  BY FoundAreRotations DEF IsCrystal, IsRotation, IsUnimodular
<1>4. CASE c.atoms = <<>>
  <2>1. tau = <<0, 0, 0>>
    BY <1>4 DEF Translation
  <2>2. IsVector(<<0, 0, 0>>)
    BY DEF IsVector, Axes
  <2>3. IsVector(op.translation) /\ op.translation = Wrap(<<0, 0, 0>>)
    BY <1>2, <2>1, <2>2, WrapStays
  <2>4. DOMAIN c.atoms = {}
    BY <1>4
  <2> QED BY <1>2, <1>3, <2>3, <2>4 DEF AllAtomsMap
<1>5. CASE c.atoms # <<>>
  <2>1. IsVector(tau) /\ AllAtomsMap(c.atoms, r, tau)
    BY <1>1, <1>3, <1>5, FirstTranslationWorks DEF IsCrystal
  <2> HIDE DEF tau
  <2>2. IsVector(Wrap(tau)) /\ SamePlace(tau, Wrap(tau))
    BY <2>1, WrapStays DEF SamePlace
  <2>3. AllAtomsMap(c.atoms, r, Wrap(tau))
    BY <1>3, <2>1, <2>2, MapsAgree DEF IsCrystal
  <2> QED BY <1>2, <1>3, <1>5, <2>2, <2>3
<1> QED BY <1>4, <1>5

(* Where the radius covers the cell, the inverse rotation of every         *)
(* operation is found, in a primitive cell or not.                         *)
LEMMA InverseRotationIsFound ==
  ASSUME NEW c, IsCrystal(c), RadiusCovers(c.metric), NEW op \in FindSymmetryOperations(c)
  PROVE  \E inv \in FindSymmetryOperations(c) : inv.rotation = InverseRotation(op.rotation)
<1> DEFINE r == op.rotation
           s == InverseRotation(r)
           n == Negated(Apply(s, op.translation))
           inv == Operation(s, Translation(c.atoms, s))
<1>1. /\ IsRotation(r, c.metric) /\ r \in Matrix /\ IsUnimodular(r) /\ IsVector(op.translation)
      /\ AllAtomsMap(c.atoms, r, op.translation)
  BY FoundOperation
<1>2. s \in MetricPreservingRotations(c.metric) /\ IsMatrix(s)
  BY <1>1, RotationsInvert, RotationsAreFound DEF IsCrystal, IsRotation, IsUnimodular
<1>3. IsVector(n) /\ AllAtomsMap(c.atoms, s, n)
  BY <1>1, MapsInvert DEF IsCrystal
<1>4. HasTranslation(c.atoms, s)
  <2> HIDE DEF s, n
  <2> QED BY <1>2, <1>3, WorkingTranslationIsTried DEF IsCrystal
<1>5. inv \in FindSymmetryOperations(c) /\ inv.rotation = s
  BY <1>2, <1>4 DEF FindSymmetryOperations, Operation
<1> QED BY <1>5

(* In a primitive cell a rotation has one translation only.                *)
LEMMA TranslationIsUnique ==
  ASSUME NEW atoms \in Seq(Atom), atoms # <<>>, IsPrimitive(atoms),
         NEW r \in Matrix, IsUnimodular(r), NEW t, IsVector(t), NEW u, IsVector(u),
         AllAtomsMap(atoms, r, t), AllAtomsMap(atoms, r, u)
  PROVE  SamePlace(t, u)
<1> DEFINE s == InverseRotation(r)
           n == Negated(Apply(s, t))
           w == Plus(Apply(r, n), u)
<1>1. IsMatrix(r) /\ IsMatrix(s) /\ Product(r, s) = Identity /\ IsVector(Apply(s, t))
  BY InverseEntries, InverseOnRight, ApplyIsVector DEF IsUnimodular
<1>2. AllAtomsMap(atoms, s, n) /\ IsVector(n)
  BY MapsInvert
<1>3. AllAtomsMap(atoms, Identity, w)
  <2> HIDE DEF n, s
  <2> QED BY <1>1, <1>2, MapsCompose
<1>4. IsVector(w)
  <2> HIDE DEF n
  <2> QED BY <1>1, <1>2, ApplyIsVector, VectorSums
<1>5. ASSUME NEW j \in Axes PROVE w[j] = u[j] - t[j]
  <2> DEFINE g == Apply(s, t)
             x == Apply(r, g)[j]
             y == u[j]
  <2>1. x = t[j]
    <3>1. Apply(Product(r, s), t)[j] = x
      BY <1>1, ProductActs
    <3> QED BY <1>1, <3>1, IdentityFixes
  <2>2. Apply(r, n)[j] = -x /\ x \in Int
    <3> HIDE DEF g
    <3> QED BY <1>1, ApplyIsLinear DEF g
  <2>3. w[j] = Apply(r, n)[j] + y /\ y \in Int
    BY DEF Plus, IsVector
  <2>4. w[j] = y - x
    <3> HIDE DEF x, y, n, w
    <3> QED BY <2>2, <2>3
  <2> QED BY <2>1, <2>4
<1> HIDE DEF w
<1>6. AllAtomsMap(atoms, Identity, Wrap(w)) /\ Wrap(w) \in [Axes -> 0 .. Unit - 1]
  <2>1. IsVector(Wrap(w)) /\ SamePlace(w, Wrap(w)) /\ Wrap(w) \in [Axes -> 0 .. Unit - 1]
    BY <1>4, WrapStays DEF SamePlace
  <2>2. IsMatrix(Identity)
    BY IdentityIsMatrix
  <2> QED BY <1>3, <1>4, <2>1, <2>2, MapsAgree
<1>7. \A j \in Axes : Wrap(w)[j] = 0
  BY <1>6 DEF IsPrimitive
<1>8. ASSUME NEW j \in Axes PROVE t[j] % Unit = u[j] % Unit
  <2> DEFINE x == t[j]
             y == u[j]
             z == w[j]
  <2>1. x \in Int /\ y \in Int /\ z = y - x /\ z % Unit = 0 /\ Unit \in Nat \ {0}
    BY <1>5, <1>7, UnitAssumption DEF IsVector, Wrap
  <2> HIDE DEF x, y, z
  <2>2. z \in Int /\ z \div Unit \in Int /\ z = Unit * (z \div Unit) + (z % Unit)
    BY <2>1, DivMod
  <2> DEFINE k == z \div Unit
  <2>3. k \in Int /\ y = x + Unit * k
    BY <2>1, <2>2
  <2> HIDE DEF k
  <2>4. (x + Unit * k) % Unit = x % Unit
    BY <2>1, <2>3, ResidueOfSum
  <2>5. x % Unit = y % Unit
    BY <2>3, <2>4
  <2> QED BY <2>5 DEF x, y
<1> QED BY <1>8 DEF SamePlace

(* So every operation of the cell is found.                                *)
LEMMA OperationIsFound ==
  ASSUME NEW c, IsCrystal(c), RadiusCovers(c.metric), IsPrimitive(c.atoms),
         NEW r, IsRotation(r, c.metric), NEW u, IsVector(u), AllAtomsMap(c.atoms, r, u),
         c.atoms = <<>> => SamePlace(u, <<0, 0, 0>>)
  PROVE  Operation(r, u) \in FindSymmetryOperations(c)
<1> DEFINE tau == Translation(c.atoms, r)
<1>1. r \in MetricPreservingRotations(c.metric) /\ r \in Matrix /\ IsUnimodular(r) /\ IsMatrix(r)
  BY RotationsAreFound DEF IsCrystal, IsRotation, IsUnimodular
<1>2. HasTranslation(c.atoms, r)
  BY <1>1, WorkingTranslationIsTried DEF IsCrystal
<1>3. SamePlace(u, tau)
  <2>1. CASE c.atoms = <<>>
    BY <2>1 DEF Translation
  <2>2. CASE c.atoms # <<>>
    <3>1. IsVector(tau) /\ AllAtomsMap(c.atoms, r, tau)
      BY <1>1, <1>2, <2>2, FirstTranslationWorks DEF IsCrystal
    <3> HIDE DEF tau
    <3> QED BY <1>1, <2>2, <3>1, TranslationIsUnique DEF IsCrystal
  <2> QED BY <2>1, <2>2
<1>4. Operation(r, u) = Operation(r, tau)
  BY <1>3, WrapsTogether DEF Operation
<1> QED BY <1>1, <1>2, <1>4 DEF FindSymmetryOperations

(* The inverse of an operation found is one.                               *)
LEMMA InverseIsFound ==
  ASSUME NEW c, IsCrystal(c), RadiusCovers(c.metric), IsPrimitive(c.atoms),
         NEW a \in FindSymmetryOperations(c)
  PROVE  InverseOp(a) \in FindSymmetryOperations(c)
<1> DEFINE r == a.rotation
           s == InverseRotation(r)
           t == a.translation
           n == Negated(Apply(s, t))
<1>1. /\ IsRotation(r, c.metric) /\ r \in Matrix /\ IsUnimodular(r) /\ IsVector(t)
      /\ AllAtomsMap(c.atoms, r, t)
      /\ c.atoms = <<>> => t = Wrap(<<0, 0, 0>>)
  BY FoundOperation
<1>2. IsRotation(s, c.metric) /\ IsMatrix(s)
  BY <1>1, RotationsInvert DEF IsCrystal, IsRotation, IsUnimodular
<1>3. IsVector(n) /\ AllAtomsMap(c.atoms, s, n)
  BY <1>1, MapsInvert DEF IsCrystal
<1>4. c.atoms = <<>> => SamePlace(n, <<0, 0, 0>>)
  <2>1. SUFFICES ASSUME c.atoms = <<>> PROVE \A j \in Axes : n[j] = 0
    BY DEF SamePlace, Axes
  <2>2. \A j \in Axes : t[j] = 0
    <3>1. 0 % Unit = 0
      BY UnitAssumption
    <3> QED BY <1>1, <2>1, <3>1 DEF Wrap, Axes
  <2>3. ASSUME NEW j \in Axes PROVE n[j] = 0
    <3> DEFINE x == s[j][1]  y == s[j][2]  z == s[j][3]
    <3>1. x \in Int /\ y \in Int /\ z \in Int
      BY <1>2 DEF IsMatrix, Axes
    <3>2. n[j] = - (x * t[1] + y * t[2] + z * t[3])
      BY DEF Negated, Apply
    <3>3. t[1] = 0 /\ t[2] = 0 /\ t[3] = 0
      BY <2>2 DEF Axes
    <3> HIDE DEF x, y, z, n, t
    <3> QED BY <3>1, <3>2, <3>3
  <2> QED BY <2>3
<1> HIDE DEF n, s
<1>5. Operation(s, n) \in FindSymmetryOperations(c)
  BY <1>2, <1>3, <1>4, OperationIsFound
<1> QED BY <1>5 DEF InverseOp, n, s

(* So is the composition of two.                                           *)
LEMMA CompositionIsFound ==
  ASSUME NEW c, IsCrystal(c), RadiusCovers(c.metric), IsPrimitive(c.atoms),
         NEW a \in FindSymmetryOperations(c), NEW b \in FindSymmetryOperations(c)
  PROVE  Compose(a, b) \in FindSymmetryOperations(c)
<1> DEFINE r == a.rotation
           s == b.rotation
           t == a.translation
           u == b.translation
           w == Plus(Apply(r, u), t)
<1>1. /\ IsRotation(r, c.metric) /\ IsMatrix(r) /\ IsVector(t)
      /\ AllAtomsMap(c.atoms, r, t)
      /\ c.atoms = <<>> => t = Wrap(<<0, 0, 0>>)
  BY FoundOperation
<1>2. /\ IsRotation(s, c.metric) /\ IsMatrix(s) /\ IsVector(u)
      /\ AllAtomsMap(c.atoms, s, u)
      /\ c.atoms = <<>> => u = Wrap(<<0, 0, 0>>)
  BY FoundOperation
<1> HIDE DEF r, s, t, u
<1>3. IsRotation(Product(r, s), c.metric)
  BY <1>1, <1>2, RotationsCompose DEF IsCrystal
<1>4. IsVector(w) /\ AllAtomsMap(c.atoms, Product(r, s), w)
  BY <1>1, <1>2, MapsCompose, ApplyIsVector, VectorSums DEF IsCrystal
<1>5. c.atoms = <<>> => SamePlace(w, <<0, 0, 0>>)
  <2>1. SUFFICES ASSUME c.atoms = <<>> PROVE \A j \in Axes : w[j] = 0
    BY DEF SamePlace, Axes
  <2>2. \A j \in Axes : t[j] = 0 /\ u[j] = 0
    <3>1. 0 % Unit = 0
      BY UnitAssumption
    <3> QED BY <1>1, <1>2, <2>1, <3>1 DEF Wrap, Axes
  <2>3. ASSUME NEW j \in Axes PROVE w[j] = 0
    <3> DEFINE x == r[j][1]  y == r[j][2]  z == r[j][3]
    <3>1. x \in Int /\ y \in Int /\ z \in Int
      BY <1>1 DEF IsMatrix, Axes
    <3>2. w[j] = (x * u[1] + y * u[2] + z * u[3]) + t[j]
      BY DEF Plus, Apply
    <3>3. u[1] = 0 /\ u[2] = 0 /\ u[3] = 0 /\ t[j] = 0
      BY <2>2 DEF Axes
    <3> HIDE DEF x, y, z, w
    <3> QED BY <3>1, <3>2, <3>3
  <2> QED BY <2>3
<1> HIDE DEF w
<1>6. Operation(Product(r, s), w) \in FindSymmetryOperations(c)
  BY <1>3, <1>4, <1>5, OperationIsFound
<1> QED BY <1>6 DEF Compose, w, r, s, t, u

(* The identity alone is a group.                                          *)
LEMMA IdentityAlone ==
  /\ InverseRotation(Identity) = Identity
  /\ InverseOp(IdentityOp) = IdentityOp
  /\ Compose(IdentityOp, IdentityOp) = IdentityOp
<1> DEFINE t == IdentityOp.translation
<1>1. IdentityOp.rotation = Identity /\ IsUnimodular(Identity) /\ Identity \in Matrix
  BY IdentityIsMatrix, IdentityIsUnimodular DEF Matrix, Identity, Axes
<1>2. Product(Identity, Identity) = Identity /\ InverseRotation(Identity) = Identity
  <2>1. InverseRotation(Identity) \in Matrix
    BY <1>1, InverseEntries DEF IsUnimodular
  <2> QED BY <1>1, <2>1, InverseOnRight, IdentityIsNeutral
<1>3. \A j \in Axes : t[j] = 0
  <2>1. 0 % Unit = 0
    BY UnitAssumption
  <2> QED BY <2>1 DEF IdentityOp, Operation, Wrap, Axes
<1>4. IsVector(t) /\ \A j \in Axes : Apply(Identity, t)[j] = 0
  <2>1. IsVector(t)
    BY <1>3 DEF IsVector
  <2> QED BY <1>3, <2>1, IdentityFixes
<1> HIDE DEF t
<1>5. /\ SamePlace(Negated(Apply(Identity, t)), <<0, 0, 0>>)
      /\ SamePlace(Plus(Apply(Identity, t), t), <<0, 0, 0>>)
  <2>1. \A j \in Axes : Negated(Apply(Identity, t))[j] = 0 /\ Plus(Apply(Identity, t), t)[j] = 0
    BY <1>3, <1>4 DEF Negated, Plus
  <2> QED BY <2>1 DEF SamePlace, Axes
<1>6. /\ Wrap(Negated(Apply(Identity, t))) = Wrap(<<0, 0, 0>>)
      /\ Wrap(Plus(Apply(Identity, t), t)) = Wrap(<<0, 0, 0>>)
  BY <1>5, WrapsTogether
<1>7. IdentityOp = [rotation |-> Identity, translation |-> Wrap(<<0, 0, 0>>)]
  BY DEF IdentityOp, Operation
<1> QED BY <1>1, <1>2, <1>6, <1>7 DEF InverseOp, Compose, Operation, t
-----------------------------------------------------------------------------
(* Inverses of products, and that there are finitely many operations.      *)

(* The inverse of a product.                                               *)
LEMMA InverseOfProduct ==
  ASSUME NEW a \in Matrix, IsUnimodular(a), NEW b \in Matrix, IsUnimodular(b)
  PROVE  InverseRotation(Product(a, b)) = Product(InverseRotation(b), InverseRotation(a))
<1> DEFINE p == Product(a, b)
           c == InverseRotation(p)
           x == InverseRotation(a)
           y == InverseRotation(b)
           d == Product(y, x)
<1>1. /\ IsMatrix(a) /\ IsMatrix(b) /\ IsMatrix(x) /\ IsMatrix(y) /\ x \in Matrix /\ y \in Matrix
      /\ IsMatrix(p) /\ p \in Matrix /\ IsUnimodular(p)
      /\ Product(a, x) = Identity /\ Product(b, y) = Identity
  BY InverseEntries, InverseOnRight, ProductEntries, ProductIsUnimodular DEF IsUnimodular
<1>2. /\ IsMatrix(c) /\ c \in Matrix /\ Product(c, p) = Identity
      /\ IsMatrix(d) /\ d \in Matrix
  BY <1>1, InverseEntries, InverseOnLeft, ProductEntries
<1>3. Product(p, d) = Identity
  <2>1. Product(p, d) = Product(a, Product(b, Product(y, x)))
    BY <1>1, <1>2, ProductAssociates
  <2>2. Product(b, Product(y, x)) = Product(Product(b, y), x)
    BY <1>1, ProductAssociates
  <2>3. Product(Product(b, y), x) = x
    BY <1>1, IdentityIsNeutral
  <2> QED BY <1>1, <2>1, <2>2, <2>3
<1> HIDE DEF p, c, d
<1>4. Product(c, Product(p, d)) = Product(Product(c, p), d)
  BY <1>1, <1>2, ProductAssociates
<1>5. c = d
  BY <1>2, <1>3, <1>4, IdentityIsNeutral
<1> QED BY <1>5 DEF p, c, d

(* What acts on k-points composes in the same order.                       *)
LEMMA InverseTransposeOfProduct ==
  ASSUME NEW a \in Matrix, IsUnimodular(a), NEW b \in Matrix, IsUnimodular(b)
  PROVE  InverseTranspose(Product(a, b)) = Product(InverseTranspose(a), InverseTranspose(b))
<1> DEFINE x == InverseRotation(a)
           y == InverseRotation(b)
           A == InverseTranspose(a)
           B == InverseTranspose(b)
           L == InverseTranspose(Product(a, b))
<1>1. /\ IsMatrix(a) /\ IsMatrix(b) /\ IsMatrix(x) /\ IsMatrix(y)
      /\ IsMatrix(A) /\ IsMatrix(B)
  BY InverseEntries, InverseTransposeIsMatrix DEF IsUnimodular
<1>2. L = Transpose(Product(y, x))
  BY InverseOfProduct DEF InverseTranspose
<1>3. \A i, j \in Axes : A[i][j] = x[j][i] /\ B[i][j] = y[j][i] /\ L[i][j] = Product(y, x)[j][i]
  BY <1>2 DEF InverseTranspose, Transpose
<1> HIDE DEF x, y, A, B, L
<1>4. ASSUME NEW i \in Axes, NEW j \in Axes PROVE L[i][j] = Product(A, B)[i][j]
  <2> DEFINE p == y[j][1]  q == y[j][2]  r == y[j][3]
             u == x[1][i]  v == x[2][i]  w == x[3][i]
  <2>1. /\ p \in Int /\ q \in Int /\ r \in Int /\ u \in Int /\ v \in Int /\ w \in Int
    BY <1>1 DEF IsMatrix, Axes
  <2>2. L[i][j] = p * u + q * v + r * w
    BY <1>1, <1>3, ProductEntries
  <2>3. Product(A, B)[i][j] = A[i][1] * B[1][j] + A[i][2] * B[2][j] + A[i][3] * B[3][j]
    BY <1>1, ProductEntries
  <2>4. /\ A[i][1] = u /\ A[i][2] = v /\ A[i][3] = w
        /\ B[1][j] = p /\ B[2][j] = q /\ B[3][j] = r
    BY <1>3 DEF Axes
  <2> HIDE DEF p, q, r, u, v, w
  <2> QED BY <2>1, <2>2, <2>3, <2>4
<1>5. L \in Matrix /\ Product(A, B) \in Matrix
  <2>1. Product(y, x) \in Matrix /\ IsMatrix(Product(y, x))
    BY <1>1, ProductEntries
  <2> QED BY <1>1, <1>2, <2>1, ProductEntries, DetOfTranspose
<1>6. L = Product(A, B)
  BY <1>4, <1>5, MatrixEqual
<1> QED BY <1>6 DEF L, A, B

(* A sign passes through a matrix.                                         *)
LEMMA ApplySigned ==
  ASSUME NEW r, IsMatrix(r), NEW u, IsVector(u), NEW s \in Int, NEW i \in Axes
  PROVE  Apply(r, [j \in Axes |-> s * u[j]])[i] = s * Apply(r, u)[i] /\ Apply(r, u)[i] \in Int
<1> DEFINE a == r[i][1]  b == r[i][2]  c == r[i][3]
           x == u[1]  y == u[2]  z == u[3]
           v == [j \in Axes |-> s * u[j]]
<1>1. /\ a \in Int /\ b \in Int /\ c \in Int /\ x \in Int /\ y \in Int /\ z \in Int
  BY DEF IsMatrix, IsVector, Axes
<1>2. /\ Apply(r, v)[i] = a * (s * x) + b * (s * y) + c * (s * z)
      /\ Apply(r, u)[i] = a * x + b * y + c * z
  BY DEF Apply, Axes
<1> HIDE DEF a, b, c, x, y, z, v
<1>3. Apply(r, v)[i] = s * Apply(r, u)[i] /\ Apply(r, u)[i] \in Int
  BY <1>1, <1>2
<1> QED BY <1>3 DEF v

(* Where the radius covers the cell, the product of two rotations found is *)
(* found.                                                                  *)
LEMMA ProductRotationIsFound ==
  ASSUME NEW c, IsCrystal(c), RadiusCovers(c.metric),
         NEW a \in FindSymmetryOperations(c), NEW b \in FindSymmetryOperations(c)
  PROVE  \E op \in FindSymmetryOperations(c) : op.rotation = Product(a.rotation, b.rotation)
<1> DEFINE r == Product(a.rotation, b.rotation)
           w == Plus(Apply(a.rotation, b.translation), a.translation)
           op == Operation(r, Translation(c.atoms, r))
<1>1. /\ IsRotation(a.rotation, c.metric) /\ IsMatrix(a.rotation) /\ IsVector(a.translation)
      /\ AllAtomsMap(c.atoms, a.rotation, a.translation)
  BY FoundOperation
<1>2. /\ IsRotation(b.rotation, c.metric) /\ IsMatrix(b.rotation) /\ IsVector(b.translation)
      /\ AllAtomsMap(c.atoms, b.rotation, b.translation)
  BY FoundOperation
<1>3. IsRotation(r, c.metric) /\ IsMatrix(r)
  BY <1>1, <1>2, RotationsCompose, ProductEntries DEF IsCrystal
<1>4. r \in MetricPreservingRotations(c.metric)
  <2> HIDE DEF r
  <2> QED BY <1>3, RotationsAreFound DEF IsCrystal
<1>5. IsVector(w) /\ AllAtomsMap(c.atoms, r, w)
  BY <1>1, <1>2, MapsCompose, ApplyIsVector, VectorSums DEF IsCrystal
<1>6. HasTranslation(c.atoms, r)
  <2> HIDE DEF r, w
  <2> QED BY <1>3, <1>5, WorkingTranslationIsTried DEF IsCrystal
<1>7. op \in FindSymmetryOperations(c) /\ op.rotation = r
  BY <1>4, <1>6 DEF FindSymmetryOperations, Operation
<1> QED BY <1>7

(* There are finitely many operations.                                     *)
LEMMA TriplesAreFinite ==
  ASSUME NEW A, IsFiniteSet(A), NEW B, IsFiniteSet(B), NEW C, IsFiniteSet(C)
  PROVE  IsFiniteSet(A \X B \X C)
<1> DEFINE P == (A \X B) \X C
           T == A \X B \X C
           f == [u \in P |-> <<u[1][1], u[1][2], u[2]>>]
<1>1. IsFiniteSet(P)
  BY FS_Product
<1>2. \A u \in P : f[u] \in T
  OBVIOUS
<1>3. ASSUME NEW t \in T PROVE \E u \in P : f[u] = t
  <2>1. PICK a \in A, b \in B, c \in C : t = <<a, b, c>>
    OBVIOUS
  <2>2. <<<<a, b>>, c>> \in P /\ f[<<<<a, b>>, c>>] = t
    BY <2>1
  <2> QED BY <2>2
<1>4. f \in [P -> T]
  BY <1>2
<1>5. f \in Surjection(P, T)
  <2> HIDE DEF P, T, f
  <2> QED BY <1>3, <1>4 DEF Surjection
<1> HIDE DEF P, T, f
<1>6. IsFiniteSet(T)
  BY <1>1, <1>5, FS_Surjection
<1> QED BY <1>6 DEF T

(* There are finitely many candidates for a column.                        *)
LEMMA CandidatesAreFinite ==
  ASSUME NEW m, IsMetric(m), NEW j \in Axes
  PROVE  IsFiniteSet(CandidateVectors(m, j))
<1> DEFINE r(i) == SearchRadius(m[j][j], m[i][i])
           S(i) == (- r(i)) .. r(i)
           T == S(1) \X S(2) \X S(3)
<1>1. ASSUME NEW i \in Axes PROVE IsFiniteSet(S(i))
  <2> DEFINE a == r(i)
             b == - a
  <2>1. m[j][j] \in Nat \ {0} /\ m[i][i] \in Nat \ {0}
    BY DEF IsMetric
  <2>2. a \in Int
    <3> DEFINE t == m[j][j]
               d == m[i][i]
    <3>1. t \in Nat \ {0} /\ d \in Nat \ {0}
      BY <2>1
    <3> HIDE DEF t, d
    <3>2. SearchRadius(t, d) \in 1 .. t + 2
      BY <3>1, RadiusIsDefined
    <3>3. SearchRadius(t, d) \in Int
      BY <3>1, <3>2
    <3> QED BY <3>3 DEF t, d
  <2> HIDE DEF a
  <2>3. b \in Int
    BY <2>2
  <2> HIDE DEF b
  <2>4. IsFiniteSet(b .. a)
    BY <2>2, <2>3, FS_Interval
  <2> QED BY <2>4 DEF a, b
<1>2. IsFiniteSet(S(1)) /\ IsFiniteSet(S(2)) /\ IsFiniteSet(S(3))
  BY <1>1 DEF Axes
<1>3. CandidateVectors(m, j) \subseteq T
  BY DEF CandidateVectors
<1>4. IsFiniteSet(T)
  <2> HIDE DEF S
  <2> QED BY <1>2, TriplesAreFinite
<1> HIDE DEF T
<1> QED BY <1>3, <1>4, FS_Subset
-----------------------------------------------------------------------------
(* Reciprocal space: the adjugate of the metric, up to its determinant.    *)
Adjugate(m) == [i \in Axes |-> [j \in Axes |-> Cofactor(m, i, j)]]

(* The cofactors of a symmetric matrix are symmetric.                      *)
LEMMA CofactorsAreSymmetric ==
  ASSUME NEW m, IsMetric(m), NEW i \in Axes, NEW j \in Axes
  PROVE  Cofactor(m, i, j) = Cofactor(m, j, i) /\ Cofactor(m, i, j) \in Int
<1> DEFINE a == m[1][1]  b == m[1][2]  c == m[1][3]
           d == m[2][2]  e == m[2][3]  f == m[3][3]
<1>1. /\ a \in Int /\ b \in Int /\ c \in Int /\ d \in Int /\ e \in Int /\ f \in Int
      /\ m[2][1] = b /\ m[3][1] = c /\ m[3][2] = e
  BY DEF IsMetric, Axes
<1>2. /\ Cofactor(m, 1, 1) = d * f - e * e /\ Cofactor(m, 2, 2) = f * a - c * c
      /\ Cofactor(m, 3, 3) = a * d - b * b
      /\ Cofactor(m, 1, 2) = e * c - b * f /\ Cofactor(m, 2, 1) = e * c - f * b
      /\ Cofactor(m, 1, 3) = b * e - d * c /\ Cofactor(m, 3, 1) = b * e - c * d
      /\ Cofactor(m, 2, 3) = c * b - e * a /\ Cofactor(m, 3, 2) = c * b - a * e
  BY <1>1 DEF Cofactor
<1> HIDE DEF a, b, c, d, e, f
<1>3. /\ Cofactor(m, 1, 2) = Cofactor(m, 2, 1) /\ Cofactor(m, 1, 3) = Cofactor(m, 3, 1)
      /\ Cofactor(m, 2, 3) = Cofactor(m, 3, 2)
      /\ Cofactor(m, 1, 1) \in Int /\ Cofactor(m, 2, 2) \in Int /\ Cofactor(m, 3, 3) \in Int
      /\ Cofactor(m, 1, 2) \in Int /\ Cofactor(m, 1, 3) \in Int /\ Cofactor(m, 2, 3) \in Int
  BY <1>1, <1>2
<1> QED BY <1>3 DEF Axes

(* A combination of three rows, row by row.                                *)
LEMMA CombinedRows ==
  ASSUME NEW x \in Int, NEW y \in Int, NEW z \in Int, NEW u \in Int, NEW v \in Int, NEW w \in Int,
         NEW a \in Int, NEW b \in Int, NEW c \in Int, NEW d \in Int, NEW e \in Int,
         NEW f \in Int, NEW g \in Int, NEW h \in Int, NEW k \in Int,
         NEW p, NEW q, NEW r,
         p = x * a + y * d + z * g, q = x * b + y * e + z * h, r = x * c + y * f + z * k
  PROVE  x * (a * u + b * v + c * w) + y * (d * u + e * v + f * w) + z * (g * u + h * v + k * w)
           = p * u + q * v + r * w
OBVIOUS

(* The product of two matrices is D times the identity.                    *)
Undoes(s, r, D) ==
  \A i, j \in Axes :
    s[i][1] * r[1][j] + s[i][2] * r[2][j] + s[i][3] * r[3][j] = IF i = j THEN D ELSE 0

(* So is the one's action after the other's.                               *)
LEMMA UndoesActs ==
  ASSUME NEW s, IsMatrix(s), NEW r, IsMatrix(r), NEW D \in Int, Undoes(s, r, D),
         NEW n, IsVector(n), NEW i \in Axes
  PROVE  Apply(s, Apply(r, n))[i] = D * n[i]
<1> DEFINE x == s[i][1]  y == s[i][2]  z == s[i][3]
           u == n[1]  v == n[2]  w == n[3]
           a == r[1][1]  b == r[1][2]  c == r[1][3]
           d == r[2][1]  e == r[2][2]  f == r[2][3]
           g == r[3][1]  h == r[3][2]  k == r[3][3]
           L == Apply(s, Apply(r, n))[i]
           p == IF i = 1 THEN D ELSE 0
           q == IF i = 2 THEN D ELSE 0
           t == IF i = 3 THEN D ELSE 0
<1>1. /\ x \in Int /\ y \in Int /\ z \in Int /\ u \in Int /\ v \in Int /\ w \in Int
  BY DEF IsMatrix, IsVector, Axes
<1>2. /\ a \in Int /\ b \in Int /\ c \in Int /\ d \in Int /\ e \in Int
      /\ f \in Int /\ g \in Int /\ h \in Int /\ k \in Int
  BY MatrixEntries
<1>3. L = x * (a * u + b * v + c * w) + y * (d * u + e * v + f * w) + z * (g * u + h * v + k * w)
  BY DEF Apply, Axes
<1>4. /\ x * a + y * d + z * g = p
      /\ x * b + y * e + z * h = q
      /\ x * c + y * f + z * k = t
  BY DEF Undoes, Axes
<1>5. (i = 1 /\ n[i] = u) \/ (i = 2 /\ n[i] = v) \/ (i = 3 /\ n[i] = w)
  BY DEF Axes
<1>6. /\ i = 1 => p = D /\ q = 0 /\ t = 0
      /\ i = 2 => p = 0 /\ q = D /\ t = 0
      /\ i = 3 => p = 0 /\ q = 0 /\ t = D
  OBVIOUS
<1> HIDE DEF x, y, z, u, v, w, a, b, c, d, e, f, g, h, k, L, p, q, t
<1>7. L = p * u + q * v + t * w
  BY <1>1, <1>2, <1>3, <1>4, CombinedRows
<1>8. L = D * n[i]
  BY <1>1, <1>5, <1>6, <1>7
<1> QED BY <1>8 DEF L

(* A metric and its adjugate undo each other.                              *)
LEMMA AdjugateInverts ==
  ASSUME NEW m, IsMetric(m), NEW n, IsVector(n)
  PROVE  /\ IsMatrix(m) /\ IsMatrix(Adjugate(m)) /\ Det(m) \in Int
         /\ IsVector(Apply(m, n)) /\ IsVector(Apply(Adjugate(m), n))
         /\ \A i \in Axes : Apply(m, Apply(Adjugate(m), n))[i] = Det(m) * n[i]
         /\ \A i \in Axes : Apply(Adjugate(m), Apply(m, n))[i] = Det(m) * n[i]
<1> DEFINE A == Adjugate(m)
<1>1. \A i, j \in Axes : A[i][j] = Cofactor(m, i, j) /\ A[i][j] = A[j][i]
  BY CofactorsAreSymmetric DEF Adjugate
<1>2. IsMatrix(m) /\ IsMatrix(A)
  BY <1>1, CofactorsAreSymmetric DEF IsMatrix, IsMetric
<1>3. Det(m) \in Int
  <2> DEFINE a == m[1][1]  b == m[1][2]  c == m[1][3]
             d == m[2][1]  e == m[2][2]  f == m[2][3]
             g == m[3][1]  h == m[3][2]  k == m[3][3]
  <2>1. /\ a \in Int /\ b \in Int /\ c \in Int /\ d \in Int /\ e \in Int
        /\ f \in Int /\ g \in Int /\ h \in Int /\ k \in Int
    BY <1>2, MatrixEntries
  <2>2. Det(m) = a * (e * k - f * h) + b * (f * g - d * k) + c * (d * h - e * g)
    BY DetByEntries
  <2> HIDE DEF a, b, c, d, e, f, g, h, k
  <2> QED BY <2>1, <2>2
<1>4. ASSUME NEW i \in Axes, NEW j \in Axes
      PROVE  /\ m[i][1] * A[1][j] + m[i][2] * A[2][j] + m[i][3] * A[3][j]
                  = IF i = j THEN Det(m) ELSE 0
             /\ A[i][1] * m[1][j] + A[i][2] * m[2][j] + A[i][3] * m[3][j]
                  = IF i = j THEN Det(m) ELSE 0
  <2> DEFINE P(a, b) == Cofactor(m, a, 1) * m[b][1] + Cofactor(m, a, 2) * m[b][2]
                          + Cofactor(m, a, 3) * m[b][3]
             x == m[i][1]  y == m[i][2]  z == m[i][3]
             u == m[j][1]  v == m[j][2]  w == m[j][3]
             a == A[j][1]  b == A[j][2]  c == A[j][3]
             d == A[i][1]  e == A[i][2]  f == A[i][3]
  <2>1. /\ P(j, i) = IF i = j THEN Det(m) ELSE 0
        /\ P(i, j) = IF i = j THEN Det(m) ELSE 0
    BY <1>2, RowExpansion
  <2>2. /\ P(j, i) = a * x + b * y + c * z /\ P(i, j) = d * u + e * v + f * w
    BY <1>1 DEF Axes
  <2>3. /\ A[1][j] = a /\ A[2][j] = b /\ A[3][j] = c
        /\ m[1][j] = u /\ m[2][j] = v /\ m[3][j] = w
    BY <1>1 DEF IsMetric, Axes
  <2>4. /\ x \in Int /\ y \in Int /\ z \in Int /\ u \in Int /\ v \in Int /\ w \in Int
        /\ a \in Int /\ b \in Int /\ c \in Int /\ d \in Int /\ e \in Int /\ f \in Int
    BY <1>2 DEF IsMatrix, Axes
  <2> HIDE DEF P, x, y, z, u, v, w, a, b, c, d, e, f
  <2>5. a * x + b * y + c * z = x * a + y * b + z * c
    BY <2>4
  <2> QED BY <2>1, <2>2, <2>3, <2>5 DEF x, y, z, d, e, f
<1>5. Undoes(m, A, Det(m)) /\ Undoes(A, m, Det(m))
  BY <1>4 DEF Undoes
<1> HIDE DEF A
<1>6. IsVector(Apply(m, n)) /\ IsVector(Apply(A, n))
  BY <1>2, ApplyIsVector
<1> QED BY <1>2, <1>3, <1>5, <1>6, UndoesActs DEF A

(* A rotation and its transpose leave the metric as it is: R^T M R = M.    *)
LEMMA MetricCarries ==
  ASSUME NEW m, IsMetric(m), NEW r, IsRotation(r, m), NEW d, IsVector(d), NEW i \in Axes
  PROVE  Apply(Transpose(r), Apply(m, Apply(r, d)))[i] = Apply(m, d)[i]
<1> DEFINE col(j) == Transpose(r)[j]
           w == Apply(r, d)
           x == d[1]  y == d[2]  z == d[3]
<1>1. IsMatrix(r) /\ IsVector(w) /\ \A j \in Axes : IsVector(col(j))
  BY ApplyIsVector DEF IsRotation, IsUnimodular, IsVector, IsMatrix, Transpose
<1>2. Apply(Transpose(r), Apply(m, w))[i] = DotMetric(col(i), w, m)
  BY DEF Apply, DotMetric
<1>3. DotMetric(col(i), w, m) = DotMetric(w, col(i), m)
  BY <1>1, DotIsSymmetric
<1>4. DotMetric(w, col(i), m) = x * DotMetric(col(1), col(i), m)
        + y * DotMetric(col(2), col(i), m) + z * DotMetric(col(3), col(i), m)
  BY <1>1, DotIsLinear
<1>5. /\ DotMetric(col(1), col(i), m) = m[i][1] /\ DotMetric(col(2), col(i), m) = m[i][2]
      /\ DotMetric(col(3), col(i), m) = m[i][3]
  BY DEF IsRotation, Preserves, IsMetric, Axes
<1>6. Apply(m, d)[i] = m[i][1] * x + m[i][2] * y + m[i][3] * z
  BY DEF Apply
<1>7. /\ m[i][1] \in Int /\ m[i][2] \in Int /\ m[i][3] \in Int
      /\ x \in Int /\ y \in Int /\ z \in Int
  BY DEF IsMetric, IsVector, Axes
<1> HIDE DEF col, w, x, y, z
<1>8. x * m[i][1] + y * m[i][2] + z * m[i][3] = m[i][1] * x + m[i][2] * y + m[i][3] * z
  BY <1>7
<1> QED BY <1>2, <1>3, <1>4, <1>5, <1>6, <1>8 DEF w

(* Equal vectors have equal images.                                        *)
LEMMA ApplyOfComponents ==
  ASSUME NEW r, NEW f, NEW g, \A j \in Axes : f[j] = g[j], NEW i \in Axes
  PROVE  Apply(r, f)[i] = Apply(r, g)[i]
BY DEF Apply, Axes

(* A rotation undoes its inverse.                                          *)
LEMMA RotationUndoes ==
  ASSUME NEW r \in Matrix, IsUnimodular(r), NEW f, IsVector(f), NEW i \in Axes
  PROVE  /\ Apply(r, Apply(InverseRotation(r), f))[i] = f[i]
         /\ Apply(InverseRotation(r), Apply(r, f))[i] = f[i]
<1>1. IsMatrix(r) /\ IsMatrix(InverseRotation(r))
  BY InverseEntries DEF IsUnimodular
<1>2. Product(r, InverseRotation(r)) = Identity /\ Product(InverseRotation(r), r) = Identity
  BY InverseOnRight, InverseOnLeft
<1> QED BY <1>1, <1>2, ProductActs, IdentityFixes

(* The length by its metric's image.                                       *)
LEMMA DotOfImage ==
  ASSUME NEW m, IsMetric(m), NEW n, IsVector(n)
  PROVE  LET x == Apply(Adjugate(m), n)
         IN  /\ DotMetric(n, n, Adjugate(m)) \in Int
             /\ DotMetric(x, x, m) = Det(m) * DotMetric(n, n, Adjugate(m))
<1> DEFINE x == Apply(Adjugate(m), n)
           D == Det(m)
           N == DotMetric(n, n, Adjugate(m))
           L == DotMetric(x, x, m)
           a == n[1]  b == n[2]  c == n[3]
           u == x[1]  v == x[2]  w == x[3]
           y == Apply(m, x)
<1>1. D \in Int /\ IsVector(x) /\ \A i \in Axes : y[i] = D * n[i]
  BY AdjugateInverts
<1>2. N = a * u + b * v + c * w
  BY DEF DotMetric
<1>3. L = u * y[1] + v * y[2] + w * y[3]
  BY DEF DotMetric
<1>4. /\ a \in Int /\ b \in Int /\ c \in Int /\ u \in Int /\ v \in Int /\ w \in Int
      /\ y[1] = D * a /\ y[2] = D * b /\ y[3] = D * c
  BY <1>1 DEF IsVector, Axes
<1> HIDE DEF x, D, N, L, a, b, c, u, v, w, y
<1>5. L = D * N /\ N \in Int
  BY <1>1, <1>2, <1>3, <1>4
<1> QED BY <1>5 DEF L, N, D, x

(* A common factor.                                                        *)
LEMMA FactorCancels ==
  ASSUME NEW D \in Int, D # 0, NEW s \in Int, NEW t \in Int, D * s = D * t
  PROVE  s = t
<1>1. D * (s - t) = 0
  OBVIOUS
<1>2. s - t = 0
  BY <1>1
<1> QED BY <1>2

(* Isometries of the lattice are isometries of the reciprocal lattice.     *)
LEMMA ReciprocalLength ==
  ASSUME NEW m, IsMetric(m), Det(m) # 0, NEW r, IsRotation(r, m), NEW n, IsVector(n)
  PROVE  LET u == Apply(Transpose(r), n)
         IN  DotMetric(u, u, Adjugate(m)) = DotMetric(n, n, Adjugate(m))
<1> DEFINE A == Adjugate(m)
           D == Det(m)
           u == Apply(Transpose(r), n)
           x == Apply(A, n)
           y == Apply(A, u)
           z == Apply(InverseRotation(r), x)
<1>1. /\ IsMatrix(r) /\ IsMatrix(Transpose(r)) /\ r \in Matrix /\ IsUnimodular(r)
      /\ IsRotation(InverseRotation(r), m) /\ IsMatrix(InverseRotation(r))
  BY DetOfTranspose, RotationsInvert, InverseEntries DEF IsRotation, IsUnimodular
<1>2. IsVector(u) /\ IsVector(x) /\ D \in Int
  BY <1>1, ApplyIsVector, AdjugateInverts
<1>3. IsVector(y) /\ IsVector(z)
  BY <1>1, <1>2, ApplyIsVector, AdjugateInverts
<1>4. \A i \in Axes : Apply(m, x)[i] = D * n[i] /\ Apply(m, y)[i] = D * u[i]
                      /\ Apply(A, Apply(m, z))[i] = D * z[i]
                      /\ Apply(A, Apply(m, y))[i] = D * y[i]
  BY <1>2, <1>3, AdjugateInverts
<1>5. \A i \in Axes : Apply(m, z)[i] = D * u[i]
  <2>1. ASSUME NEW i \in Axes PROVE Apply(m, z)[i] = D * u[i]
    <3>1. Apply(m, z)[i] = Apply(Transpose(r), Apply(m, Apply(r, z)))[i]
      BY <1>3, MetricCarries
    <3>2. \A j \in Axes : Apply(r, z)[j] = x[j]
      BY <1>1, <1>2, RotationUndoes
    <3> HIDE DEF x, z
    <3>3. \A j \in Axes : Apply(m, Apply(r, z))[j] = Apply(m, x)[j]
      BY <3>2, ApplyOfComponents
    <3>4. \A j \in Axes : Apply(m, Apply(r, z))[j] = [k \in Axes |-> D * n[k]][j]
      BY <3>3, <1>4
    <3>5. Apply(Transpose(r), Apply(m, Apply(r, z)))[i]
            = Apply(Transpose(r), [k \in Axes |-> D * n[k]])[i]
      BY <3>4, ApplyOfComponents
    <3>6. Apply(Transpose(r), [k \in Axes |-> D * n[k]])[i] = D * u[i]
      BY <1>1, <1>2, ApplySigned
    <3> QED BY <3>1, <3>5, <3>6
  <2> QED BY <2>1
<1>6. \A i \in Axes : y[i] = z[i]
  <2>1. ASSUME NEW i \in Axes PROVE y[i] = z[i]
    <3>1. \A j \in Axes : Apply(m, y)[j] = Apply(m, z)[j]
      BY <1>4, <1>5
    <3>2. Apply(A, Apply(m, y))[i] = Apply(A, Apply(m, z))[i]
      BY <3>1, ApplyOfComponents
    <3>3. D * y[i] = D * z[i] /\ y[i] \in Int /\ z[i] \in Int
      BY <1>3, <1>4, <3>2 DEF IsVector
    <3> HIDE DEF y, z
    <3> QED BY <1>2, <3>3, FactorCancels
  <2> QED BY <2>1
<1>7. DotMetric(y, y, m) = DotMetric(z, z, m)
  BY <1>6, DotOfComponents
<1>8. DotMetric(z, z, m) = DotMetric(x, x, m)
  BY <1>1, <1>2, PreservesDots DEF IsRotation
<1> DEFINE M == DotMetric(u, u, A)
           N == DotMetric(n, n, A)
<1>9. M \in Int /\ N \in Int /\ D * M = D * N
  BY <1>2, <1>7, <1>8, DotOfImage
<1> HIDE DEF M, N, A, x, y, z
<1>10. M = N
  BY <1>2, <1>9, FactorCancels
<1> QED BY <1>10 DEF M, N, A

(* So the reciprocal lattice has finitely many vectors up to a length:     *)
(* n_i^2 det M is at most |n|^2 M_ii.                                      *)
LEMMA ReciprocalBound ==
  ASSUME NEW m, IsMetric(m), Det(m) > 0, \A j \in Axes : Cofactor(m, j, j) > 0,
         NEW n, IsVector(n), NEW i \in Axes
  PROVE  n[i] * n[i] * Det(m) <= m[i][i] * DotMetric(n, n, Adjugate(m))
<1> DEFINE m11 == m[1][1]  m12 == m[1][2]  m13 == m[1][3]
           m22 == m[2][2]  m23 == m[2][3]  m33 == m[3][3]
           a == Cofactor(m, 1, 1)  b == Cofactor(m, 1, 2)  c == Cofactor(m, 1, 3)
           d == Cofactor(m, 2, 2)  e == Cofactor(m, 2, 3)  f == Cofactor(m, 3, 3)
           x == n[1]  y == n[2]  z == n[3]
           N == DotMetric(n, n, Adjugate(m))
           D == Det(m)
<1>1. /\ m11 \in Int /\ m12 \in Int /\ m13 \in Int /\ m22 \in Int /\ m23 \in Int /\ m33 \in Int
      /\ m[2][1] = m12 /\ m[3][1] = m13 /\ m[3][2] = m23
      /\ m11 > 0 /\ m22 > 0 /\ m33 > 0
  BY DEF IsMetric, Axes
<1>2. /\ a = m22 * m33 - m23 * m23 /\ d = m33 * m11 - m13 * m13 /\ f = m11 * m22 - m12 * m12
      /\ b = m23 * m13 - m12 * m33 /\ c = m12 * m23 - m22 * m13 /\ e = m13 * m12 - m23 * m11
  BY <1>1 DEF Cofactor
<1>3. /\ a \in Int /\ b \in Int /\ c \in Int /\ d \in Int /\ e \in Int /\ f \in Int
      /\ a > 0 /\ d > 0 /\ f > 0
      /\ Cofactor(m, 2, 1) = b /\ Cofactor(m, 3, 1) = c /\ Cofactor(m, 3, 2) = e
  BY CofactorsAreSymmetric DEF Axes
<1>4. D \in Int /\ D > 0 /\ N \in Int
  BY AdjugateInverts, DotOfImage
<1>5. x \in Int /\ y \in Int /\ z \in Int
  BY DEF IsVector, Axes
<1>6. N = x * (a * x + b * y + c * z) + y * (b * x + d * y + e * z)
          + z * (c * x + e * y + f * z)
  <2> DEFINE A == Adjugate(m)
  <2>1. /\ A[1][1] = a /\ A[1][2] = b /\ A[1][3] = c
        /\ A[2][1] = b /\ A[2][2] = d /\ A[2][3] = e
        /\ A[3][1] = c /\ A[3][2] = e /\ A[3][3] = f
    BY <1>3 DEF Adjugate, Axes
  <2> HIDE DEF A, a, b, c, d, e, f
  <2>2. N = n[1] * (A[1][1] * n[1] + A[1][2] * n[2] + A[1][3] * n[3])
          + n[2] * (A[2][1] * n[1] + A[2][2] * n[2] + A[2][3] * n[3])
          + n[3] * (A[3][1] * n[1] + A[3][2] * n[2] + A[3][3] * n[3])
    BY DotByEntries DEF A
  <2> QED BY <2>1, <2>2
<1>7. D = m11 * (m22 * m33 - m23 * m23) + m12 * (m23 * m13 - m12 * m33)
          + m13 * (m12 * m23 - m22 * m13)
  BY <1>1, DetByEntries
<1> HIDE DEF m11, m12, m13, m22, m23, m33, a, b, c, d, e, f, x, y, z, N, D
\* The adjugate of the adjugate is det M times M.
<1>8. /\ d * f - e * e = D * m11 /\ f * a - c * c = D * m22 /\ a * d - b * b = D * m33
      /\ e * c - b * f = D * m12 /\ b * e - d * c = D * m13 /\ c * b - e * a = D * m23
  <2>1. d * f - e * e = D * m11
    BY <1>1, <1>2, <1>7
  <2>2. f * a - c * c = D * m22
    BY <1>1, <1>2, <1>7
  <2>3. a * d - b * b = D * m33
    BY <1>1, <1>2, <1>7
  <2>4. e * c - b * f = D * m12
    BY <1>1, <1>2, <1>7
  <2>5. b * e - d * c = D * m13
    BY <1>1, <1>2, <1>7
  <2>6. c * b - e * a = D * m23
    BY <1>1, <1>2, <1>7
  <2> QED BY <2>1, <2>2, <2>3, <2>4, <2>5, <2>6
<1>9. /\ D = m11 * a + m12 * b + m13 * c
      /\ D = m12 * b + m22 * d + m23 * e
      /\ D = m13 * c + m23 * e + m33 * f
  BY <1>1, <1>2, <1>7
\* D^2 n^2 <= D M N on each axis.
<1> DEFINE Q == D * D
<1>10. Q \in Int /\ D * m11 > 0 /\ D * m22 > 0 /\ D * m33 > 0
       /\ D * m11 \in Int /\ D * m22 \in Int /\ D * m33 \in Int
  BY <1>1, <1>4
<1>11. /\ Q = a * (D * m11) + b * (D * m12) + c * (D * m13)
       /\ Q = d * (D * m22) + e * (D * m23) + b * (D * m12)
       /\ Q = f * (D * m33) + c * (D * m13) + e * (D * m23)
  <2>1. D * D = D * (m11 * a + m12 * b + m13 * c)
    BY <1>9
  <2>2. D * D = D * (m12 * b + m22 * d + m23 * e)
    BY <1>9
  <2>3. D * D = D * (m13 * c + m23 * e + m33 * f)
    BY <1>9
  <2> QED BY <1>1, <1>3, <1>4, <2>1, <2>2, <2>3
<1> HIDE DEF Q
<1>12. Q * x * x <= (D * m11) * N
  <2>1. N = a * x * x + d * y * y + f * z * z + 2 * b * x * y + 2 * c * x * z + 2 * e * y * z
    BY <1>3, <1>5, <1>6
  <2>2. Q = a * (d * f - e * e) + b * (e * c - b * f) + c * (b * e - d * c)
    BY <1>8, <1>11
  <2>3. d * f - e * e > 0
    BY <1>8, <1>10
  <2> QED BY <1>3, <1>5, <1>8, <2>1, <2>2, <2>3, ComponentBound
<1>13. Q * y * y <= (D * m22) * N
  <2>1. N = d * y * y + f * z * z + a * x * x + 2 * e * y * z + 2 * b * y * x + 2 * c * z * x
    BY <1>3, <1>5, <1>6
  <2>2. Q = d * (f * a - c * c) + e * (c * b - e * a) + b * (e * c - f * b)
    BY <1>3, <1>8, <1>11
  <2>3. f * a - c * c > 0
    BY <1>8, <1>10
  <2> QED BY <1>3, <1>5, <1>8, <2>1, <2>2, <2>3, ComponentBound
<1>14. Q * z * z <= (D * m33) * N
  <2>1. N = f * z * z + a * x * x + d * y * y + 2 * c * z * x + 2 * e * z * y + 2 * b * x * y
    BY <1>3, <1>5, <1>6
  <2>2. Q = f * (a * d - b * b) + c * (b * e - c * d) + e * (c * b - a * e)
    BY <1>3, <1>8, <1>11
  <2>3. a * d - b * b > 0
    BY <1>8, <1>10
  <2> QED BY <1>3, <1>5, <1>8, <2>1, <2>2, <2>3, ComponentBound
<1>15. ASSUME NEW t \in Int, NEW k \in Int, Q * t * t <= (D * k) * N
       PROVE  t * t * D <= k * N
  <2> DEFINE g == t * t * D
             h == k * N
  <2>1. g \in Int /\ h \in Int
    BY <1>4
  <2>2. D * g <= D * h
    BY <1>4, <1>15 DEF Q
  <2> HIDE DEF g, h
  <2>3. g <= h
    BY <1>4, <2>1, <2>2
  <2> QED BY <2>3 DEF g, h
<1>16. x * x * D <= m11 * N /\ y * y * D <= m22 * N /\ z * z * D <= m33 * N
  BY <1>1, <1>5, <1>12, <1>13, <1>14, <1>15
<1> QED BY <1>16 DEF Axes, x, y, z, D, m11, m22, m33, N
-----------------------------------------------------------------------------
(* Grids that a matrix maps onto themselves.                               *)
Keeps(r, d) == \A i, j \in Axes : (r[i][j] * d[i]) % d[j] = 0

IsGrid(d) == \A i \in Axes : d[i] \in Nat \ {0}

(* A minor of such a matrix.                                               *)
LEMMA MinorDivides ==
  ASSUME NEW a \in Int, NEW b \in Int, NEW c \in Int, NEW e \in Int,
         NEW A \in Int, NEW B \in Int, NEW C \in Int, NEW E \in Int,
         NEW n \in Nat \ {0}, NEW n1 \in Nat \ {0}, NEW n2 \in Nat \ {0},
         NEW k \in Nat \ {0}, NEW k1 \in Nat \ {0}, NEW k2 \in Nat \ {0},
         n * (n1 * n2) = k * (k1 * k2),
         a * k1 = A * n1, b * k2 = B * n2, c * k1 = C * n2, e * k2 = E * n1
  PROVE  (a * b - c * e) * n = (A * B - C * E) * k
<1> DEFINE P == k1 * k2
           N == n1 * n2
           x == a * b - c * e
           y == A * B - C * E
<1>1. P \in Nat \ {0} /\ N \in Nat \ {0} /\ x \in Int /\ y \in Int
  OBVIOUS
<1>2. (a * k1) * (b * k2) = (A * n1) * (B * n2) /\ (c * k1) * (e * k2) = (C * n2) * (E * n1)
  OBVIOUS
<1>3. x * P = y * N
  <2>1. x * P = (a * k1) * (b * k2) - (c * k1) * (e * k2)
    OBVIOUS
  <2>2. y * N = (A * n1) * (B * n2) - (C * n2) * (E * n1)
    OBVIOUS
  <2> HIDE DEF x, y, P, N
  <2> QED BY <1>2, <2>1, <2>2
<1>4. n * N = k * P
  OBVIOUS
<1> HIDE DEF x, y, P, N
<1> DEFINE u == x * n
           v == y * k
           D == k * P
<1>5. u \in Int /\ v \in Int /\ D \in Int /\ D # 0
  BY <1>1
<1>6. D * u = D * v
  <2>1. D * u = n * k * (x * P)
    BY <1>1
  <2>2. D * v = (n * N) * (y * k)
    BY <1>4
  <2>3. (n * N) * (y * k) = n * k * (y * N)
    BY <1>1
  <2> QED BY <1>3, <2>1, <2>2, <2>3
<1> HIDE DEF u, v, D
<1>7. u = v
  BY <1>5, <1>6, FactorCancels
<1> QED BY <1>7 DEF u, v, x, y

(* Multiples.                                                              *)
LEMMA Multiples ==
  ASSUME NEW d \in Nat \ {0}, NEW x \in Int
  PROVE  x % d = 0 <=> \E q \in Int : x = q * d
<1>1. ASSUME x % d = 0 PROVE \E q \in Int : x = q * d
  <2>1. x \div d \in Int /\ x = d * (x \div d) + (x % d)
    BY DivMod
  <2> DEFINE q == x \div d
  <2>2. q \in Int /\ x = d * q + 0
    BY <1>1, <2>1
  <2> HIDE DEF q
  <2>3. x = q * d
    BY <2>2
  <2> QED BY <2>2, <2>3
<1>2. ASSUME NEW q \in Int, x = q * d PROVE x % d = 0
  <2>1. x = d * q + 0
    BY <1>2
  <2>2. (d * q + 0) % d = 0
    BY DivModUnique
  <2> QED BY <2>1, <2>2
<1> QED BY <1>1, <1>2

(* The same of a product.                                                  *)
LEMMA ProductIsMultiple ==
  ASSUME NEW x \in Int, NEW p \in Nat \ {0}, NEW d \in Nat \ {0}, (x * p) % d = 0
  PROVE  \E q \in Int : x * p = q * d
<1> DEFINE y == x * p
<1>1. y \in Int /\ y % d = 0
  OBVIOUS
<1> HIDE DEF y
<1>2. \E q \in Int : y = q * d
  BY <1>1, Multiples
<1> QED BY <1>2 DEF y

(* The inverse maps such a grid onto itself, too.                          *)
LEMMA KeptByInverse ==
  ASSUME NEW r, IsUnimodular(r), NEW d, IsGrid(d), Keeps(r, d)
  PROVE  Keeps(InverseRotation(r), d)
<1> SUFFICES ASSUME NEW i \in Axes, NEW j \in Axes
             PROVE  (InverseRotation(r)[i][j] * d[i]) % d[j] = 0
  BY DEF Keeps
<1> DEFINE next(x) == (x % 3) + 1
           i1 == next(i)  i2 == next(next(i))
           j1 == next(j)  j2 == next(next(j))
           n == d[i]  n1 == d[i1]  n2 == d[i2]
           k == d[j]  k1 == d[j1]  k2 == d[j2]
           a == r[j1][i1]  b == r[j2][i2]  c == r[j1][i2]  e == r[j2][i1]
           t == Det(r)
<1>1. IsMatrix(r) /\ t \in Int
  BY DEF IsUnimodular
<1>2. /\ i1 \in Axes /\ i2 \in Axes /\ j1 \in Axes /\ j2 \in Axes
      /\ i = 1 => i1 = 2 /\ i2 = 3
      /\ i = 2 => i1 = 3 /\ i2 = 1
      /\ i = 3 => i1 = 1 /\ i2 = 2
      /\ j = 1 => j1 = 2 /\ j2 = 3
      /\ j = 2 => j1 = 3 /\ j2 = 1
      /\ j = 3 => j1 = 1 /\ j2 = 2
      /\ i \in {1, 2, 3} /\ j \in {1, 2, 3}
  BY DEF Axes
<1>3. InverseRotation(r)[i][j] = t * (a * b - c * e)
  BY <1>1, InverseEntries DEF Cofactor
<1> HIDE DEF i1, i2, j1, j2, t
<1>4. /\ n \in Nat \ {0} /\ n1 \in Nat \ {0} /\ n2 \in Nat \ {0}
      /\ k \in Nat \ {0} /\ k1 \in Nat \ {0} /\ k2 \in Nat \ {0}
  BY <1>2 DEF IsGrid
<1>5. n * (n1 * n2) = k * (k1 * k2)
  <2> DEFINE p == d[1]  q == d[2]  s == d[3]
  <2>1. p \in Int /\ q \in Int /\ s \in Int
    BY DEF IsGrid, Axes
  <2>2. /\ i = 1 => n = p /\ n1 = q /\ n2 = s
        /\ i = 2 => n = q /\ n1 = s /\ n2 = p
        /\ i = 3 => n = s /\ n1 = p /\ n2 = q
        /\ j = 1 => k = p /\ k1 = q /\ k2 = s
        /\ j = 2 => k = q /\ k1 = s /\ k2 = p
        /\ j = 3 => k = s /\ k1 = p /\ k2 = q
    BY <1>2
  <2> HIDE DEF p, q, s, n, n1, n2, k, k1, k2
  <2>3. n * (n1 * n2) = p * q * s
    BY <1>2, <2>1, <2>2
  <2>4. k * (k1 * k2) = p * q * s
    BY <1>2, <2>1, <2>2
  <2> QED BY <2>3, <2>4
<1>6. a \in Int /\ b \in Int /\ c \in Int /\ e \in Int
  BY <1>1, <1>2 DEF IsMatrix
<1>7. (a * k1) % n1 = 0 /\ (b * k2) % n2 = 0 /\ (c * k1) % n2 = 0 /\ (e * k2) % n1 = 0
  BY <1>2 DEF Keeps
<1> HIDE DEF a, b, c, e, n, n1, n2, k, k1, k2
<1>8. PICK A \in Int : a * k1 = A * n1
  BY <1>4, <1>6, <1>7, ProductIsMultiple
<1>9. PICK B \in Int : b * k2 = B * n2
  BY <1>4, <1>6, <1>7, ProductIsMultiple
<1>10. PICK C \in Int : c * k1 = C * n2
  BY <1>4, <1>6, <1>7, ProductIsMultiple
<1>11. PICK E \in Int : e * k2 = E * n1
  BY <1>4, <1>6, <1>7, ProductIsMultiple
<1>12. (a * b - c * e) * n = (A * B - C * E) * k
  BY <1>4, <1>5, <1>6, <1>8, <1>9, <1>10, <1>11, MinorDivides
<1> DEFINE x == a * b - c * e
           y == A * B - C * E
           q == t * y
           z == t * x * n
<1>13. x \in Int /\ y \in Int /\ x * n = y * k
  BY <1>6, <1>12
<1> HIDE DEF x, y
<1>14. q \in Int /\ z \in Int /\ z = q * k
  <2>1. z = t * (x * n)
    BY <1>1, <1>4, <1>13
  <2>2. q * k = t * (y * k)
    BY <1>1, <1>4, <1>13
  <2> QED BY <1>1, <1>4, <1>13, <2>1, <2>2
<1> HIDE DEF q, z
<1>15. z % k = 0
  BY <1>4, <1>14, Multiples
<1> QED BY <1>3, <1>15 DEF z, x, n, k

(* Vectors that differ by periods of the grid.                             *)
OnGrid(d, m, n) == \A i \in Axes : SameResidue(d[i], m[i], n[i])

(* Their images do, too.                                                   *)
LEMMA KeepsResidues ==
  ASSUME NEW r, IsMatrix(r), NEW d, IsGrid(d), Keeps(r, d),
         NEW m, IsVector(m), NEW n, IsVector(n), OnGrid(d, m, n)
  PROVE  OnGrid(d, Apply(Transpose(r), m), Apply(Transpose(r), n))
<1> SUFFICES ASSUME NEW i \in Axes
             PROVE  SameResidue(d[i], Apply(Transpose(r), m)[i], Apply(Transpose(r), n)[i])
  BY DEF OnGrid
<1>1. ASSUME NEW j \in Axes
      PROVE  /\ SameResidue(d[i], r[j][i] * m[j], r[j][i] * n[j])
             /\ r[j][i] * m[j] \in Int /\ r[j][i] * n[j] \in Int
  <2> DEFINE x == r[j][i]  u == m[j]  v == n[j]  p == d[j]  q == d[i]
  <2>1. x \in Int /\ u \in Int /\ v \in Int /\ p \in Nat \ {0} /\ q \in Nat \ {0}
    BY DEF IsMatrix, IsVector, IsGrid
  <2>2. (x * p) % q = 0 /\ u % p = v % p
    BY DEF Keeps, OnGrid, SameResidue
  <2> HIDE DEF x, u, v, p, q
  <2>3. PICK s \in Int : x * p = s * q
    BY <2>1, <2>2, ProductIsMultiple
  <2>4. PICK t \in Int : u = v + p * t
    BY <2>1, <2>2, EqualResidues
  <2> DEFINE y == x * v
             z == s * t
  <2>5. y \in Int /\ z \in Int /\ x * u = y + q * z
    <3>1. x * u = x * v + (x * p) * t
      BY <2>1, <2>4
    <3>2. (x * p) * t = (s * q) * t
      BY <2>3
    <3>3. (s * q) * t = q * z
      BY <2>1, <2>3, <2>4
    <3> QED BY <2>1, <2>3, <2>4, <3>1, <3>2, <3>3
  <2> HIDE DEF y, z
  <2>6. (y + q * z) % q = y % q
    BY <2>1, <2>5, ResidueOfSum
  <2>7. SameResidue(q, x * u, x * v) /\ x * u \in Int /\ x * v \in Int
    BY <2>1, <2>5, <2>6 DEF SameResidue, y
  <2> QED BY <2>7 DEF x, u, v, q
<1>2. 1 \in Axes /\ 2 \in Axes /\ 3 \in Axes /\ d[i] \in Nat \ {0}
  BY DEF Axes, IsGrid
<1> DEFINE q == d[i]
           a == r[1][i] * m[1]  b == r[2][i] * m[2]  c == r[3][i] * m[3]
           e == r[1][i] * n[1]  f == r[2][i] * n[2]  g == r[3][i] * n[3]
<1>3. /\ a \in Int /\ b \in Int /\ c \in Int /\ e \in Int /\ f \in Int /\ g \in Int
      /\ SameResidue(q, a, e) /\ SameResidue(q, b, f) /\ SameResidue(q, c, g) /\ q \in Nat \ {0}
  BY <1>1, <1>2
<1>4. Apply(Transpose(r), m)[i] = a + b + c /\ Apply(Transpose(r), n)[i] = e + f + g
  BY <1>2 DEF Apply, Transpose
<1> HIDE DEF a, b, c, e, f, g, q
<1>5. SameResidue(q, a + b, e + f) /\ a + b \in Int /\ e + f \in Int
  BY <1>3, ResiduesAdd
<1>6. SameResidue(q, a + b + c, e + f + g)
  BY <1>3, <1>5, ResiduesAdd
<1> QED BY <1>4, <1>6 DEF q
-----------------------------------------------------------------------------
(* The operations of a run: those found in the cell, or the identity.      *)
AreDetected(O, c) == O = FindSymmetryOperations(c) \/ O = {IdentityOp}

(* There are finitely many operations, the identity is one, and all are    *)
(* found in the cell.                                                      *)
LEMMA FoundAreFinite ==
  ASSUME NEW c, IsCrystal(c)
  PROVE  IsFiniteSet(FindSymmetryOperations(c))
<1> DEFINE m == c.metric
           P == CandidateVectors(m, 1) \X CandidateVectors(m, 2) \X CandidateVectors(m, 3)
           Q == {x \in P : PreservesMetric(x, m) /\ HasTranslation(c.atoms, Transpose(x))}
           O == FindSymmetryOperations(c)
           f == [x \in Q |-> Operation(Transpose(x), Translation(c.atoms, Transpose(x)))]
<1>1. IsFiniteSet(P)
  <2>1. IsMetric(m)
    BY DEF IsCrystal
  <2>2. /\ IsFiniteSet(CandidateVectors(m, 1)) /\ IsFiniteSet(CandidateVectors(m, 2))
        /\ IsFiniteSet(CandidateVectors(m, 3))
    BY <2>1, CandidatesAreFinite DEF Axes
  <2> HIDE DEF m
  <2> QED BY <2>2, TriplesAreFinite
<1>2. IsFiniteSet(Q)
  <2>1. Q \subseteq P
    OBVIOUS
  <2> HIDE DEF P, Q
  <2> QED BY <1>1, <2>1, FS_Subset
<1>3. /\ \A x \in Q : f[x] \in O
      /\ \A op \in O : \E x \in Q : f[x] = op
  BY DEF FindSymmetryOperations, MetricPreservingRotations
<1>4. f \in [Q -> O]
  BY <1>3
<1>5. f \in Surjection(Q, O)
  <2> HIDE DEF Q, O, f
  <2> QED BY <1>3, <1>4 DEF Surjection
<1> HIDE DEF Q, f
<1>6. IsFiniteSet(O)
  <2> HIDE DEF O
  <2> QED BY <1>2, <1>5, FS_Surjection
<1> QED BY <1>6

(* What holds of the operations of a run.                                  *)
LEMMA DetectedFacts ==
  ASSUME NEW c, IsCrystal(c), NEW O, AreDetected(O, c)
  PROVE  IsFiniteSet(O) /\ IdentityOp \in O /\ O \subseteq FindSymmetryOperations(c)
<1>1. IdentityOp \in FindSymmetryOperations(c)
  BY IdentityIsDetected DEF IsCrystal, Atom
<1>2. IsFiniteSet({IdentityOp})
  BY FS_Singleton
<1> QED BY <1>1, <1>2, FoundAreFinite DEF AreDetected

(* A rotation is found with one translation.                               *)
LEMMA OnePerRotation ==
  ASSUME NEW c, NEW a \in FindSymmetryOperations(c), NEW b \in FindSymmetryOperations(c),
         a.rotation = b.rotation
  PROVE  a = b
<1>1. PICK r \in MetricPreservingRotations(c.metric) : a = Operation(r, Translation(c.atoms, r))
  BY DEF FindSymmetryOperations
<1>2. PICK s \in MetricPreservingRotations(c.metric) : b = Operation(s, Translation(c.atoms, s))
  BY DEF FindSymmetryOperations
<1>3. r = s
  BY <1>1, <1>2 DEF Operation
<1> QED BY <1>1, <1>2, <1>3

(* Composing with an operation permutes the operations.                    *)
LEMMA CompositionPermutes ==
  ASSUME NEW c, IsCrystal(c), RadiusCovers(c.metric), IsPrimitive(c.atoms),
         NEW O, AreDetected(O, c), NEW a \in O
  PROVE  [b \in O |-> Compose(a, b)] \in Bijection(O, O)
<1> DEFINE f == [b \in O |-> Compose(a, b)]
           F == FindSymmetryOperations(c)
<1>1. O \subseteq F /\ IdentityOp \in O
  BY DetectedFacts
<1>2. ASSUME NEW b \in O
      PROVE  /\ Compose(a, b) \in O /\ f[b] = Compose(a, b)
             /\ Compose(a, b).rotation = Product(a.rotation, b.rotation)
             /\ b.rotation \in Matrix /\ IsUnimodular(b.rotation) /\ IsMatrix(b.rotation)
  <2>1. Compose(a, b) \in O
    <3>1. CASE O = F
      BY <3>1, CompositionIsFound
    <3>2. CASE O = {IdentityOp}
      BY <3>2, IdentityAlone
    <3> QED BY <3>1, <3>2 DEF AreDetected
  <2>2. b \in F
    BY <1>1
  <2> QED BY <2>1, <2>2, FoundOperation DEF Compose, Operation
<1>3. PICK inv \in O : inv.rotation = InverseRotation(a.rotation)
  <2>1. CASE O = F
    BY <2>1, InverseRotationIsFound
  <2>2. CASE O = {IdentityOp}
    <3>1. InverseOp(IdentityOp) = IdentityOp /\ a = IdentityOp
      BY <2>2, IdentityAlone
    <3>2. InverseOp(IdentityOp).rotation = InverseRotation(IdentityOp.rotation)
      BY DEF InverseOp, Operation
    <3> QED BY <2>2, <3>1, <3>2
  <2> QED BY <2>1, <2>2 DEF AreDetected
<1> DEFINE r == a.rotation
           s == InverseRotation(r)
<1>4. /\ IsMatrix(r) /\ IsMatrix(s) /\ Product(r, s) = Identity /\ Product(s, r) = Identity
  BY <1>2, InverseEntries, InverseOnRight, InverseOnLeft
<1>5. ASSUME NEW b \in O PROVE Product(s, Product(r, b.rotation)) = b.rotation
                               /\ Product(r, Product(s, b.rotation)) = b.rotation
  BY <1>2, <1>4, ProductAssociates, IdentityIsNeutral
<1>6. ASSUME NEW b \in O, NEW d \in O, f[b] = f[d] PROVE b = d
  <2>1. Product(r, b.rotation) = Product(r, d.rotation)
    BY <1>2, <1>6
  <2>2. b.rotation = d.rotation
    BY <1>5, <2>1
  <2> QED BY <1>1, <2>2, OnePerRotation
<1>7. ASSUME NEW d \in O PROVE \E b \in O : f[b] = d
  <2> DEFINE b == Compose(inv, d)
  <2>1. b \in O /\ b.rotation = Product(s, d.rotation)
    <3>1. CASE O = F
      BY <1>3, <3>1, CompositionIsFound DEF Compose, Operation
    <3>2. CASE O = {IdentityOp}
      BY <1>3, <3>2, IdentityAlone DEF Compose, Operation
    <3> QED BY <3>1, <3>2 DEF AreDetected
  <2> HIDE DEF b
  <2>2. f[b].rotation = d.rotation /\ f[b] \in O
    BY <1>2, <1>5, <2>1
  <2>3. f[b] = d
    <3> HIDE DEF f
    <3> QED BY <1>1, <2>2, OnePerRotation
  <2> QED BY <2>1, <2>3
<1>8. f \in [O -> O]
  BY <1>2
<1> HIDE DEF f
<1>9. f \in Bijection(O, O)
  BY <1>6, <1>7, <1>8 DEF Bijection, Injection, Surjection, IsInjective
<1> QED BY <1>9 DEF f

(* Transposing a product turns it round.                                   *)
LEMMA TransposeOfProduct ==
  ASSUME NEW r, IsMatrix(r), NEW s, IsMatrix(s)
  PROVE  Transpose(Product(r, s)) = Product(Transpose(s), Transpose(r))
<1> DEFINE A == Product(r, s)
           P == Product(Transpose(s), Transpose(r))
<1>1. IsMatrix(Transpose(r)) /\ IsMatrix(Transpose(s))
  BY DetOfTranspose
<1>2. /\ P \in Matrix
      /\ \A i, j \in Axes : P[i][j] = Transpose(s)[i][1] * Transpose(r)[1][j]
            + Transpose(s)[i][2] * Transpose(r)[2][j] + Transpose(s)[i][3] * Transpose(r)[3][j]
  BY <1>1, ProductEntries
<1>3. IsMatrix(A) /\ \A i, j \in Axes : A[i][j] = r[i][1] * s[1][j] + r[i][2] * s[2][j] + r[i][3] * s[3][j]
  BY ProductEntries
<1> HIDE DEF A, P
<1>4. Transpose(A) \in Matrix
  BY <1>3, DetOfTranspose
<1>5. ASSUME NEW i \in Axes, NEW j \in Axes
      PROVE  Transpose(A)[i][j] = P[i][j]
  <2> DEFINE r1 == r[j][1]
             r2 == r[j][2]
             r3 == r[j][3]
             s1 == s[1][i]
             s2 == s[2][i]
             s3 == s[3][i]
  <2>1. /\ Transpose(A)[i][j] = A[j][i]
        /\ Transpose(s)[i][1] = s1 /\ Transpose(s)[i][2] = s2 /\ Transpose(s)[i][3] = s3
        /\ Transpose(r)[1][j] = r1 /\ Transpose(r)[2][j] = r2 /\ Transpose(r)[3][j] = r3
    BY DEF Transpose, Axes
  <2>2. r1 \in Int /\ r2 \in Int /\ r3 \in Int /\ s1 \in Int /\ s2 \in Int /\ s3 \in Int
    BY DEF IsMatrix, Axes
  <2>3. P[i][j] = s1 * r1 + s2 * r2 + s3 * r3
    BY <1>2, <2>1
  <2>4. A[j][i] = r1 * s1 + r2 * s2 + r3 * s3
    BY <1>3
  <2> HIDE DEF r1, r2, r3, s1, s2, s3
  <2>5. s1 * r1 + s2 * r2 + s3 * r3 = r1 * s1 + r2 * s2 + r3 * s3
    BY <2>2
  <2> QED BY <2>1, <2>3, <2>4, <2>5
<1>6. Transpose(A) = P
  BY <1>2, <1>4, <1>5, MatrixEqual
<1> QED BY <1>6 DEF A, P
=============================================================================
