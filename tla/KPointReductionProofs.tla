------------------------ MODULE KPointReductionProofs ------------------------
(***************************************************************************)
(* For every crystal, mesh and half-shift: the reduction partitions the    *)
(* grid, and the identity is always detected.  Where the rotations found   *)
(* include their inverses, the reduction is complete.  Where the search    *)
(* radius covers the cell they do, and the symmetrizer undoes what the     *)
(* reduction leaves out; if the cell is primitive, too, the operations     *)
(* form a group.                                                           *)
(***************************************************************************)
EXTENDS KPointReduction, SpaceGroupProofs

-----------------------------------------------------------------------------
(* Row-major flattening stays within the mesh.                             *)
LEMMA FlattenInRange ==
  ASSUME NEW a \in Nat \ {0}, NEW b \in Nat \ {0}, NEW c \in Nat \ {0},
         NEW i \in 0 .. a - 1, NEW j \in 0 .. b - 1, NEW k \in 0 .. c - 1
  PROVE  i * b * c + j * c + k \in 0 .. a * b * c - 1
<1>1. j * c <= (b - 1) * c /\ (b - 1) * c = b * c - c /\ j * c \in Nat
  BY TimesMonotone
<1>2. b * c \in Nat /\ i * (b * c) <= (a - 1) * (b * c) /\ i * (b * c) \in Nat
  BY TimesMonotone
<1>3. (a - 1) * (b * c) = a * b * c - b * c /\ i * (b * c) = i * b * c
      /\ a * b * c \in Nat
  OBVIOUS
<1> QED BY <1>1, <1>2, <1>3

(* Row-major unflattening of p stays within the mesh and inverts it.       *)
RoundTrip(a, b, c, p) ==
  /\ p \div (b * c) \in 0 .. a - 1
  /\ (p \div c) % b \in 0 .. b - 1
  /\ p % c \in 0 .. c - 1
  /\ (p \div (b * c)) * b * c + ((p \div c) % b) * c + (p % c) = p

(* It does for every point of a mesh of a * b * c points.                  *)
LEMMA UnflattenThenFlatten ==
  ASSUME NEW a \in Nat \ {0}, NEW b \in Nat \ {0}, NEW c \in Nat \ {0},
         NEW p \in Nat, p < a * b * c
  PROVE  RoundTrip(a, b, c, p)
<1> DEFINE q == p \div c
           i == q \div b
           j == q % b
           k == p % c
<1>1. /\ p \in Int /\ q \in Int /\ k \in Int /\ p = c * q + k
      /\ 0 <= k /\ k < c
  BY DivMod
<1>2. /\ i \in Int /\ j \in Int /\ q = b * i + j
      /\ 0 <= j /\ j < b
  BY <1>1, DivMod
<1> HIDE DEF q, i, j, k
<1>3. /\ b * c \in Nat \ {0}
      /\ p = (b * c) * i + (j * c + k)
  BY <1>1, <1>2
<1>4. 0 <= j * c + k /\ j * c + k < b * c
  <2>1. j * c <= (b - 1) * c /\ 0 * c <= j * c
    BY <1>2, TimesMonotone
  <2> QED BY <1>1, <1>2, <2>1
<1>5. p \div (b * c) = i
  BY <1>2, <1>1, <1>3, <1>4, DivModUnique
<1>6. i \in 0 .. a - 1
  <2>1. p >= 0 /\ p < a * (b * c)
    OBVIOUS
  <2>2. CASE i < 0
    <3>1. i * (b * c) <= (-1) * (b * c)
      BY <1>2, <1>3, <2>2, TimesMonotone
    <3> QED BY <1>1, <1>2, <1>3, <1>4, <2>1, <3>1
  <2>3. CASE i >= a
    <3>1. a * (b * c) <= i * (b * c)
      BY <1>2, <1>3, <2>3, TimesMonotone
    <3> QED BY <1>1, <1>2, <1>3, <1>4, <2>1, <3>1
  <2> QED BY <1>2, <2>2, <2>3
<1>7. (p \div c) % b = j /\ p % c = k
  BY DEF j, k, q
<1>8. i * b * c + j * c + k = p
  BY <1>1, <1>2, <1>3
<1> QED BY <1>1, <1>2, <1>5, <1>6, <1>7, <1>8 DEF RoundTrip
-----------------------------------------------------------------------------
(* The mesh of a run.                                                      *)
GridInv == grid \in Grids

(* Mesh counts, shifts, and the unit of the fractional coordinates.        *)
LEMMA GridFacts ==
  ASSUME GridInv
  PROVE  /\ \A j \in Axes : grid.n[j] \in Nat \ {0} /\ grid.flags[j] \in Nat
         /\ grid.n[1] \in Nat \ {0} /\ grid.n[2] \in Nat \ {0} /\ grid.n[3] \in Nat \ {0}
         /\ NTotal \in Nat \ {0} /\ Scale \in Nat \ {0}
<1>1. \A j \in Axes : grid.n[j] \in Nat \ {0} /\ grid.flags[j] \in Nat
  BY GridAssumption DEF GridAssumption, GridInv
<1>2. grid.n[1] \in Nat \ {0} /\ grid.n[2] \in Nat \ {0} /\ grid.n[3] \in Nat \ {0}
  BY <1>1 DEF Axes
<1>3. NTotal \in Nat \ {0}
  BY <1>2 DEF NTotal
<1> QED BY <1>1, <1>2, <1>3 DEF Scale

(* Scale is an even multiple of every mesh count.                          *)
LEMMA ScaleIsMultiple ==
  ASSUME GridInv, NEW j \in Axes
  PROVE  /\ Scale \div (2 * grid.n[j]) \in Nat
         /\ Scale = 2 * grid.n[j] * (Scale \div (2 * grid.n[j]))
<1> DEFINE a == grid.n[1]
           b == grid.n[2]
           c == grid.n[3]
<1>1. a \in Nat \ {0} /\ b \in Nat \ {0} /\ c \in Nat \ {0}
  BY GridFacts
<1>2. Scale = 2 * (a * b * c)
  BY DEF Scale, NTotal
<1> HIDE DEF a, b, c
<1>3. ASSUME NEW x \in Nat \ {0}, NEW m \in Nat, Scale = (2 * x) * m
      PROVE  Scale \div (2 * x) \in Nat /\ Scale = 2 * x * (Scale \div (2 * x))
  <2>1. 2 * x \in Nat \ {0}
    OBVIOUS
  <2>2. ((2 * x) * m + 0) \div (2 * x) = m
    BY <2>1, DivModUnique
  <2>3. Scale \div (2 * x) = m
    BY <1>3, <2>1, <2>2
  <2> QED BY <1>3, <2>3
<1>4. b * c \in Nat /\ a * c \in Nat /\ a * b \in Nat
  BY <1>1
<1>5. /\ Scale = (2 * a) * (b * c) /\ Scale = (2 * b) * (a * c)
      /\ Scale = (2 * c) * (a * b)
  BY <1>1, <1>2
<1>6. grid.n[j] = a \/ grid.n[j] = b \/ grid.n[j] = c
  BY DEF Axes, a, b, c
<1> QED BY <1>1, <1>3, <1>4, <1>5, <1>6

(* Wrapping into the first zone changes a coordinate by lattice vectors    *)
(* only.                                                                   *)
LEMMA WrapKeepsResidue ==
  ASSUME GridInv, NEW f \in Int
  PROVE  WrapToZone(f) \in Int /\ WrapToZone(f) % Scale = f % Scale
<1> DEFINE w == (2 * f + Scale) \div (2 * Scale)
<1>1. Scale \in Nat \ {0} /\ w \in Int
  BY GridFacts, DivMod
<1>2. WrapToZone(f) = f - Scale * w
  BY DEF WrapToZone
<1> HIDE DEF w
<1>3. /\ f \div Scale \in Int /\ f % Scale \in Int
      /\ f = Scale * (f \div Scale) + (f % Scale)
      /\ 0 <= f % Scale /\ f % Scale < Scale
  BY <1>1, DivMod
<1>4. f - Scale * w = Scale * ((f \div Scale) - w) + (f % Scale)
  BY <1>1, <1>3
<1>5. (Scale * ((f \div Scale) - w) + (f % Scale)) % Scale = f % Scale
  <2>1. (f \div Scale) - w \in Int
    BY <1>1, <1>3
  <2> QED BY <1>1, <1>3, <2>1, DivModUnique
<1> QED BY <1>1, <1>2, <1>4, <1>5

(* The coordinate of a grid point, one axis.                               *)
OnAxis(p, j) ==
  (2 * GridIndex(p)[j] + grid.flags[j]) * (Scale \div (2 * grid.n[j]))

(* A grid point has mesh indices within the counts, which flatten to it.   *)
LEMMA GridIndexFacts ==
  ASSUME GridInv, NEW p \in Points
  PROVE  /\ \A j \in Axes : GridIndex(p)[j] \in 0 .. grid.n[j] - 1
         /\ Flat(GridIndex(p)) = p
<1> DEFINE a == grid.n[1]
           b == grid.n[2]
           c == grid.n[3]
<1>1. a \in Nat \ {0} /\ b \in Nat \ {0} /\ c \in Nat \ {0}
  BY GridFacts
<1>2. p \in Nat /\ p < a * b * c
  BY <1>1 DEF Points, NTotal
<1>3. GridIndex(p) = <<p \div (b * c), (p \div c) % b, p % c>>
  BY DEF GridIndex
<1>4. \A i : Flat(i) = i[1] * b * c + i[2] * c + i[3]
  BY DEF Flat
<1>5. \A j \in Axes : 
        (j = 1 /\ grid.n[j] = a) \/ (j = 2 /\ grid.n[j] = b) \/ (j = 3 /\ grid.n[j] = c)
  BY DEF Axes
<1> HIDE DEF a, b, c
<1>6. RoundTrip(a, b, c, p)
  BY <1>1, <1>2, UnflattenThenFlatten
<1>7. Flat(GridIndex(p)) = p
  BY <1>3, <1>4, <1>6 DEF RoundTrip
<1>8. ASSUME NEW j \in Axes PROVE GridIndex(p)[j] \in 0 .. grid.n[j] - 1
  BY <1>3, <1>5, <1>6 DEF RoundTrip
<1> QED BY <1>7, <1>8

(* frac_to_grid_index inverts mp_fractional_coord on each axis: the half   *)
(* shift cancels, the rest is a whole number of mesh steps.                *)
LEMMA AxisRoundTrip ==
  ASSUME GridInv, NEW p \in Points, NEW j \in Axes
  PROVE  LET twice == 2 * (Fractional(p)[j] % Scale) * grid.n[j] - grid.flags[j] * Scale
         IN  /\ Fractional(p)[j] \in Int
             /\ twice % (2 * Scale) = 0
             /\ (twice \div (2 * Scale)) % grid.n[j] = GridIndex(p)[j]
<1> DEFINE n == grid.n[j]
           i == GridIndex(p)[j]
           k == grid.flags[j]
           m == Scale \div (2 * n)
           x == (2 * i + k) * m
           t == x \div Scale
<1>1. n \in Nat \ {0} /\ k \in Nat /\ Scale \in Nat \ {0}
  BY GridFacts
<1>2. i \in 0 .. n - 1 /\ i \in Int
  BY GridIndexFacts
<1>3. m \in Nat /\ Scale = 2 * n * m
  BY ScaleIsMultiple
<1>4. x \in Int
  BY <1>1, <1>2, <1>3
<1>5. Fractional(p)[j] = WrapToZone(x)
  BY DEF Fractional
<1> HIDE DEF n, i, k, m, x, t
<1>6. Fractional(p)[j] \in Int /\ Fractional(p)[j] % Scale = x % Scale
  BY <1>4, <1>5, WrapKeepsResidue
<1>7. t \in Int /\ x % Scale = x - Scale * t
  BY <1>1, <1>4, DivMod DEF t
<1> DEFINE twice == 2 * (x % Scale) * n - k * Scale
           step == 2 * Scale
           q == i - n * t
<1>8. twice = step * q + 0
  <2> DEFINE u == x * n
             v == n * t
  <2>1. u = (2 * i + k) * (n * m) /\ u \in Int /\ v \in Int
    BY <1>1, <1>2, <1>3, <1>4, <1>7 DEF x
  <2>2. twice = 2 * u - 2 * Scale * v - k * Scale
    BY <1>1, <1>4, <1>7
  <2>3. 2 * u = (2 * i + k) * Scale
    BY <1>1, <1>2, <1>3, <2>1
  <2>4. step * q = 2 * Scale * i - 2 * Scale * v
    BY <1>1, <1>2, <2>1
  <2> HIDE DEF u, v, twice, step, q
  <2> QED BY <1>1, <1>2, <2>1, <2>2, <2>3, <2>4
<1>9. q \in Int /\ step \in Nat \ {0}
  BY <1>1, <1>2, <1>7
<1> HIDE DEF twice, step, q
<1>10. twice % step = 0 /\ twice \div step = q
  BY <1>8, <1>9, DivModUnique
<1>11. q % n = i
  BY <1>1, <1>2, <1>7, ModOfShift DEF q
<1> QED BY <1>6, <1>10, <1>11 DEF twice, step, n, i, k
-----------------------------------------------------------------------------
(* A coordinate that is a whole number of mesh steps beyond the half-shift. *)
OnMesh(f, j) == (2 * (f[j] % Scale) * grid.n[j] - grid.flags[j] * Scale) % (2 * Scale) = 0

(* frac_to_grid_index returns a grid point or misses the grid.             *)
LEMMA GridIndexInRange ==
  ASSUME GridInv, NEW f, IsVector(f)
  PROVE  /\ FracToGridIndex(f) \in Points \cup {OffGrid}
         /\ (\A j \in Axes : OnMesh(f, j)) => FracToGridIndex(f) \in Points
<1> DEFINE twice(j) == 2 * (f[j] % Scale) * grid.n[j] - grid.flags[j] * Scale
           i == [j \in Axes |-> (twice(j) \div (2 * Scale)) % grid.n[j]]
<1>1. /\ FracToGridIndex(f) = Flat(i) \/ FracToGridIndex(f) = OffGrid
      /\ (\A j \in Axes : OnMesh(f, j)) => FracToGridIndex(f) = Flat(i)
  BY DEF FracToGridIndex, OnMesh
<1>2. ASSUME NEW j \in Axes PROVE i[j] \in 0 .. grid.n[j] - 1
  <2>1. /\ f[j] \in Int /\ grid.n[j] \in Nat \ {0} /\ grid.flags[j] \in Nat
        /\ Scale \in Nat \ {0} /\ 2 * Scale \in Nat \ {0}
    BY GridFacts DEF IsVector
  <2>2. f[j] % Scale \in Int
    BY <2>1, DivMod
  <2>3. twice(j) \in Int
    BY <2>1, <2>2
  <2> HIDE DEF twice
  <2>4. twice(j) \div (2 * Scale) \in Int
    BY <2>1, <2>3, DivMod
  <2>5. i[j] = (twice(j) \div (2 * Scale)) % grid.n[j]
    OBVIOUS
  <2> HIDE DEF i
  <2> DEFINE steps == twice(j) \div (2 * Scale)
             m == grid.n[j]
  <2>6. i[j] = steps % m /\ steps \in Int /\ m \in Nat \ {0}
    BY <2>1, <2>4, <2>5
  <2> HIDE DEF steps, m
  <2>7. i[j] \in 0 .. m - 1
    BY <2>6, DivMod
  <2> QED BY <2>7 DEF m
<1> HIDE DEF i
<1>3. Flat(i) \in Points
  <2>1. /\ i[1] \in 0 .. grid.n[1] - 1 /\ i[2] \in 0 .. grid.n[2] - 1
        /\ i[3] \in 0 .. grid.n[3] - 1
    BY <1>2 DEF Axes
  <2> QED BY <2>1, GridFacts, FlattenInRange DEF Flat, Points, NTotal
<1> QED BY <1>1, <1>3

(* Coordinates of grid points are integers.                                *)
LEMMA FractionalIsVector ==
  ASSUME GridInv, NEW p \in Points
  PROVE  IsVector(Fractional(p))
BY AxisRoundTrip DEF IsVector

(* Images of grid points are grid points or miss the grid.                 *)
LEMMA ImageInRange ==
  ASSUME GridInv, NEW op, IsMatrix(op.rotation), NEW sign \in {1, -1}, NEW p \in Points
  PROVE  Image(op, sign, p) \in Points \cup {OffGrid}
<1> DEFINE k_rot == Apply(InverseTranspose(op.rotation), Fractional(p))
           f == [j \in Axes |-> sign * k_rot[j]]
<1>1. IsVector(k_rot)
  BY InverseTransposeIsMatrix, FractionalIsVector, ApplyIsVector
<1> HIDE DEF k_rot
<1>2. IsVector(f)
  BY <1>1 DEF IsVector
<1>3. Image(op, sign, p) = FracToGridIndex(f)
  BY DEF Image, k_rot
<1> HIDE DEF f
<1> QED BY <1>2, <1>3, GridIndexInRange

(* The identity takes every grid point to itself.                          *)
LEMMA IdentityImage ==
  ASSUME GridInv, NEW p \in Points
  PROVE  Image(IdentityOp, 1, p) = p
<1> DEFINE k_rot == Apply(InverseTranspose(Identity), Fractional(p))
           f == [j \in Axes |-> 1 * k_rot[j]]
<1>1. \A j \in Axes : k_rot[j] = Fractional(p)[j] /\ Fractional(p)[j] \in Int
  BY FractionalIsVector, IdentityActs DEF IsVector
<1>2. Image(IdentityOp, 1, p) = FracToGridIndex(f)
  BY IdentityIsMatrix DEF Image
<1> HIDE DEF k_rot
<1>3. \A j \in Axes : f[j] = Fractional(p)[j]
  BY <1>1
<1> HIDE DEF f
<1> DEFINE twice(j) == 2 * (f[j] % Scale) * grid.n[j] - grid.flags[j] * Scale
           i == [j \in Axes |-> (twice(j) \div (2 * Scale)) % grid.n[j]]
<1>4. \A j \in Axes : /\ twice(j) % (2 * Scale) = 0
                      /\ i[j] = GridIndex(p)[j]
  BY <1>3, AxisRoundTrip
<1>5. FracToGridIndex(f) = Flat(i)
  BY <1>4 DEF FracToGridIndex
<1>6. Flat(i) = Flat(GridIndex(p))
  <2> HIDE DEF i
  <2> QED BY <1>4 DEF Flat, Axes
<1> QED BY <1>2, <1>5, <1>6, GridIndexFacts
-----------------------------------------------------------------------------
(* What makes the partition inductive: the points behind the counter are   *)
(* visited, every visited point belongs to a representative behind the     *)
(* counter, and a representative belongs to itself, so the next one's      *)
(* orbit takes no member from an earlier class.                            *)
Class(rep) == {p \in Points : owner[p] = rep}

Entry == [point : Points, weight : Nat]

Typed ==
  /\ GridInv
  /\ pc \in {"settings", "reducing", "reduced", "panicked"}
  /\ idx \in 0 .. NTotal
  /\ visited \subseteq Points
  /\ owner \in [Points -> Points \cup {OffGrid}]
  /\ ibz \in Seq(Entry)

Operated ==
  /\ \A op \in operations : IsMatrix(op.rotation)
  /\ pc = "reducing" => IdentityOp \in operations

Behind ==
  /\ \A p \in Points : p < idx => p \in visited
  /\ \A p \in Points : owner[p] # OffGrid => owner[p] < idx
  /\ visited = {p \in Points : owner[p] # OffGrid}
  /\ pc = "reduced" => idx = NTotal

Classes ==
  \A i \in 1 .. Len(ibz) :
    /\ ibz[i].point < idx
    /\ owner[ibz[i].point] = ibz[i].point
    /\ ibz[i].weight = Cardinality(Class(ibz[i].point))

Listed ==
  /\ \A p \in Points : owner[p] # OffGrid => \E i \in 1 .. Len(ibz) : ibz[i].point = owner[p]
  /\ \A i, j \in 1 .. Len(ibz) : ibz[i].point = ibz[j].point => i = j

PInv == Typed /\ Operated /\ Behind /\ Classes /\ Listed

(* Nothing is visited before the loop.                                     *)
LEMMA PInit == Init => PInv
<1> SUFFICES ASSUME Init PROVE PInv
  OBVIOUS
<1>1. GridInv /\ NTotal \in Nat \ {0}
  BY GridFacts DEF Init, GridInv
<1>2. Typed
  BY <1>1 DEF Init, Typed, Entry, Points
<1>3. Operated
  BY DEF Init, Operated
<1>4. Behind
  BY <1>1 DEF Init, Behind, Points
<1>5. Classes /\ Listed
  BY DEF Init, Classes, Listed, Points
<1> QED BY <1>2, <1>3, <1>4, <1>5 DEF PInv

(* The operations are those detected, or the identity alone.               *)
LEMMA SetUpKeeps ==
  ASSUME PInv, SetUpSymmetry
  PROVE  PInv'
<1>1. /\ UNCHANGED <<crystal, grid, enabled, time_reversal, idx, visited, ibz, owner>>
      /\ pc' \in {"reducing", "panicked"}
      /\ pc' = "reducing" => IdentityOp \in operations'
      /\ \A op \in operations' : op \in FindSymmetryOperations(crystal) \/ op = IdentityOp
  BY DEF SetUpSymmetry
<1>2. \A op \in operations' : IsMatrix(op.rotation)
  BY <1>1, DetectedAreMatrices, IdentityIsMatrix
<1>3. NTotal' = NTotal /\ Points' = Points /\ Entry' = Entry /\ (GridInv => GridInv')
  BY <1>1 DEF NTotal, Points, Entry, GridInv
<1>4. Typed'
  BY <1>1, <1>3 DEF PInv, Typed, OffGrid
<1>5. Behind' /\ Listed'
  BY <1>1, <1>3 DEF PInv, Behind, Listed, OffGrid
<1>6. Classes'
  BY <1>1, <1>3 DEF PInv, Classes, Class
<1> QED BY <1>1, <1>2, <1>4, <1>5, <1>6 DEF PInv, Operated

(* Entries of the list name grid points.                                   *)
LEMMA EntriesArePoints ==
  ASSUME Typed, NEW i \in 1 .. Len(ibz)
  PROVE  ibz[i] \in Entry /\ ibz[i].point \in Points /\ ibz[i].point \in Int
<1>1. ibz[i] \in Entry
  BY DEF Typed
<1> QED BY <1>1 DEF Entry, Points

(* The orbit of an unvisited point is fresh, on the grid, and holds it.    *)
LEMMA OrbitFacts ==
  ASSUME PInv, pc = "reducing", NEW p \in Points \ visited
  PROVE  Orbit(p) \subseteq Points \ visited /\ p \in Orbit(p)
<1>1. Signs \subseteq {1, -1} /\ 1 \in Signs
  BY DEF Signs
<1>2. \A op \in operations, sign \in Signs : Image(op, sign, p) \in Points \cup {OffGrid}
  BY <1>1, ImageInRange DEF PInv, Typed, Operated
<1>3. Image(IdentityOp, 1, p) = p /\ IdentityOp \in operations
  BY IdentityImage DEF PInv, Typed, Operated
<1>4. p # OffGrid
  BY DEF Points, OffGrid
<1> QED BY <1>1, <1>2, <1>3, <1>4 DEF Orbit

(* Skipping a visited point leaves every class alone.                      *)
LEMMA SkipKeeps ==
  ASSUME PInv, SkipVisited
  PROVE  PInv'
<1>1. /\ UNCHANGED <<crystal, grid, enabled, time_reversal, pc, operations,
                     has_time_reversal, visited, ibz, owner>>
      /\ pc = "reducing" /\ idx' = idx + 1 /\ idx \in visited
  BY DEF SkipVisited
<1>2. idx \in Points /\ idx + 1 \in 0 .. NTotal /\ NTotal \in Nat /\ Points \subseteq Int
  BY <1>1, GridFacts DEF PInv, Typed, Points
<1>3. Typed'
  BY <1>1, <1>2 DEF PInv, Typed, Entry, GridInv, Points, NTotal
<1>4. Operated'
  BY <1>1 DEF PInv, Operated
<1>5. Behind'
  <2>1. \A p \in Points : p < idx + 1 => p < idx \/ p = idx
    BY <1>2
  <2>2. \A p \in Points : owner[p] # OffGrid => owner[p] < idx + 1
    <3>1. \A p \in Points : owner[p] # OffGrid => owner[p] \in Int /\ owner[p] < idx
      BY <1>2 DEF PInv, Typed, Behind
    <3> QED BY <1>2, <3>1
  <2> QED BY <1>1, <1>2, <2>1, <2>2 DEF PInv, Behind, Points, NTotal
<1>6. Classes'
  <2>1. \A rep : Class(rep)' = Class(rep)
    BY <1>1 DEF Class, Points, NTotal
  <2>2. ASSUME NEW i \in 1 .. Len(ibz)
        PROVE  /\ ibz[i].point < idx + 1
               /\ owner[ibz[i].point] = ibz[i].point
               /\ ibz[i].weight = Cardinality(Class(ibz[i].point))
    BY <1>2, EntriesArePoints DEF PInv, Classes
  <2> QED BY <1>1, <2>1, <2>2 DEF Classes
<1>7. Listed'
  BY <1>1 DEF PInv, Listed, Points, NTotal, OffGrid
<1> QED BY <1>3, <1>4, <1>5, <1>6, <1>7 DEF PInv

(* A new representative's class is its orbit, and no other class changes.  *)
LEMMA AddKeeps ==
  ASSUME PInv, AddRepresentative
  PROVE  PInv'
<1> DEFINE orbit == Orbit(idx)
           entry == [point |-> idx, weight |-> OrbitCount(idx)]
<1>1. /\ pc = "reducing" /\ idx \in Points \ visited
      /\ visited' = visited \cup orbit
      /\ owner' = [p \in Points |-> IF p \in orbit THEN idx ELSE owner[p]]
      /\ ibz' = Append(ibz, entry) /\ idx' = idx + 1
      /\ UNCHANGED <<crystal, grid, enabled, time_reversal, pc, operations,
                     has_time_reversal>>
  BY DEF AddRepresentative
<1>2. orbit \subseteq Points \ visited /\ idx \in orbit
  BY <1>1, OrbitFacts
<1>3. /\ idx \in Int /\ idx + 1 \in 0 .. NTotal /\ Points \subseteq Int
      /\ OffGrid \notin Points /\ Points' = Points /\ NTotal' = NTotal
  BY <1>1, GridFacts DEF PInv, Typed, Points, OffGrid, NTotal
<1>4. OrbitCount(idx) = Cardinality(orbit) /\ Cardinality(orbit) \in Nat
  <2>1. IsFiniteSet(Points)
    <3>1. NTotal - 1 \in Int
      BY GridFacts DEF PInv, Typed
    <3> QED BY <3>1, FS_Interval DEF Points
  <2>2. IsFiniteSet(orbit)
    BY <1>2, <2>1, FS_Subset
  <2> QED BY <2>2, FS_CardinalityType DEF OrbitCount
<1> HIDE DEF orbit
<1>5. entry \in Entry /\ entry.point = idx /\ entry.weight = Cardinality(orbit)
  BY <1>1, <1>4 DEF Entry
<1> HIDE DEF entry
<1>6. /\ ibz' \in Seq(Entry) /\ Len(ibz') = Len(ibz) + 1
      /\ \A i \in 1 .. Len(ibz) : ibz'[i] = ibz[i]
      /\ ibz'[Len(ibz')] = entry /\ Len(ibz) \in Nat
  BY <1>1, <1>5 DEF PInv, Typed
<1>7. Entry' = Entry /\ GridInv'
  BY <1>1, <1>3 DEF Entry, PInv, Typed, GridInv
<1>8. owner' \in [Points -> Points \cup {OffGrid}] /\ visited' \subseteq Points
  BY <1>1, <1>2 DEF PInv, Typed
<1>9. Typed'
  BY <1>1, <1>3, <1>6, <1>7, <1>8 DEF PInv, Typed
<1>10. Operated'
  BY <1>1 DEF PInv, Operated
<1>11. Behind'
  <2>1. ASSUME NEW p \in Points, p < idx + 1 PROVE p \in visited'
    <3>1. p < idx \/ p = idx
      BY <1>3, <2>1
    <3> QED BY <1>1, <1>2, <3>1 DEF PInv, Behind
  <2>2. ASSUME NEW p \in Points, owner'[p] # OffGrid PROVE owner'[p] < idx + 1
    <3>1. CASE p \in orbit
      BY <1>1, <1>3, <3>1
    <3>2. CASE p \notin orbit
      <4>1. owner'[p] = owner[p] /\ owner[p] \in Int /\ owner[p] < idx
        BY <1>1, <1>3, <2>2, <3>2 DEF PInv, Typed, Behind
      <4> QED BY <1>3, <4>1
    <3> QED BY <3>1, <3>2
  <2>3. visited' = {p \in Points : owner'[p] # OffGrid}
    BY <1>1, <1>2, <1>3 DEF PInv, Behind
  <2> QED BY <1>1, <1>3, <2>1, <2>2, <2>3 DEF Behind
<1>12. Classes'
  <2>1. \A p \in orbit : owner[p] = OffGrid
    BY <1>2 DEF PInv, Behind
  <2>2. ASSUME NEW i \in 1 .. Len(ibz)
        PROVE  /\ ibz'[i].point < idx + 1
               /\ owner'[ibz'[i].point] = ibz'[i].point
               /\ ibz'[i].weight = Cardinality({p \in Points : owner'[p] = ibz'[i].point})
    <3> DEFINE rep == ibz[i].point
    <3>1. /\ ibz'[i] = ibz[i] /\ rep \in Points /\ rep \in Int /\ rep < idx
          /\ owner[rep] = rep /\ ibz[i].weight = Cardinality(Class(rep))
      BY <1>6, EntriesArePoints DEF PInv, Classes
    <3> HIDE DEF rep
    <3>2. rep \notin orbit /\ rep # idx
      BY <1>3, <2>1, <3>1
    <3>3. {p \in Points : owner'[p] = rep} = Class(rep)
      BY <1>1, <1>3, <2>1, <3>1, <3>2 DEF Class
    <3>4. owner'[rep] = rep /\ rep < idx + 1
      BY <1>1, <1>3, <3>1, <3>2
    <3> QED BY <3>1, <3>3, <3>4 DEF rep
  <2>3. {p \in Points : owner'[p] = idx} = orbit
    <3>1. \A p \in Points : owner[p] # idx
      BY <1>1, <1>3 DEF PInv, Behind
    <3> QED BY <1>1, <1>2, <3>1
  <2>4. owner'[idx] = idx /\ idx < idx + 1
    BY <1>1, <1>2, <1>3
  <2>5. \A i \in 1 .. Len(ibz') : i \in 1 .. Len(ibz) \/ i = Len(ibz')
    BY <1>6
  <2>6. ASSUME NEW i \in 1 .. Len(ibz')
        PROVE  /\ ibz'[i].point < idx + 1
               /\ owner'[ibz'[i].point] = ibz'[i].point
               /\ ibz'[i].weight = Cardinality({p \in Points : owner'[p] = ibz'[i].point})
    <3>1. CASE i \in 1 .. Len(ibz)
      BY <2>2, <3>1
    <3>2. CASE i = Len(ibz')
      BY <1>5, <1>6, <2>3, <2>4, <3>2
    <3> QED BY <2>5, <3>1, <3>2
  <2> QED BY <1>1, <1>3, <2>6 DEF Classes, Class
<1>13. Listed'
  <2>1. \A i \in 1 .. Len(ibz') : i \in 1 .. Len(ibz) \/ i = Len(ibz')
    BY <1>6
  <2>2. ASSUME NEW p \in Points, owner'[p] # OffGrid
        PROVE  \E i \in 1 .. Len(ibz') : ibz'[i].point = owner'[p]
    <3>1. CASE p \in orbit
      BY <1>1, <1>5, <1>6, <3>1
    <3>2. CASE p \notin orbit
      <4>1. owner'[p] = owner[p]
        BY <1>1, <3>2
      <4>2. PICK i \in 1 .. Len(ibz) : ibz[i].point = owner[p]
        BY <2>2, <4>1 DEF PInv, Listed
      <4> QED BY <1>6, <4>1, <4>2
    <3> QED BY <3>1, <3>2
  <2>3. ASSUME NEW i \in 1 .. Len(ibz)
        PROVE  ibz'[i].point = ibz[i].point /\ ibz[i].point # idx
    <3>1. ibz[i].point \in Int /\ ibz[i].point < idx
      BY EntriesArePoints DEF PInv, Classes
    <3> QED BY <1>3, <1>6, <3>1
  <2>4. ibz'[Len(ibz')].point = idx
    BY <1>5, <1>6
  <2>5. ASSUME NEW i \in 1 .. Len(ibz'), NEW j \in 1 .. Len(ibz'),
               ibz'[i].point = ibz'[j].point
        PROVE  i = j
    BY <2>1, <2>3, <2>4, <2>5 DEF PInv, Listed
  <2> QED BY <1>3, <2>2, <2>5 DEF Listed, OffGrid
<1> QED BY <1>9, <1>10, <1>11, <1>12, <1>13 DEF PInv

(* The loop ends with the counter at the end of the grid.                  *)
LEMMA FinishKeeps ==
  ASSUME PInv, Finish
  PROVE  PInv'
<1>1. Typed' /\ Operated' /\ Behind' /\ Classes'
  BY DEF PInv, Finish, Typed, Entry, Operated, Behind, Classes, Class, GridInv, Points,
         NTotal
<1>2. Listed'
  BY DEF PInv, Finish, Listed, Points, NTotal, OffGrid
<1> QED BY <1>1, <1>2 DEF PInv

(* Every step keeps the partition.                                         *)
LEMMA PNext == PInv /\ [Next]_vars => PInv'
<1> SUFFICES ASSUME PInv, [Next]_vars PROVE PInv'
  OBVIOUS
<1>1. CASE UNCHANGED vars
  <2>1. Typed' /\ Operated' /\ Behind' /\ Classes'
    BY <1>1 DEF vars, PInv, Typed, Entry, Operated, Behind, Classes, Class, GridInv,
                Points, NTotal
  <2>2. Listed'
    BY <1>1 DEF vars, PInv, Listed, Points, NTotal, OffGrid
  <2> QED BY <2>1, <2>2 DEF PInv
<1> QED BY <1>1, SetUpKeeps, SkipKeeps, AddKeeps, FinishKeeps DEF Next

(* It holds in every reachable state.                                      *)
LEMMA Partition == Spec => []PInv
BY PInit, PNext, PTL DEF Spec

(* A finite mesh.                                                          *)
LEMMA PointsAreFinite ==
  ASSUME GridInv
  PROVE  IsFiniteSet(Points) /\ Cardinality(Points) = NTotal
<1> DEFINE last == NTotal - 1
<1>1. 0 \in Int /\ last \in Int /\ last >= 0 /\ (last - 0) + 1 = NTotal
  BY GridFacts
<1> HIDE DEF last
<1>2. IsFiniteSet(0 .. last) /\ Cardinality(0 .. last) = IF 0 > last THEN 0 ELSE (last - 0) + 1
  BY <1>1, FS_Interval
<1>3. ~ (0 > last)
  BY <1>1
<1> QED BY <1>1, <1>2, <1>3 DEF Points, last

(* Every point counted once, under its class, is the sum of the weights.   *)
LEMMA WeightsAddUp ==
  ASSUME PInv, visited = Points
  PROVE  SumFunction([i \in DOMAIN ibz |-> ibz[i].weight]) = NTotal
<1> DEFINE D == 1 .. Len(ibz)
           one == [p \in Points |-> 1]
           s == [i \in D |-> ibz[i].weight]
           h == [p \in Points |-> CHOOSE i \in D : ibz[i].point = owner[p]]
<1>1. DOMAIN ibz = D /\ Len(ibz) \in Nat
  BY DEF PInv, Typed
<1>2. IsFiniteSet(Points) /\ Cardinality(Points) = NTotal /\ IntegersOn(one, Points)
  BY PointsAreFinite DEF PInv, Typed, IntegersOn
<1>3. SumFunctionOnSet(one, Points) = NTotal
  <2>1. SumFunctionOnSet(one, Points) = 1 * Cardinality(Points)
    BY <1>2, SumOfConstant
  <2> QED BY <1>2, <2>1, GridFacts DEF PInv, Typed
<1>4. \A p \in Points : h[p] \in D /\ ibz[h[p]].point = owner[p]
  BY DEF PInv, Listed, Behind
<1> HIDE DEF h
<1>5. ASSUME NEW i \in D PROVE s[i] = SumFunctionOnSet(one, Keyed(Points, h, i))
  <2> DEFINE C == Class(ibz[i].point)
  <2>1. Keyed(Points, h, i) = C
    BY <1>4 DEF Keyed, Class, PInv, Listed
  <2>2. s[i] = Cardinality(C)
    BY DEF PInv, Classes
  <2>3. C \in SUBSET Points
    BY DEF Class
  <2> HIDE DEF C, s
  <2>4. IsFiniteSet(C) /\ Cardinality(C) \in Nat
    BY <1>2, <2>3, FS_Subset, FS_CardinalityType
  <2>5. SumFunctionOnSet(one, C) = 1 * Cardinality(C)
    BY <2>3, <2>4, SumOfConstant
  <2> QED BY <2>1, <2>2, <2>4, <2>5
<1>6. IsFiniteSet(D)
  <2> DEFINE n == Len(ibz)
  <2>1. n \in Int
    BY <1>1
  <2> HIDE DEF n
  <2>2. IsFiniteSet(1 .. n)
    BY <2>1, FS_Interval
  <2> QED BY <2>2 DEF n
<1>7. SumFunctionOnSet(one, Points) = SumFunctionOnSet(s, D)
  <2> HIDE DEF one, s, D
  <2>1. SumsByKey(s, D, one, Points, h)
    BY <1>4, <1>5 DEF SumsByKey
  <2> QED BY <1>2, <1>6, <2>1, SumByKey
<1>8. SumFunction([i \in DOMAIN ibz |-> ibz[i].weight]) = SumFunctionOnSet(s, D)
  BY <1>1 DEF SumFunction
<1> QED BY <1>3, <1>7, <1>8

(* The weights of the irreducible k-points are the sizes of classes that   *)
(* partition the grid, so they sum to 1: for every mesh and half-shift,    *)
(* also where operations move points off the grid, and even if the         *)
(* operations found are not a group.                                       *)
THEOREM WeightsAreClassSizes == Spec => []WeightIsClassSize
<1>1. PInv => WeightIsClassSize
  <2> SUFFICES ASSUME PInv PROVE WeightIsClassSize
    OBVIOUS
  <2>1. DOMAIN ibz = 1 .. Len(ibz)
    BY DEF PInv, Typed
  <2>2. pc = "reduced" => visited = Points
    <3>1. \A p \in Points : p < NTotal
      BY GridFacts DEF PInv, Typed, Points
    <3> QED BY <3>1 DEF PInv, Typed, Behind
  <2>3. ASSUME NEW p \in visited
        PROVE  \E i \in DOMAIN ibz : \A j \in DOMAIN ibz : ibz[j].point = owner[p] <=> j = i
    <3>1. PICK i \in 1 .. Len(ibz) : ibz[i].point = owner[p]
      BY DEF PInv, Behind, Listed
    <3>2. \A j \in 1 .. Len(ibz) : ibz[j].point = owner[p] <=> j = i
      BY <3>1 DEF PInv, Listed
    <3> QED BY <2>1, <3>2
  <2>4. pc = "reduced" => SumFunction([i \in DOMAIN ibz |-> ibz[i].weight]) = NTotal
    BY <2>2, WeightsAddUp
  <2> QED BY <2>1, <2>2, <2>3, <2>4 DEF PInv, Behind, Classes, Class, WeightIsClassSize
<1> QED BY <1>1, Partition, PTL
-----------------------------------------------------------------------------
(* Completeness.  An operation is undone by its inverse, on the grid too.  *)

(* Row-major flattening loses nothing.                                     *)
FlattenedFrom(b, c, i, j, k, p) ==
  p \div (b * c) = i /\ (p \div c) % b = j /\ p % c = k

(* Dividing the flat index by the strides gives the mesh indices back.     *)
LEMMA FlattenThenUnflatten ==
  ASSUME NEW b \in Nat \ {0}, NEW c \in Nat \ {0},
         NEW i \in Int, NEW j \in 0 .. b - 1, NEW k \in 0 .. c - 1, NEW p,
         p = i * b * c + j * c + k
  PROVE  FlattenedFrom(b, c, i, j, k, p)
<1> DEFINE q == b * i + j
<1>1. q \in Int /\ p = c * q + k
  OBVIOUS
<1> HIDE DEF q
<1>2. p \div c = q /\ p % c = k
  BY <1>1, DivModUnique
<1>3. q % b = j
  BY DivModUnique DEF q
<1> DEFINE m == b * c
           r == j * c + k
<1>4. m \in Nat \ {0} /\ r \in Int /\ p = m * i + r
  OBVIOUS
<1>5. 0 <= r /\ r < m
  <2>1. j * c <= (b - 1) * c /\ 0 * c <= j * c
    BY TimesMonotone
  <2> QED BY <2>1
<1> HIDE DEF m, r
<1>6. p \div m = i
  BY <1>4, <1>5, DivModUnique
<1> QED BY <1>2, <1>3, <1>6 DEF m, FlattenedFrom

(* The point at a coordinate: any vector that differs from the             *)
(* coordinates of p by reciprocal lattice vectors is found to be p.        *)
LEMMA PointAtCoordinate ==
  ASSUME GridInv, NEW p \in Points, NEW f,
         \A j \in Axes : f[j] % Scale = Fractional(p)[j] % Scale
  PROVE  FracToGridIndex(f) = p
<1> DEFINE twice(j) == 2 * (f[j] % Scale) * grid.n[j] - grid.flags[j] * Scale
           i == [j \in Axes |-> (twice(j) \div (2 * Scale)) % grid.n[j]]
<1>1. \A j \in Axes : /\ twice(j) % (2 * Scale) = 0
                      /\ i[j] = GridIndex(p)[j]
  BY AxisRoundTrip
<1>2. FracToGridIndex(f) = Flat(i)
  BY <1>1 DEF FracToGridIndex
<1>3. Flat(i) = Flat(GridIndex(p))
  <2> HIDE DEF i
  <2> QED BY <1>1 DEF Flat, Axes
<1> QED BY <1>2, <1>3, GridIndexFacts

(* And only such vectors are.                                              *)
LEMMA CoordinateOfPoint ==
  ASSUME GridInv, NEW f, IsVector(f), NEW q \in Points, FracToGridIndex(f) = q,
         NEW l \in Axes
  PROVE  f[l] % Scale = Fractional(q)[l] % Scale
<1> DEFINE twice(j) == 2 * (f[j] % Scale) * grid.n[j] - grid.flags[j] * Scale
           steps(j) == twice(j) \div (2 * Scale)
           i == [j \in Axes |-> steps(j) % grid.n[j]]
<1>1. q # OffGrid
  BY DEF Points, OffGrid
<1>2. (\A j \in Axes : twice(j) % (2 * Scale) = 0) /\ q = Flat(i)
  BY <1>1 DEF FracToGridIndex
<1>3. ASSUME NEW j \in Axes
      PROVE  /\ f[j] % Scale \in Int /\ 0 <= f[j] % Scale /\ f[j] % Scale < Scale
             /\ twice(j) \in Int /\ steps(j) \in Int
             /\ twice(j) = (2 * Scale) * steps(j)
             /\ i[j] \in 0 .. grid.n[j] - 1 /\ i[j] = steps(j) % grid.n[j]
  <2>1. /\ f[j] \in Int /\ grid.n[j] \in Nat \ {0} /\ grid.flags[j] \in Nat
        /\ Scale \in Nat \ {0} /\ 2 * Scale \in Nat \ {0}
    BY GridFacts DEF IsVector
  <2>2. f[j] % Scale \in Int /\ 0 <= f[j] % Scale /\ f[j] % Scale < Scale
    BY <2>1, DivMod
  <2>3. twice(j) \in Int
    BY <2>1, <2>2
  <2>4. twice(j) % (2 * Scale) = 0
    BY <1>2
  <2> HIDE DEF twice
  <2> DEFINE d == 2 * Scale
  <2>5. steps(j) = twice(j) \div d /\ d \in Nat \ {0} /\ twice(j) % d = 0
    BY <2>1, <2>4
  <2> HIDE DEF d, steps
  <2>6. steps(j) \in Int /\ twice(j) = d * steps(j)
    BY <2>3, <2>5, DivMod
  <2>7. i[j] = steps(j) % grid.n[j]
    OBVIOUS
  <2> HIDE DEF i
  <2>8. i[j] \in 0 .. grid.n[j] - 1
    <3> DEFINE m == grid.n[j]
               s == steps(j)
    <3>1. m \in Nat \ {0} /\ s \in Int /\ i[j] = s % m
      BY <2>1, <2>6, <2>7
    <3> HIDE DEF m, s
    <3>2. i[j] \in 0 .. m - 1
      BY <3>1, DivMod
    <3> QED BY <3>2 DEF m
  <2> QED BY <2>2, <2>3, <2>6, <2>7, <2>8 DEF d
<1> HIDE DEF i
<1>4. i[l] = GridIndex(q)[l]
  <2> DEFINE a == grid.n[1]
             b == grid.n[2]
             c == grid.n[3]
  <2>1. /\ b \in Nat \ {0} /\ c \in Nat \ {0}
        /\ i[1] \in Int /\ i[2] \in 0 .. b - 1 /\ i[3] \in 0 .. c - 1
    BY <1>3, GridFacts DEF Axes
  <2>2. q = i[1] * b * c + i[2] * c + i[3]
    BY <1>2 DEF Flat
  <2>3. GridIndex(q) = <<q \div (b * c), (q \div c) % b, q % c>>
    BY DEF GridIndex
  <2> HIDE DEF b, c
  <2>4. FlattenedFrom(b, c, i[1], i[2], i[3], q)
    BY <2>1, <2>2, FlattenThenUnflatten
  <2> QED BY <2>3, <2>4 DEF Axes, FlattenedFrom
<1> DEFINE n == grid.n[l]
           k == grid.flags[l]
           g == GridIndex(q)[l]
           m == Scale \div (2 * n)
           r == f[l] % Scale
           s == steps(l)
           w == s \div n
           x == (2 * g + k) * m
<1>5. n \in Nat \ {0} /\ k \in Nat /\ Scale \in Nat \ {0}
  BY GridFacts
<1>6. m \in Nat /\ Scale = 2 * n * m
  BY ScaleIsMultiple
<1>7. /\ r \in Int /\ 0 <= r /\ r < Scale /\ s \in Int
      /\ 2 * r * n - k * Scale = (2 * Scale) * s /\ g = s % n
  BY <1>3, <1>4
<1>8. Fractional(q)[l] = WrapToZone(x)
  BY DEF Fractional
<1>9. g \in Int
  BY GridIndexFacts
<1> HIDE DEF n, k, g, m, r, s, twice, steps
<1>10. w \in Int /\ s = n * w + g
  BY <1>5, <1>7, DivMod
<1>11. x \in Int
  BY <1>5, <1>6, <1>9
<1> HIDE DEF w
<1>12. r = x + Scale * w
  <2> DEFINE u == x + Scale * w
  <2>1. u \in Int /\ 2 * r * n = (2 * Scale) * (n * w + g) + k * Scale
    BY <1>5, <1>7, <1>9, <1>10, <1>11
  <2>2. (2 * n) * u = (2 * n) * x + (2 * n) * (Scale * w)
    BY <1>5, <1>10, <1>11
  <2>3. (2 * n) * x = (2 * g + k) * Scale
    BY <1>5, <1>6, <1>9
  <2>4. (2 * n) * (Scale * w) = (2 * Scale) * (n * w)
    BY <1>5, <1>10
  <2>5. (2 * Scale) * (n * w + g) + k * Scale = (2 * g + k) * Scale + (2 * Scale) * (n * w)
    <3> DEFINE nw == n * w
    <3>1. nw \in Int
      BY <1>5, <1>10
    <3> HIDE DEF nw
    <3>2. (2 * Scale) * (nw + g) + k * Scale = (2 * g + k) * Scale + (2 * Scale) * nw
      BY <1>5, <1>9, <3>1
    <3> QED BY <3>2 DEF nw
  <2>6. (2 * n) * r = (2 * n) * u
    <3>1. 2 * r * n = (2 * n) * r
      BY <1>5, <1>7
    <3> HIDE DEF u, x
    <3> QED BY <2>1, <2>2, <2>3, <2>4, <2>5, <3>1
  <2> HIDE DEF u
  <2>7. r = u
    <3> DEFINE d == r - u
    <3>1. d \in Int /\ (2 * n) * d = 0
      BY <1>5, <1>7, <2>1, <2>6
    <3>2. d = 0
      <4> HIDE DEF d
      <4> QED BY <1>5, <3>1
    <3> QED BY <1>7, <2>1, <3>2
  <2> QED BY <2>7 DEF u
<1>13. WrapToZone(x) % Scale = x % Scale
  BY <1>11, WrapKeepsResidue
<1>14. r % Scale = x % Scale
  <2> HIDE DEF x
  <2> QED BY <1>5, <1>10, <1>11, <1>12, ResidueOfSum
<1>15. r % Scale = r
  <2>1. (Scale * 0 + r) % Scale = r
    BY <1>5, <1>7, DivModUnique
  <2> QED BY <1>7, <1>5, <2>1
<1> QED BY <1>8, <1>13, <1>14, <1>15 DEF r

(* An operation that takes p to q on the grid is undone by one with the    *)
(* inverse rotation, with the same sign: the half-shift, the wrap into the zone and the      *)
(* reciprocal lattice vectors in between leave no trace.                   *)
LEMMA ImageUndone ==
  ASSUME GridInv, NEW op, IsMatrix(op.rotation), NEW inv, IsUnimodular(inv.rotation),
         inv.rotation = InverseRotation(op.rotation),
         NEW sign \in {1, -1}, NEW p \in Points, NEW q \in Points,
         Image(op, sign, p) = q
  PROVE  Image(inv, sign, q) = p
<1> DEFINE F == Fractional(p)
           G == Fractional(q)
           C == InverseTranspose(op.rotation)
           D == InverseTranspose(InverseRotation(op.rotation))
           u == Apply(C, F)
           f == [j \in Axes |-> sign * u[j]]
           h == [j \in Axes |-> sign * Apply(D, G)[j]]
<1>1. FracToGridIndex(f) = q /\ Image(inv, sign, q) = FracToGridIndex(h)
  BY DEF Image
<1>2. IsUnimodular(InverseRotation(op.rotation))
  OBVIOUS
<1>3. /\ IsMatrix(C) /\ IsMatrix(D) /\ IsVector(F) /\ IsVector(G) /\ IsVector(u)
      /\ Scale \in Nat \ {0}
  BY <1>2, GridFacts, InverseTransposeIsMatrix, FractionalIsVector, ApplyIsVector
     DEF IsUnimodular
<1>4. \A i \in Axes : Apply(D, u)[i] = F[i]
  BY <1>2, <1>3, InverseUndoes
<1> HIDE DEF C, D, F, G, u
<1>5. IsVector(f) /\ \A j \in Axes : f[j] = sign * u[j] /\ f[j] \in Int
  BY <1>3 DEF IsVector
<1> HIDE DEF f
<1>6. ASSUME NEW j \in Axes PROVE \E t \in Int : G[j] = f[j] + Scale * t
  <2>1. f[j] % Scale = G[j] % Scale
    BY <1>1, <1>5, CoordinateOfPoint DEF G
  <2> DEFINE x == G[j]
             y == f[j]
             n == Scale
  <2>2. x \in Int /\ y \in Int /\ n \in Nat \ {0} /\ x % n = y % n
    BY <1>3, <1>5, <2>1 DEF IsVector
  <2> HIDE DEF x, y, n
  <2>3. \E t \in Int : x = y + n * t
    BY <2>2, EqualResidues
  <2> QED BY <2>3 DEF x, y, n
<1>7. PICK t1 \in Int : G[1] = f[1] + Scale * t1
  BY <1>6 DEF Axes
<1>8. PICK t2 \in Int : G[2] = f[2] + Scale * t2
  BY <1>6 DEF Axes
<1>9. PICK t3 \in Int : G[3] = f[3] + Scale * t3
  BY <1>6 DEF Axes
<1>10. ASSUME NEW j \in Axes PROVE h[j] % Scale = F[j] % Scale
  <2> DEFINE a == D[j][1]
             b == D[j][2]
             c == D[j][3]
             x == u[1]
             y == u[2]
             z == u[3]
             n == Scale
             s == a * t1 + b * t2 + c * t3
             t == sign * s
  <2>1. /\ a \in Int /\ b \in Int /\ c \in Int
        /\ x \in Int /\ y \in Int /\ z \in Int /\ n \in Nat \ {0}
    BY <1>3 DEF IsMatrix, IsVector, Axes
  <2>2. /\ G[1] = sign * x + n * t1 /\ G[2] = sign * y + n * t2
        /\ G[3] = sign * z + n * t3
    BY <1>5, <1>7, <1>8, <1>9 DEF Axes
  <2>3. h[j] = sign * (a * G[1] + b * G[2] + c * G[3])
    BY DEF Apply
  <2>4. F[j] = a * x + b * y + c * z /\ F[j] \in Int
    BY <1>3, <1>4 DEF Apply, IsVector
  <2> HIDE DEF a, b, c, x, y, z, n, h
  <2>5. h[j] = (a * x + b * y + c * z) + n * t /\ t \in Int
    <3>1. CASE sign = 1
      <4>1. h[j] = a * (x + n * t1) + b * (y + n * t2) + c * (z + n * t3)
        BY <2>1, <2>2, <2>3, <3>1
      <4> QED BY <2>1, <3>1, <4>1
    <3>2. CASE sign = -1
      <4>1. h[j] = -(a * (n * t1 - x) + b * (n * t2 - y) + c * (n * t3 - z))
        BY <2>1, <2>2, <2>3, <3>2
      <4> QED BY <2>1, <3>2, <4>1
    <3> QED BY <3>1, <3>2
  <2> DEFINE w == F[j]
  <2>6. h[j] = w + n * t /\ w \in Int
    BY <2>4, <2>5
  <2> HIDE DEF t, w
  <2>7. (w + n * t) % n = w % n
    BY <2>1, <2>5, <2>6, ResidueOfSum
  <2> QED BY <2>6, <2>7 DEF w, n
<1> HIDE DEF h
<1>11. FracToGridIndex(h) = p
  BY <1>10, PointAtCoordinate DEF F
<1> QED BY <1>1, <1>11
-----------------------------------------------------------------------------
(* The set-up works with unimodular operations only; every image of a      *)
(* representative is visited; so no later one is an image of an earlier.   *)
Unimodular ==
  /\ \A op \in operations : IsUnimodular(op.rotation)
  /\ pc = "settings" => ibz = <<>>

Seen ==
  \A i \in 1 .. Len(ibz) : \A op \in operations, sign \in Signs :
    Image(op, sign, ibz[i].point) \in visited \cup {OffGrid}

Separate ==
  \A i, j \in 1 .. Len(ibz) : i < j =>
    \A op \in operations, sign \in Signs :
      Image(op, sign, ibz[i].point) # ibz[j].point

CInv == PInv /\ Unimodular /\ Seen /\ Separate

(* It holds of the empty list.                                             *)
LEMMA CInit == Init => CInv
<1> SUFFICES ASSUME Init PROVE CInv
  OBVIOUS
<1>1. ibz = <<>> /\ Len(ibz) = 0 /\ operations = {}
  BY DEF Init
<1> QED BY <1>1, PInit DEF CInv, Unimodular, Seen, Separate

(* The list is empty when the operations are set.                          *)
LEMMA SetUpSeparates ==
  ASSUME CInv, SetUpSymmetry
  PROVE  Unimodular' /\ Seen' /\ Separate'
<1>1. /\ ibz' = <<>> /\ Len(ibz') = 0
      /\ pc' # "settings"
      /\ \A op \in operations' : op \in FindSymmetryOperations(crystal) \/ op = IdentityOp
  BY DEF SetUpSymmetry, CInv, Unimodular
<1>2. \A op \in operations' : IsUnimodular(op.rotation)
  BY <1>1, DetectedAreUnimodular, IdentityIsUnimodular
<1> QED BY <1>1, <1>2 DEF Unimodular, Seen, Separate

(* Steps that change neither the list nor the visited points.              *)
LEMMA OthersSeparate ==
  ASSUME CInv, UNCHANGED <<grid, operations, has_time_reversal, visited, ibz>>,
         pc' = "settings" => pc = "settings"
  PROVE  Unimodular' /\ Seen' /\ Separate'
<1>1. Signs' = Signs
  BY DEF Signs
<1>2. \A op, sign, p : Image(op, sign, p)' = Image(op, sign, p)
  BY DEF Image, Fractional, GridIndex, WrapToZone, Scale, NTotal, FracToGridIndex, Flat,
         OffGrid
<1> QED BY <1>1, <1>2 DEF CInv, Unimodular, Seen, Separate, OffGrid

(* The orbit of a new representative is visited, and it was not.           *)
LEMMA AddSeparates ==
  ASSUME CInv, AddRepresentative
  PROVE  Unimodular' /\ Seen' /\ Separate'
<1> DEFINE entry == [point |-> idx, weight |-> OrbitCount(idx)]
<1>1. /\ pc = "reducing" /\ idx \in Points \ visited
      /\ visited' = visited \cup Orbit(idx)
      /\ ibz' = Append(ibz, entry)
      /\ UNCHANGED <<grid, pc, operations, has_time_reversal>>
  BY DEF AddRepresentative
<1>2. Signs' = Signs
  BY <1>1 DEF Signs
<1>3. \A op, sign, p : Image(op, sign, p)' = Image(op, sign, p)
  BY <1>1 DEF Image, Fractional, GridIndex, WrapToZone, Scale, NTotal, FracToGridIndex,
              Flat, OffGrid
<1>4. entry.point = idx
  OBVIOUS
<1> HIDE DEF entry
<1>5. /\ Len(ibz) \in Nat /\ Len(ibz') = Len(ibz) + 1
      /\ \A i \in 1 .. Len(ibz) : ibz'[i] = ibz[i]
      /\ ibz'[Len(ibz')] = entry
      /\ \A i \in 1 .. Len(ibz') : i \in 1 .. Len(ibz) \/ i = Len(ibz')
  BY <1>1 DEF CInv, PInv, Typed
<1>6. \A op \in operations, sign \in Signs :
        Image(op, sign, idx) \in visited \cup Orbit(idx) \cup {OffGrid}
  BY DEF Orbit
<1>7. Unimodular'
  BY <1>1 DEF CInv, Unimodular
<1>8. Seen'
  <2>1. ASSUME NEW i \in 1 .. Len(ibz'), NEW op \in operations, NEW sign \in Signs
        PROVE  Image(op, sign, ibz'[i].point) \in visited' \cup {OffGrid}
    <3>1. CASE i \in 1 .. Len(ibz)
      BY <1>1, <1>5, <3>1 DEF CInv, Seen
    <3>2. CASE i = Len(ibz')
      BY <1>1, <1>4, <1>5, <1>6, <3>2
    <3> QED BY <1>5, <3>1, <3>2
  <2> QED BY <1>1, <1>2, <1>3, <2>1 DEF Seen, OffGrid
<1>9. Separate'
  <2>1. ASSUME NEW i \in 1 .. Len(ibz'), NEW j \in 1 .. Len(ibz'), i < j,
               NEW op \in operations, NEW sign \in Signs
        PROVE  Image(op, sign, ibz'[i].point) # ibz'[j].point
    <3>1. i \in 1 .. Len(ibz)
      BY <1>5, <2>1
    <3>2. CASE j \in 1 .. Len(ibz)
      BY <1>5, <2>1, <3>1, <3>2 DEF CInv, Separate
    <3>3. CASE j = Len(ibz')
      <4>1. Image(op, sign, ibz[i].point) \in visited \cup {OffGrid}
        BY <3>1 DEF CInv, Seen
      <4>2. idx \notin visited /\ idx # OffGrid
        BY <1>1 DEF Points, OffGrid
      <4> QED BY <1>4, <1>5, <3>1, <3>3, <4>1, <4>2
    <3> QED BY <1>5, <3>2, <3>3
  <2> QED BY <1>1, <1>2, <1>3, <2>1 DEF Separate
<1> QED BY <1>7, <1>8, <1>9

(* Every step keeps it.                                                    *)
LEMMA CNext == CInv /\ [Next]_vars => CInv'
<1> SUFFICES ASSUME CInv, [Next]_vars PROVE CInv'
  OBVIOUS
<1>1. PInv'
  BY PNext DEF CInv
<1>2. CASE SetUpSymmetry
  BY <1>1, <1>2, SetUpSeparates DEF CInv
<1>3. CASE AddRepresentative
  BY <1>1, <1>3, AddSeparates DEF CInv
<1>4. CASE SkipVisited \/ Finish \/ UNCHANGED vars
  <2>1. /\ UNCHANGED <<grid, operations, has_time_reversal, visited, ibz>>
        /\ pc' = "settings" => pc = "settings"
    BY <1>4 DEF SkipVisited, Finish, vars
  <2> QED BY <1>1, <2>1, OthersSeparate DEF CInv
<1> QED BY <1>2, <1>3, <1>4 DEF Next

(* For every operation there is one with the inverse rotation, whatever    *)
(* its translation: less than verify_group_closure asserts.                *)
InverseRotationsPresent ==
  \A op \in operations : \E inv \in operations :
    inv.rotation = InverseRotation(op.rotation)

(* The reduction is complete: the representatives are pairwise             *)
(* inequivalent under the operations and time reversal, on every mesh and  *)
(* half-shift, whenever the inverse rotations are present.  The loop looks *)
(* only ahead: that no EARLIER representative is an image of a later one   *)
(* is where they are needed.                                               *)
THEOREM RepresentativesInequivalent ==
  Spec => [](InverseRotationsPresent => RepresentativesAreInequivalent)
<1>1. CInv => (InverseRotationsPresent => RepresentativesAreInequivalent)
  <2> SUFFICES ASSUME CInv, InverseRotationsPresent PROVE RepresentativesAreInequivalent
    OBVIOUS
  <2>1. DOMAIN ibz = 1 .. Len(ibz) /\ Len(ibz) \in Nat
    BY DEF CInv, PInv, Typed
  <2>2. ASSUME NEW i \in 1 .. Len(ibz), NEW j \in 1 .. Len(ibz), i # j,
               NEW op \in operations, NEW sign \in Signs,
               Image(op, sign, ibz[i].point) = ibz[j].point
        PROVE  FALSE
    <3>1. CASE i < j
      BY <2>2, <3>1 DEF CInv, Separate
    <3>2. CASE j < i
      <4>1. /\ ibz[i].point \in Points /\ ibz[j].point \in Points
            /\ GridInv /\ sign \in {1, -1}
        BY EntriesArePoints DEF CInv, PInv, Typed, Signs
      <4>2. PICK inv \in operations : inv.rotation = InverseRotation(op.rotation)
        BY DEF InverseRotationsPresent
      <4>3. IsMatrix(op.rotation) /\ IsUnimodular(inv.rotation)
        BY DEF CInv, Unimodular, IsUnimodular
      <4>4. Image(inv, sign, ibz[j].point) = ibz[i].point
        BY <2>2, <4>1, <4>2, <4>3, ImageUndone
      <4> QED BY <3>2, <4>4 DEF CInv, Separate
    <3> QED BY <2>2, <3>1, <3>2
  <2> QED BY <2>1, <2>2 DEF RepresentativesAreInequivalent
<1> QED BY <1>1, CInit, CNext, PTL DEF Spec
-----------------------------------------------------------------------------
(* The identity is always detected: the reduction never panics.            *)

(* Before the loop and in it, the run's input is one of its inputs, and    *)
(* its list of k-points has entries that an orbit of its own stands for.   *)
KInv ==
  /\ PInv
  /\ crystal \in Crystals
  /\ pc # "panicked"

(* It holds at the start.                                                  *)
LEMMA KInit == Init => KInv
BY PInit DEF Init, KInv

(* Every step keeps it: the set-up finds the identity.                     *)
LEMMA KNext == KInv /\ [Next]_vars => KInv'
<1> SUFFICES ASSUME KInv, [Next]_vars PROVE KInv'
  OBVIOUS
<1>1. PInv'
  BY PNext DEF KInv
<1>2. crystal' = crystal
  BY DEF Next, SetUpSymmetry, SkipVisited, AddRepresentative, Finish, vars
<1>3. CASE SetUpSymmetry
  <2>1. IdentityOp \in FindSymmetryOperations(crystal)
    BY CrystalAssumption, IdentityIsDetected DEF KInv, IsMetric, Atom
  <2> QED BY <1>1, <1>2, <1>3, <2>1 DEF KInv, SetUpSymmetry
<1>4. CASE SkipVisited \/ AddRepresentative \/ Finish \/ UNCHANGED vars
  BY <1>1, <1>2, <1>4 DEF KInv, SkipVisited, AddRepresentative, Finish, vars
<1> QED BY <1>3, <1>4 DEF Next

(* For every crystal and every mesh the reduction stays on the mesh, never *)
(* panics for want of the identity, and gives every representative the     *)
(* weight of at least one and at most all points.                          *)
THEOREM KPointTypes == Spec => []KPointTypeOK
<1>1. KInv => KPointTypeOK
  <2> SUFFICES ASSUME KInv PROVE KPointTypeOK
    OBVIOUS
  <2>1. NTotal \in Nat \ {0} /\ grid \in Grids
    BY GridFacts DEF KInv, PInv, Typed, GridInv
  <2>2. IsFiniteSet(Points) /\ Cardinality(Points) = NTotal
    BY PointsAreFinite DEF KInv, PInv, Typed
  <2>3. ASSUME NEW i \in DOMAIN ibz
        PROVE  ibz[i].point \in Points /\ ibz[i].weight \in 1 .. NTotal
    <3> DEFINE rep == ibz[i].point
               C == Class(rep)
    <3>1. i \in 1 .. Len(ibz)
      BY DEF KInv, PInv, Typed
    <3>2. rep \in Points /\ owner[rep] = rep /\ ibz[i].weight = Cardinality(C)
      BY <3>1, EntriesArePoints DEF KInv, PInv, Classes
    <3>3. C \subseteq Points /\ rep \in C
      BY <3>2 DEF Class
    <3> HIDE DEF C, rep
    <3>4. IsFiniteSet(C) /\ Cardinality(C) <= NTotal
      BY <2>2, <3>3, FS_Subset
    <3>5. Cardinality(C) \in Nat /\ Cardinality(C) # 0
      BY <3>3, <3>4, FS_CardinalityType, FS_EmptySet
    <3> QED BY <2>1, <3>2, <3>4, <3>5 DEF rep
  <2> QED BY <2>1, <2>3 DEF KInv, PInv, Typed, KPointTypeOK
<1> QED BY <1>1, KInit, KNext, PTL DEF Spec
-----------------------------------------------------------------------------
(* The operations of a run.                                                *)

(* From the set-up on, the operations are those found in the crystal, or   *)
(* the identity alone.                                                     *)
Detected ==
  /\ pc = "settings" \/ IdentityOp \in operations
  /\ operations = {} \/ operations = {IdentityOp} \/ operations = FindSymmetryOperations(crystal)

GInv == KInv /\ Detected

(* It holds at the start.                                                  *)
LEMMA GInit == Init => GInv
BY KInit DEF Init, GInv, Detected

(* And in every step.                                                      *)
LEMMA GNext == GInv /\ [Next]_vars => GInv'
<1> SUFFICES ASSUME GInv, [Next]_vars PROVE GInv'
  OBVIOUS
<1>1. KInv'
  BY KNext DEF GInv
<1>2. CASE SetUpSymmetry
  <2>1. /\ crystal' = crystal
        /\ operations' = {IdentityOp} \/ operations' = FindSymmetryOperations(crystal)
    BY <1>2 DEF SetUpSymmetry
  <2>2. IdentityOp \in operations'
    BY <1>1, <1>2 DEF SetUpSymmetry, KInv
  <2> QED BY <1>1, <2>1, <2>2 DEF GInv, Detected
<1>3. CASE SkipVisited \/ AddRepresentative \/ Finish \/ UNCHANGED vars
  <2>1. UNCHANGED <<crystal, operations>> /\ (pc = "settings" => pc' = "settings")
    BY <1>3 DEF SkipVisited, AddRepresentative, Finish, vars
  <2> QED BY <1>1, <2>1 DEF GInv, Detected
<1> QED BY <1>2, <1>3 DEF Next

(* The run's crystal is one CrystalAssumption speaks of.                   *)
LEMMA CrystalIsOne == GInv => IsCrystal(crystal)
BY CrystalAssumption DEF GInv, KInv, IsCrystal, IsMetric, Atom

(* verify_group_closure's assertion, for every crystal whose cell is       *)
(* primitive and covered by the search radius, empty or not: the inverse   *)
(* of each operation and the composition of any two are found, translation *)
(* and all.  MCKPointReduction has a cell for each premise that fails      *)
(* without it.                                                             *)
THEOREM DetectedOperationsFormGroup ==
  Spec => [](RadiusCovers(crystal.metric) /\ IsPrimitive(crystal.atoms) => OperationsFormGroup)
<1>1. GInv => (RadiusCovers(crystal.metric) /\ IsPrimitive(crystal.atoms) => OperationsFormGroup)
  <2> SUFFICES ASSUME GInv, RadiusCovers(crystal.metric), IsPrimitive(crystal.atoms),
                      NEW a \in operations
               PROVE  /\ InverseOp(a) \in operations
                      /\ \A b \in operations : Compose(a, b) \in operations
    BY DEF OperationsFormGroup
  <2>1. CASE operations = {IdentityOp}
    BY <2>1, IdentityAlone
  <2>2. CASE operations = FindSymmetryOperations(crystal)
    BY <2>2, CrystalIsOne, InverseIsFound, CompositionIsFound
  <2> QED BY <2>1, <2>2 DEF GInv, Detected
<1> QED BY <1>1, GInit, GNext, PTL DEF Spec

(* For the reduction the rotations are what matters: where the radius      *)
(* covers the cell, primitive or not, no two representatives are related   *)
(* by an operation or time reversal.                                       *)
THEOREM CoveredCellsReduceCompletely ==
  Spec => [](RadiusCovers(crystal.metric) => RepresentativesAreInequivalent)
<1>1. GInv => (RadiusCovers(crystal.metric) => InverseRotationsPresent)
  <2> SUFFICES ASSUME GInv, RadiusCovers(crystal.metric), NEW op \in operations
               PROVE  \E inv \in operations : inv.rotation = InverseRotation(op.rotation)
    BY DEF InverseRotationsPresent
  <2>1. CASE operations = {IdentityOp}
    BY <2>1, IdentityAlone, IdentityIsMatrix
  <2>2. CASE operations = FindSymmetryOperations(crystal)
    BY <2>2, CrystalIsOne, InverseRotationIsFound
  <2> QED BY <2>1, <2>2 DEF GInv, Detected
<1>2. Spec => []GInv
  BY GInit, GNext, PTL DEF Spec
<1> QED BY <1>1, <1>2, RepresentativesInequivalent, PTL
-----------------------------------------------------------------------------
(* The operations act on the mesh as the group of their rotations.         *)

(* Where a rotation takes a grid point.                                    *)
Turned(r, sign, p) ==
  FracToGridIndex([j \in Axes |-> sign * Apply(InverseTranspose(r), Fractional(p))[j]])

(* The reducer looks at nothing else of an operation.                      *)
LEMMA ImageIsTurned ==
  ASSUME NEW op, NEW sign, NEW p
  PROVE  Image(op, sign, p) = Turned(op.rotation, sign, p)
BY DEF Image, Turned

(* Vectors a reciprocal lattice vector apart are at the same grid point.   *)
LEMMA SamePoint ==
  ASSUME NEW f, NEW g, Congruent(Scale, f, g)
  PROVE  FracToGridIndex(f) = FracToGridIndex(g)
BY DEF Congruent, FracToGridIndex

(* Two turns are one, signs and all, as long as the first stays on the     *)
(* grid.                                                                   *)
LEMMA TurnedTwice ==
  ASSUME GridInv, NEW a \in Matrix, IsUnimodular(a), NEW b \in Matrix, IsUnimodular(b),
         NEW s \in {1, -1}, NEW t \in {1, -1}, NEW p \in Points, Turned(b, t, p) \in Points
  PROVE  Turned(a, s, Turned(b, t, p)) = Turned(Product(a, b), s * t, p)
<1> DEFINE q == Turned(b, t, p)
           A == InverseTranspose(a)
           B == InverseTranspose(b)
           F == Fractional(p)
           G == Fractional(q)
           u == Apply(B, F)
           f == [j \in Axes |-> t * u[j]]
           h == [j \in Axes |-> s * Apply(A, G)[j]]
           k == [j \in Axes |-> (s * t) * Apply(Product(A, B), F)[j]]
<1>1. /\ IsMatrix(A) /\ IsMatrix(B) /\ IsVector(F) /\ IsVector(G) /\ IsVector(u)
      /\ Scale \in Nat \ {0} /\ s \in Int /\ t \in Int
  BY GridFacts, FractionalIsVector, InverseTransposeIsMatrix, ApplyIsVector DEF IsUnimodular
<1>2. FracToGridIndex(f) = q /\ Turned(a, s, q) = FracToGridIndex(h)
  BY DEF Turned
<1>3. Turned(Product(a, b), s * t, p) = FracToGridIndex(k)
  BY InverseTransposeOfProduct DEF Turned
<1>4. \A j \in Axes : Apply(Product(A, B), F)[j] = Apply(A, u)[j]
  <2> HIDE DEF A, B, F
  <2> QED BY <1>1, ProductActs
<1> HIDE DEF A, B, F, G, u
<1>5. IsVector(f)
  BY <1>1 DEF IsVector
<1>6. \A j \in Axes : Apply(A, f)[j] = t * Apply(A, u)[j] /\ Apply(A, u)[j] \in Int
  BY <1>1, ApplySigned
<1>7. Congruent(Scale, f, G)
  <2> HIDE DEF f, q
  <2>1. q \in Points
    BY DEF q
  <2> QED BY <1>2, <1>5, <2>1, CoordinateOfPoint DEF Congruent, G
<1> HIDE DEF f, q
<1>8. Congruent(Scale, Apply(A, f), Apply(A, G)) /\ IsVector(Apply(A, f)) /\ IsVector(Apply(A, G))
  BY <1>1, <1>5, <1>7, CongruentRotate, ApplyIsVector
<1>9. ASSUME NEW j \in Axes PROVE k[j] % Scale = h[j] % Scale
  <2> DEFINE x == Apply(A, f)[j]
             y == Apply(A, G)[j]
             z == Apply(A, u)[j]
  <2>1. /\ x \in Int /\ y \in Int /\ z \in Int /\ x = t * z /\ SameResidue(Scale, x, y)
        /\ h[j] = s * y /\ k[j] = (s * t) * z
    BY <1>4, <1>6, <1>8 DEF IsVector, Congruent, SameResidue
  <2> HIDE DEF x, y, z, h, k
  <2>2. SameResidue(Scale, s * x, s * y)
    BY <1>1, <2>1, ResiduesScale
  <2>3. s * x = (s * t) * z
    BY <1>1, <2>1
  <2> QED BY <2>1, <2>2, <2>3 DEF SameResidue
<1>10. FracToGridIndex(k) = FracToGridIndex(h)
  BY <1>9, SamePoint DEF Congruent
<1> QED BY <1>2, <1>3, <1>10 DEF q

(* No turn.                                                                *)
LEMMA TurnedByIdentity ==
  ASSUME GridInv, NEW p \in Points
  PROVE  Turned(Identity, 1, p) = p
BY IdentityImage, ImageIsTurned, IdentityIsMatrix

(* Minus a grid point is a grid point on every mesh, half-shifted or not.  *)
LEMMA ReversedOnGrid ==
  ASSUME GridInv, NEW p \in Points
  PROVE  Reversed(p) \in Points /\ Reversed(p) = Turned(Identity, -1, p)
<1> DEFINE F == Fractional(p)
           f == Negated(F)
           e == [j \in Axes |-> (-1) * Apply(InverseTranspose(Identity), F)[j]]
<1>1. IsVector(F) /\ IsVector(f)
  BY FractionalIsVector DEF IsVector, Negated
<1>2. \A j \in Axes : e[j] = f[j]
  <2>1. ASSUME NEW j \in Axes PROVE e[j] = f[j]
    <3> DEFINE x == F[j]
    <3>1. x \in Int /\ e[j] = (-1) * x /\ f[j] = -x
      BY <1>1, IdentityActs DEF IsVector, Negated
    <3> HIDE DEF x, e, f
    <3> QED BY <3>1
  <2> QED BY <2>1
<1>3. Reversed(p) = FracToGridIndex(f) /\ Turned(Identity, -1, p) = FracToGridIndex(e)
  BY DEF Reversed, Turned
<1>4. FracToGridIndex(e) = FracToGridIndex(f)
  BY <1>2, SamePoint DEF Congruent
<1>5. ASSUME NEW j \in Axes PROVE OnMesh(f, j)
  <2> DEFINE n == grid.n[j]
             i == GridIndex(p)[j]
             k == grid.flags[j]
             m == Scale \div (2 * n)
             x == (2 * i + k) * m
             y == F[j]
             r == f[j] % Scale
  <2>1. n \in Nat \ {0} /\ k \in Nat /\ Scale \in Nat \ {0} /\ m \in Nat /\ Scale = 2 * n * m
    BY GridFacts, ScaleIsMultiple
  <2>2. i \in Int
    BY GridIndexFacts
  <2>3. x \in Int /\ y = WrapToZone(x) /\ f[j] = -y
    BY <2>1, <2>2 DEF Fractional, Negated
  <2> HIDE DEF n, i, k, m, x, y, f
  <2>4. y \in Int /\ y % Scale = x % Scale
    BY <2>3, WrapKeepsResidue
  <2>5. PICK t \in Int : y = x + Scale * t
    BY <2>1, <2>3, <2>4, EqualResidues
  <2> DEFINE g == f[j]
             w == g \div Scale
  <2>a. g \in Int
    BY <2>3, <2>4
  <2>6. w \in Int /\ r \in Int /\ f[j] = Scale * w + r
    <3>1. g = f[j] /\ r = g % Scale
      OBVIOUS
    <3> HIDE DEF g, r
    <3> QED BY <2>1, <2>a, <3>1, DivMod
  <2> HIDE DEF w, r
  <2> DEFINE z == (-1 * (i + k)) - n * (t + w)
             twice == 2 * r * n - k * Scale
  <2>7. twice = (2 * Scale) * z + 0
    <3> DEFINE a == n * t
               b == n * w
    <3>1. a \in Int /\ b \in Int /\ r = -x - Scale * t - Scale * w
      BY <2>1, <2>3, <2>5, <2>6
    <3>2. (2 * n) * x = (2 * i + k) * Scale
      BY <2>1, <2>2 DEF x
    <3>3. 2 * r * n = -((2 * n) * x) - (2 * Scale) * a - (2 * Scale) * b
      BY <2>1, <2>3, <2>5, <2>6, <3>1
    <3>4. z = (-1 * (i + k)) - (a + b)
      BY <2>1, <2>2, <2>5, <2>6
    <3> HIDE DEF a, b, z
    <3> QED BY <2>1, <2>2, <3>1, <3>2, <3>3, <3>4
  <2>8. z \in Int /\ 2 * Scale \in Nat \ {0}
    BY <2>1, <2>2, <2>5, <2>6
  <2> DEFINE step == 2 * Scale
  <2> HIDE DEF z, twice
  <2>9. step \in Nat \ {0} /\ twice = step * z + 0
    BY <2>7, <2>8
  <2> HIDE DEF step
  <2>10. twice % step = 0
    BY <2>8, <2>9, DivModUnique
  <2> QED BY <2>10 DEF OnMesh, twice, step, r, n, k
<1>6. FracToGridIndex(f) \in Points
  BY <1>1, <1>5, GridIndexInRange
<1> QED BY <1>3, <1>4, <1>6

(* The symmetrizer turns by the inverse: the transpose it applies is the   *)
(* inverse transpose of the inverse rotation.                              *)
LEMMA SourceIsTurned ==
  ASSUME GridInv, NEW op, op.rotation \in Matrix, IsUnimodular(op.rotation), NEW p \in Points
  PROVE  Source(op, p) = Turned(InverseRotation(op.rotation), 1, p)
<1> DEFINE r == op.rotation
           T == Transpose(r)
           F == Fractional(p)
           f == Apply(T, F)
           g == [j \in Axes |-> 1 * f[j]]
<1>1. InverseRotation(InverseRotation(r)) = r
  BY InverseOnLeft
<1>2. Turned(InverseRotation(r), 1, p) = FracToGridIndex(g)
  BY <1>1 DEF Turned, InverseTranspose
<1>3. Source(op, p) = FracToGridIndex(f)
  BY DEF Source
<1>4. IsVector(f)
  <2>1. IsMatrix(T) /\ IsVector(F)
    BY DetOfTranspose, FractionalIsVector DEF IsUnimodular
  <2> HIDE DEF T, F
  <2> QED BY <2>1, ApplyIsVector
<1> HIDE DEF f
<1>5. \A j \in Axes : g[j] = f[j]
  BY <1>4 DEF IsVector
<1> QED BY <1>2, <1>3, <1>5, SamePoint DEF Congruent
(* The rotations of the operations are a group, and an operation is known  *)
(* by its rotation: its translation does not matter to k-points.           *)
RotationsFormGroup ==
  /\ \A a \in operations : a.rotation \in Matrix /\ IsUnimodular(a.rotation)
  /\ InverseRotationsPresent
  /\ \A a, b \in operations :
       \E c \in operations : c.rotation = Product(a.rotation, b.rotation)
  /\ \A a, b \in operations : a.rotation = b.rotation => a = b

(* So the rotations of a covered cell are a group.                         *)
LEMMA DetectedRotationsFormGroup ==
  GInv /\ RadiusCovers(crystal.metric) => RotationsFormGroup
<1> SUFFICES ASSUME GInv, RadiusCovers(crystal.metric) PROVE RotationsFormGroup
  OBVIOUS
<1>1. CASE operations = {}
  BY <1>1 DEF RotationsFormGroup, InverseRotationsPresent
<1>2. CASE operations = {IdentityOp}
  <2>1. IdentityOp.rotation = Identity /\ IsUnimodular(Identity) /\ Identity \in Matrix
    BY IdentityIsMatrix, IdentityIsUnimodular DEF Matrix, Identity, Axes
  <2>2. Product(Identity, Identity) = Identity
    BY <2>1, IdentityIsNeutral
  <2> QED BY <1>2, <2>1, <2>2, IdentityAlone DEF RotationsFormGroup, InverseRotationsPresent
<1>3. CASE operations = FindSymmetryOperations(crystal)
  <2>1. IsCrystal(crystal)
    BY CrystalIsOne
  <2>2. \A a, b \in operations : a.rotation = b.rotation => a = b
    <3>1. \A a \in operations :
            a = Operation(a.rotation, Translation(crystal.atoms, a.rotation))
      BY <1>3 DEF FindSymmetryOperations, Operation
    <3> QED BY <3>1
  <2>3. \A a \in operations : a.rotation \in Matrix /\ IsUnimodular(a.rotation)
    BY <1>3, <2>1, FoundOperation
  <2>4. InverseRotationsPresent
    BY <1>3, <2>1, InverseRotationIsFound DEF InverseRotationsPresent
  <2>5. \A a, b \in operations :
          \E c \in operations : c.rotation = Product(a.rotation, b.rotation)
    BY <1>3, <2>1, ProductRotationIsFound
  <2> QED BY <2>2, <2>3, <2>4, <2>5 DEF RotationsFormGroup
<1> QED BY <1>1, <1>2, <1>3 DEF GInv, Detected

(* The star of a grid point: where the operations and time reversal take   *)
(* it on the grid.                                                         *)
Related(p, q) ==
  \E op \in operations, sign \in Signs : Turned(op.rotation, sign, p) = q

GroupOnGrid == GridInv /\ RotationsFormGroup /\ IdentityOp \in operations

(* Signs compose.                                                          *)
LEMMA SignsCompose ==
  /\ Signs \subseteq {1, -1} /\ 1 \in Signs
  /\ \A s, t \in Signs : s * t \in Signs
<1>1. \A s, t \in {1, -1} : s * t \in {1, -1}
  OBVIOUS
<1>2. 1 * 1 = 1
  OBVIOUS
<1> QED BY <1>1, <1>2 DEF Signs

(* Every point is in its star.                                             *)
LEMMA StarIsReflexive ==
  ASSUME GroupOnGrid, NEW p \in Points
  PROVE  Related(p, p)
<1>1. IdentityOp.rotation = Identity
  BY IdentityIsMatrix
<1> QED BY <1>1, TurnedByIdentity, SignsCompose DEF GroupOnGrid, Related

(* Stars are symmetric.                                                    *)
LEMMA StarIsSymmetric ==
  ASSUME GroupOnGrid, NEW p \in Points, NEW q \in Points, Related(p, q)
  PROVE  Related(q, p)
<1>1. PICK op \in operations, sign \in Signs : Turned(op.rotation, sign, p) = q
  BY DEF Related
<1>2. PICK inv \in operations : inv.rotation = InverseRotation(op.rotation)
  BY DEF GroupOnGrid, RotationsFormGroup, InverseRotationsPresent
<1>3. IsMatrix(op.rotation) /\ IsUnimodular(inv.rotation)
  BY DEF GroupOnGrid, RotationsFormGroup, IsUnimodular
<1>4. sign \in {1, -1}
  BY SignsCompose
<1>5. Image(inv, sign, q) = p
  BY <1>1, <1>2, <1>3, <1>4, ImageIsTurned, ImageUndone DEF GroupOnGrid
<1> QED BY <1>5, ImageIsTurned DEF Related

(* And transitive.                                                         *)
LEMMA StarIsTransitive ==
  ASSUME GroupOnGrid, NEW p \in Points, NEW q \in Points, NEW r,
         Related(p, q), Related(q, r)
  PROVE  Related(p, r)
<1>1. PICK b \in operations, t \in Signs : Turned(b.rotation, t, p) = q
  BY DEF Related
<1>2. PICK a \in operations, s \in Signs : Turned(a.rotation, s, q) = r
  BY DEF Related
<1>3. PICK c \in operations : c.rotation = Product(a.rotation, b.rotation)
  BY DEF GroupOnGrid, RotationsFormGroup
<1>4. /\ a.rotation \in Matrix /\ IsUnimodular(a.rotation)
      /\ b.rotation \in Matrix /\ IsUnimodular(b.rotation)
  BY DEF GroupOnGrid, RotationsFormGroup
<1>5. s \in {1, -1} /\ t \in {1, -1} /\ s * t \in Signs
  BY SignsCompose
<1>6. Turned(c.rotation, s * t, p) = r
  BY <1>1, <1>2, <1>3, <1>4, <1>5, TurnedTwice DEF GroupOnGrid
<1> QED BY <1>5, <1>6 DEF Related

(* The classes of the reduction are the stars.                             *)
Stars ==
  RotationsFormGroup =>
    \A p \in visited, q \in Points : Related(p, q) <=> owner[q] = owner[p]

SInv == GInv /\ CInv /\ Stars

(* In the loop the operations act as a group.                              *)
LEMMA GroupInLoop ==
  ASSUME GInv, pc # "settings", RotationsFormGroup
  PROVE  GroupOnGrid
BY DEF GInv, KInv, PInv, Typed, Detected, GroupOnGrid

(* Nothing is visited at the start.                                        *)
LEMMA SInit == Init => SInv
BY GInit, CInit DEF Init, SInv, Stars

(* The set-up finds nothing visited.                                       *)
LEMMA SetUpStars ==
  ASSUME SInv, SetUpSymmetry
  PROVE  Stars'
<1>1. visited' = visited /\ ibz = <<>> /\ Len(ibz) = 0
  BY DEF SetUpSymmetry, SInv, CInv, Unimodular
<1>2. visited = {}
  BY <1>1 DEF SInv, CInv, PInv, Listed, Behind
<1> QED BY <1>1, <1>2 DEF Stars

(* Turns depend on the grid alone, relations on the operations, too.       *)
LEMMA RelatedAsBefore ==
  ASSUME UNCHANGED <<grid, operations, has_time_reversal>>
  PROVE  \A p, q : Related(p, q)' <=> Related(p, q)
<1>1. Signs' = Signs
  BY DEF Signs
<1>2. \A r, s, p : Turned(r, s, p)' = Turned(r, s, p)
  BY DEF Turned, Fractional, GridIndex, WrapToZone, Scale, NTotal, FracToGridIndex, Flat,
         OffGrid
<1> QED BY <1>1, <1>2 DEF Related

(* Steps that visit nothing.                                               *)
LEMMA OthersStars ==
  ASSUME SInv, UNCHANGED <<grid, operations, has_time_reversal, visited, owner>>
  PROVE  Stars'
<1>1. \A p, q : Related(p, q)' <=> Related(p, q)
  BY RelatedAsBefore
<1>2. Points' = Points
  BY DEF Points, NTotal
<1>3. RotationsFormGroup' => RotationsFormGroup
  BY DEF RotationsFormGroup, InverseRotationsPresent
<1> QED BY <1>1, <1>2, <1>3 DEF SInv, Stars

(* The orbit of a new representative is its star.                          *)
LEMMA OrbitIsStar ==
  ASSUME SInv, pc = "reducing", RotationsFormGroup, NEW p \in Points \ visited, NEW q \in Points
  PROVE  q \in Orbit(p) <=> Related(p, q)
<1>1. GroupOnGrid
  BY GroupInLoop DEF SInv
<1>2. q \in Orbit(p) <=> Related(p, q) /\ q \notin visited
  BY ImageIsTurned DEF Orbit, Related, Points, OffGrid
<1>3. ASSUME Related(p, q) PROVE q \notin visited
  <2>1. Related(q, p)
    BY <1>1, <1>3, StarIsSymmetric
  <2>2. owner[p] = OffGrid
    BY DEF SInv, GInv, KInv, PInv, Behind
  <2>3. q \in visited => owner[q] # OffGrid /\ owner[p] = owner[q]
    BY <2>1 DEF SInv, GInv, KInv, PInv, Behind, Stars
  <2> QED BY <2>2, <2>3
<1> QED BY <1>2, <1>3

(* A new class is a star, and stars are disjoint.                          *)
LEMMA AddStars ==
  ASSUME SInv, AddRepresentative
  PROVE  Stars'
<1> DEFINE orbit == Orbit(idx)
<1>1. /\ pc = "reducing" /\ idx \in Points \ visited
      /\ visited' = visited \cup orbit
      /\ owner' = [p \in Points |-> IF p \in orbit THEN idx ELSE owner[p]]
      /\ UNCHANGED <<grid, operations, has_time_reversal>>
  BY DEF AddRepresentative
<1>2. \A p, q : Related(p, q)' <=> Related(p, q)
  BY <1>1, RelatedAsBefore
<1>3. Points' = Points
  BY <1>1 DEF Points, NTotal
<1>4. RotationsFormGroup' => RotationsFormGroup
  BY <1>1 DEF RotationsFormGroup, InverseRotationsPresent
<1>5. ASSUME RotationsFormGroup, NEW p \in visited', NEW q \in Points
      PROVE  Related(p, q) <=> owner'[q] = owner'[p]
  <2>1. GroupOnGrid /\ \A x \in Points : x \in orbit <=> Related(idx, x)
    BY <1>1, <1>5, GroupInLoop, OrbitIsStar DEF SInv
  <2>2. orbit \subseteq Points \ visited /\ visited \subseteq Points
    BY <1>1, OrbitFacts DEF SInv, GInv, KInv, PInv, Typed
  <2>3. \A x \in Points : owner[x] # idx
    BY <1>1, GridFacts DEF SInv, GInv, KInv, PInv, Typed, Behind, Points, OffGrid
  <2>4. \A x \in Points : owner'[x] = IF x \in orbit THEN idx ELSE owner[x]
    BY <1>1
  <2> HIDE DEF orbit
  <2>5. CASE p \in visited
    <3>1. p \in Points /\ owner'[p] = owner[p] /\ owner[p] # idx
      BY <2>2, <2>3, <2>4, <2>5
    <3>2. Related(p, q) <=> owner[q] = owner[p]
      BY <1>5, <2>5 DEF SInv, Stars
    <3>3. CASE q \in orbit
      <4>1. owner[q] = OffGrid /\ owner[p] # OffGrid
        BY <2>2, <2>5, <3>3 DEF SInv, GInv, KInv, PInv, Behind
      <4> QED BY <2>4, <3>1, <3>2, <3>3, <4>1
    <3>4. CASE q \notin orbit
      BY <2>4, <3>1, <3>2, <3>4
    <3> QED BY <3>3, <3>4
  <2>6. CASE p \in orbit
    <3>1. p \in Points /\ Related(idx, p) /\ owner'[p] = idx /\ idx \in Points
      BY <1>1, <2>1, <2>2, <2>4, <2>6
    <3>2. Related(p, idx)
      BY <2>1, <3>1, StarIsSymmetric
    <3>3. Related(p, q) <=> Related(idx, q)
      BY <2>1, <3>1, <3>2, StarIsTransitive
    <3>4. owner'[q] = idx <=> q \in orbit
      BY <2>3, <2>4
    <3> QED BY <2>1, <3>1, <3>3, <3>4
  <2> QED BY <1>1, <2>5, <2>6
<1> QED BY <1>1, <1>2, <1>3, <1>4, <1>5 DEF Stars

(* Every step keeps it.                                                    *)
LEMMA SNext == SInv /\ [Next]_vars => SInv'
<1> SUFFICES ASSUME SInv, [Next]_vars PROVE SInv'
  OBVIOUS
<1>1. GInv' /\ CInv'
  BY GNext, CNext DEF SInv
<1>2. CASE SetUpSymmetry
  BY <1>1, <1>2, SetUpStars DEF SInv
<1>3. CASE AddRepresentative
  BY <1>1, <1>3, AddStars DEF SInv
<1>4. CASE SkipVisited \/ Finish \/ UNCHANGED vars
  <2>1. UNCHANGED <<grid, operations, has_time_reversal, visited, owner>>
    BY <1>4 DEF SkipVisited, Finish, vars
  <2> QED BY <1>1, <2>1, OthersStars DEF SInv
<1> QED BY <1>2, <1>3, <1>4 DEF Next

(* The operations in use are finitely many.                                *)
LEMMA OperationsAreFinite ==
  ASSUME GInv
  PROVE  IsFiniteSet(operations)
<1>1. IsFiniteSet(FindSymmetryOperations(crystal))
  BY CrystalIsOne, FoundAreFinite
<1>2. IsFiniteSet({IdentityOp})
  BY FS_Singleton
<1> QED BY <1>1, <1>2, FS_EmptySet DEF GInv, Detected
-----------------------------------------------------------------------------
(* What the reduction leaves out the symmetrizer puts back.                *)

(* Reversing twice is not reversing.                                       *)
LEMMA ReversedTwice ==
  ASSUME GridInv, NEW p \in Points
  PROVE  Reversed(Reversed(p)) = p
<1> DEFINE s == -1
           q == Reversed(p)
<1>1. /\ Identity \in Matrix /\ IsUnimodular(Identity) /\ Product(Identity, Identity) = Identity
      /\ s \in {1, -1} /\ s * s = 1
  BY IdentityIsMatrix, IdentityIsUnimodular, IdentityIsNeutral DEF Matrix, Identity, Axes
<1>2. q \in Points /\ q = Turned(Identity, s, p) /\ Reversed(q) = Turned(Identity, s, q)
  BY ReversedOnGrid
<1> HIDE DEF q, s
<1>3. Turned(Identity, s, q) = Turned(Identity, 1, p)
  BY <1>1, <1>2, TurnedTwice
<1> QED BY <1>2, <1>3, TurnedByIdentity DEF q

(* The pair of a point: grid points related to it.                         *)
LEMMA PairFacts ==
  ASSUME GroupOnGrid, NEW p \in Points
  PROVE  /\ Pair(p) \subseteq Points /\ IsFiniteSet(Pair(p))
         /\ \A x \in Pair(p) : /\ Related(p, x)
                               /\ has_time_reversal => Reversed(x) \in Pair(p)
<1>1. Reversed(p) \in Points /\ Reversed(Reversed(p)) = p
      /\ Reversed(p) = Turned(Identity, -1, p)
  BY ReversedOnGrid, ReversedTwice DEF GroupOnGrid
<1>2. Related(p, p)
  BY StarIsReflexive
<1>3. has_time_reversal => Related(p, Reversed(p))
  <2>1. has_time_reversal => -1 \in Signs
    BY DEF Signs
  <2>2. IdentityOp \in operations /\ IdentityOp.rotation = Identity
    BY IdentityIsMatrix DEF GroupOnGrid
  <2> QED BY <1>1, <2>1, <2>2 DEF Related
<1>4. Pair(p) \subseteq Points
  BY <1>1 DEF Pair
<1>5. IsFiniteSet(Points)
  BY PointsAreFinite DEF GroupOnGrid
<1> QED BY <1>1, <1>2, <1>3, <1>4, <1>5, FS_Subset DEF Pair

(* On a grid the operations map onto itself the symmetrizer stays on it,   *)
(* within the star.                                                        *)
LEMMA SourceInStar ==
  ASSUME GroupOnGrid, GridIsInvariant, NEW op \in operations, NEW x \in Points
  PROVE  Source(op, x) \in Points /\ Related(x, Source(op, x))
<1>1. PICK inv \in operations : inv.rotation = InverseRotation(op.rotation)
  BY DEF GroupOnGrid, RotationsFormGroup, InverseRotationsPresent
<1>2. /\ op.rotation \in Matrix /\ IsUnimodular(op.rotation)
      /\ IsMatrix(inv.rotation) /\ 1 \in {1, -1} /\ 1 \in Signs
  BY SignsCompose DEF GroupOnGrid, RotationsFormGroup, IsUnimodular
<1>3. Source(op, x) = Turned(inv.rotation, 1, x) /\ Source(op, x) = Image(inv, 1, x)
  BY <1>1, <1>2, SourceIsTurned, ImageIsTurned DEF GroupOnGrid
<1>4. Image(inv, 1, x) \in Points \cup {OffGrid} /\ Image(inv, 1, x) # OffGrid
  BY <1>2, ImageInRange DEF GroupOnGrid, GridIsInvariant
<1> QED BY <1>2, <1>3, <1>4 DEF Related

(* Instead of turning the source of a point, take another operation at it, *)
(* or at its time-reversed partner.                                        *)
LEMMA SourceShifts ==
  ASSUME GroupOnGrid, GridIsInvariant, NEW a \in operations, NEW h \in operations,
         NEW o \in operations, o.rotation = Product(a.rotation, InverseRotation(h.rotation)),
         NEW s \in {1, -1}, NEW x \in Points
  PROVE  Source(o, IF s = 1 THEN x ELSE Reversed(x)) = Turned(h.rotation, s, Source(a, x))
<1> DEFINE A == a.rotation
           H == h.rotation
           B == InverseRotation(A)
           C == Product(H, B)
<1>1. /\ A \in Matrix /\ IsUnimodular(A) /\ IsMatrix(A)
      /\ H \in Matrix /\ IsUnimodular(H) /\ IsMatrix(H)
      /\ o.rotation \in Matrix /\ IsUnimodular(o.rotation) /\ GridInv
  BY DEF GroupOnGrid, RotationsFormGroup, IsUnimodular
<1>2. B \in Matrix /\ IsUnimodular(B)
  BY <1>1, InverseEntries, InverseIsUnimodular
<1>3. InverseRotation(o.rotation) = C
  <2> DEFINE K == InverseRotation(H)
  <2>1. K \in Matrix /\ IsUnimodular(K) /\ InverseRotation(K) = H
    BY <1>1, InverseEntries, InverseIsUnimodular, InverseOnLeft
  <2> HIDE DEF K
  <2>2. InverseRotation(Product(A, K)) = Product(InverseRotation(K), InverseRotation(A))
    BY <1>1, <2>1, InverseOfProduct
  <2> QED BY <2>1, <2>2 DEF K
<1>4. C \in Matrix /\ IsUnimodular(C)
  BY <1>1, <1>2, ProductEntries, ProductIsUnimodular DEF IsUnimodular
<1>5. \A y \in Points : Source(o, y) = Turned(C, 1, y)
  BY <1>1, <1>3, SourceIsTurned
<1>6. Source(a, x) = Turned(B, 1, x) /\ Source(a, x) \in Points
  BY <1>1, SourceIsTurned, SourceInStar
<1> HIDE DEF A, H, B
<1>7. Turned(H, s, Turned(B, 1, x)) = Turned(C, s, x)
  <2>1. s * 1 = s /\ 1 \in {1, -1}
    OBVIOUS
  <2>2. Turned(H, s, Turned(B, 1, x)) = Turned(C, s * 1, x)
    BY <1>1, <1>2, <1>6, <2>1, TurnedTwice
  <2> QED BY <2>1, <2>2
<1> HIDE DEF C
<1>8. CASE s = 1
  BY <1>5, <1>6, <1>7, <1>8 DEF H
<1>9. CASE s = -1
  <2> DEFINE t == -1
             y == Reversed(x)
  <2>1. /\ y \in Points /\ y = Turned(Identity, t, x)
        /\ Identity \in Matrix /\ IsUnimodular(Identity)
    BY <1>1, ReversedOnGrid, IdentityIsMatrix, IdentityIsUnimodular DEF Matrix, Identity, Axes
  <2>2. Product(C, Identity) = C /\ t \in {1, -1} /\ 1 \in {1, -1} /\ 1 * t = s
    BY <1>4, <1>9, IdentityIsNeutral
  <2> HIDE DEF t, y
  <2>3. Turned(C, 1, Turned(Identity, t, x)) = Turned(Product(C, Identity), 1 * t, x)
    BY <1>1, <1>4, <2>1, <2>2, TurnedTwice
  <2>4. Source(o, y) = Turned(C, s, x)
    BY <1>5, <2>1, <2>2, <2>3
  <2> QED BY <1>6, <1>7, <1>9, <2>4 DEF H, y
<1> QED BY <1>8, <1>9

(* So no point of a star is fed more often than another.                   *)
LEMMA FedAlike ==
  ASSUME GroupOnGrid, GridIsInvariant, IsFiniteSet(operations),
         NEW p \in Points, NEW q \in Points, NEW r \in Points, Related(q, r)
  PROVE  Cardinality(Fed(p, q)) <= Cardinality(Fed(p, r))
<1>1. PICK h \in operations, s \in Signs : Turned(h.rotation, s, q) = r
  BY DEF Related
<1>2. s \in {1, -1} /\ (s # 1 => has_time_reversal)
  BY SignsCompose DEF Signs
<1> DEFINE K == InverseRotation(h.rotation)
           op(u) == CHOOSE o \in operations : o.rotation = Product(u[1].rotation, K)
           x(u) == IF s = 1 THEN u[2] ELSE Reversed(u[2])
           S == Fed(p, q)
           T == Fed(p, r)
           f == [u \in S |-> <<op(u), x(u)>>]
<1>3. /\ Pair(p) \subseteq Points /\ IsFiniteSet(Pair(p))
      /\ \A y \in Pair(p) : has_time_reversal => Reversed(y) \in Pair(p)
  BY PairFacts
<1>4. ASSUME NEW u \in S
      PROVE  /\ u[1] \in operations /\ u[2] \in Pair(p) /\ u[2] \in Points
             /\ Source(u[1], u[2]) = q /\ u = <<u[1], u[2]>>
  BY <1>3 DEF Fed
<1>5. ASSUME NEW u \in S
      PROVE  op(u) \in operations /\ op(u).rotation = Product(u[1].rotation, K)
  <2>1. PICK i \in operations : i.rotation = K
    BY DEF GroupOnGrid, RotationsFormGroup, InverseRotationsPresent
  <2>2. \A a \in operations : \E o \in operations : o.rotation = Product(a.rotation, K)
    <3> HIDE DEF K
    <3> QED BY <2>1 DEF GroupOnGrid, RotationsFormGroup
  <2>3. u[1] \in operations
    BY <1>4
  <2> QED BY <2>2, <2>3
<1>6. \A u \in S : x(u) \in Pair(p)
  BY <1>2, <1>3, <1>4
<1>7. ASSUME NEW u \in S PROVE Source(op(u), x(u)) = r
  <2> DEFINE a == u[1]
             y == u[2]
             o == op(u)
  <2>1. /\ a \in operations /\ y \in Points /\ Source(a, y) = q
        /\ o \in operations /\ o.rotation = Product(a.rotation, InverseRotation(h.rotation))
    BY <1>4, <1>5
  <2>2. x(u) = IF s = 1 THEN y ELSE Reversed(y)
    OBVIOUS
  <2> HIDE DEF a, y, o
  <2>3. Source(o, IF s = 1 THEN y ELSE Reversed(y)) = Turned(h.rotation, s, Source(a, y))
    BY <1>2, <2>1, SourceShifts
  <2> QED BY <1>1, <2>1, <2>2, <2>3 DEF o
<1>8. \A u \in S : f[u] \in T
  BY <1>5, <1>6, <1>7 DEF Fed
<1>9. ASSUME NEW u \in S, NEW v \in S, f[u] = f[v] PROVE u = v
  <2>1. op(u) = op(v) /\ x(u) = x(v)
    <3> DEFINE a == op(u)  b == op(v)  y == x(u)  z == x(v)
    <3>1. f[u] = <<a, y>> /\ f[v] = <<b, z>>
      OBVIOUS
    <3> HIDE DEF a, b, y, z, f
    <3>2. f[u][1] = a /\ f[u][2] = y /\ f[v][1] = b /\ f[v][2] = z
      BY <3>1
    <3>3. a = b /\ y = z
      BY <1>9, <3>2
    <3> QED BY <3>3 DEF a, b, y, z
  <2>2. u[1] = v[1]
    <3> DEFINE a == u[1].rotation
               b == v[1].rotation
               H == h.rotation
    <3>1. /\ a \in Matrix /\ b \in Matrix /\ H \in Matrix
          /\ IsUnimodular(H) /\ IsMatrix(H) /\ IsMatrix(a) /\ IsMatrix(b)
      BY <1>4 DEF GroupOnGrid, RotationsFormGroup, IsUnimodular
    <3>2. Product(a, K) = Product(b, K)
      BY <1>5, <2>1
    <3>3. IsMatrix(K) /\ Product(K, H) = Identity
      BY <3>1, InverseEntries, InverseOnLeft
    <3>4. a = b
      <4> HIDE DEF a, b, H, K
      <4>1. /\ Product(Product(a, K), H) = Product(a, Product(K, H))
            /\ Product(Product(b, K), H) = Product(b, Product(K, H))
        BY <3>1, <3>3, ProductAssociates
      <4> QED BY <3>1, <3>2, <3>3, <4>1, IdentityIsNeutral
    <3> QED BY <1>4, <3>4 DEF GroupOnGrid, RotationsFormGroup
  <2>3. u[2] = v[2]
    <3>1. CASE s = 1
      BY <2>1, <3>1
    <3>2. CASE s # 1
      <4>1. Reversed(u[2]) = Reversed(v[2])
        BY <2>1, <3>2
      <4>2. Reversed(Reversed(u[2])) = u[2] /\ Reversed(Reversed(v[2])) = v[2]
        BY <1>4, ReversedTwice DEF GroupOnGrid
      <4> QED BY <4>1, <4>2
    <3> QED BY <3>1, <3>2
  <2> QED BY <1>4, <2>2, <2>3
<1>10. IsFiniteSet(T)
  <2> DEFINE U == operations \X Pair(p)
  <2>1. IsFiniteSet(U) /\ T \subseteq U
    BY <1>3, FS_Product DEF Fed
  <2> HIDE DEF U, T
  <2> QED BY <2>1, FS_Subset
<1>11. f \in Injection(S, T)
  <2>1. f \in [S -> T] /\ DOMAIN f = S
    BY <1>8
  <2> HIDE DEF f, S, T
  <2> QED BY <1>9, <2>1 DEF Injection, IsInjective
<1> HIDE DEF f, S, T
<1>12. Cardinality(S) <= Cardinality(T)
  BY <1>10, <1>11, FS_Injection
<1> QED BY <1>12 DEF S, T

(* When the loop has ended: the owner of a point is a representative, and  *)
(* related to it are the points of its class.                              *)
LEMMA OwnerFacts ==
  ASSUME SInv, pc = "reduced", RotationsFormGroup, NEW p \in Points
  PROVE  /\ owner[p] \in Points /\ owner[owner[p]] = owner[p]
         /\ \A q \in Points : Related(p, q) <=> owner[q] = owner[p]
         /\ \E i \in 1 .. Len(ibz) : ibz[i].point = owner[p]
<1>1. PInv
  BY DEF SInv, GInv, KInv
<1>2. visited = Points
  BY <1>1, GridFacts DEF PInv, Typed, Behind, Points
<1>3. PICK i \in 1 .. Len(ibz) : ibz[i].point = owner[p]
  BY <1>1, <1>2 DEF PInv, Listed, Behind
<1>4. ibz[i].point \in Points /\ owner[ibz[i].point] = ibz[i].point
  BY <1>1, EntriesArePoints DEF PInv, Classes
<1> QED BY <1>2, <1>3, <1>4 DEF SInv, Stars

(* The average at a pair of points takes as much from every point of the   *)
(* star, and nothing from elsewhere.                                       *)
LEMMA StarCounts ==
  ASSUME SInv, pc = "reduced", RotationsFormGroup, GridIsInvariant, NEW p \in Points
  PROVE  Cardinality(Class(owner[p])) * Cardinality(Fed(p, owner[p]))
           = Cardinality(operations) * Cardinality(Pair(p))
<1> DEFINE U == operations \X Pair(p)
           T == Class(owner[p])
           rep == owner[p]
           one == [u \in U |-> 1]
           h == [u \in U |-> Source(u[1], u[2])]
           s == [q \in T |-> Cardinality(Fed(p, q))]
           k == Cardinality(Fed(p, rep))
<1>1. GroupOnGrid /\ IsFiniteSet(operations) /\ GridInv
  BY GroupInLoop, OperationsAreFinite DEF SInv, GroupOnGrid
<1>2. /\ Pair(p) \subseteq Points /\ IsFiniteSet(Pair(p))
      /\ \A x \in Pair(p) : Related(p, x)
  BY <1>1, PairFacts
<1>3. /\ rep \in Points
      /\ \A q \in Points : q \in T <=> Related(p, q)
  BY OwnerFacts DEF Class
<1>4. IsFiniteSet(U) /\ Cardinality(U) = Cardinality(operations) * Cardinality(Pair(p))
  BY <1>1, <1>2, FS_Product
<1>5. IsFiniteSet(T) /\ T \in SUBSET Points
  BY <1>1, PointsAreFinite, FS_Subset DEF Class
<1>6. ASSUME NEW u \in U PROVE h[u] \in T
  <2> DEFINE a == u[1]
             x == u[2]
  <2>1. a \in operations /\ x \in Points /\ Related(p, x) /\ h[u] = Source(a, x)
    BY <1>2
  <2> HIDE DEF a, x, h
  <2>2. Source(a, x) \in Points /\ Related(x, Source(a, x))
    BY <1>1, <2>1, SourceInStar
  <2>3. Related(p, Source(a, x))
    BY <1>1, <2>1, <2>2, StarIsTransitive
  <2> QED BY <1>3, <2>1, <2>2, <2>3
<1>7. ASSUME NEW q \in T
      PROVE  /\ Fed(p, q) = Keyed(U, h, q) /\ IsFiniteSet(Fed(p, q))
             /\ Cardinality(Fed(p, q)) \in Nat /\ s[q] = Cardinality(Fed(p, q))
  <2>1. Fed(p, q) = Keyed(U, h, q) /\ Fed(p, q) \subseteq U
    BY DEF Fed, Keyed
  <2> HIDE DEF U, h
  <2>2. IsFiniteSet(Fed(p, q)) /\ Cardinality(Fed(p, q)) \in Nat
    BY <1>4, <2>1, FS_Subset, FS_CardinalityType
  <2> QED BY <2>1, <2>2
<1>8. rep \in T
  BY <1>3, OwnerFacts DEF Class
<1>9. k \in Nat
  BY <1>7, <1>8
<1>10. ASSUME NEW q \in T PROVE s[q] = k
  <2>1. q \in Points /\ Related(p, q) /\ Related(p, rep)
    BY <1>3, <1>5, <1>8
  <2>2. Related(q, p) /\ Related(rep, p)
    BY <1>1, <1>3, <2>1, StarIsSymmetric
  <2>3. Related(q, rep) /\ Related(rep, q)
    BY <1>1, <1>3, <2>1, <2>2, StarIsTransitive
  <2>4. Cardinality(Fed(p, q)) <= k /\ k <= Cardinality(Fed(p, q))
    BY <1>1, <1>3, <2>1, <2>3, FedAlike
  <2>5. Cardinality(Fed(p, q)) \in Nat /\ s[q] = Cardinality(Fed(p, q))
    BY <1>7
  <2> HIDE DEF k, s
  <2> QED BY <1>9, <2>4, <2>5
<1>11. IntegersOn(one, U) /\ \A u \in U : one[u] = 1
  BY DEF IntegersOn
<1> HIDE DEF U, T, one, h, s, k
<1>12. ASSUME NEW q \in T PROVE s[q] = SumFunctionOnSet(one, Keyed(U, h, q))
  <2>1. Keyed(U, h, q) \subseteq U
    BY DEF Keyed
  <2>2. IsFiniteSet(Keyed(U, h, q)) /\ \A u \in Keyed(U, h, q) : one[u] = 1
    BY <1>4, <1>11, <2>1, FS_Subset
  <2>3. SumFunctionOnSet(one, Keyed(U, h, q)) = 1 * Cardinality(Keyed(U, h, q))
    BY <2>2, SumOfConstant
  <2> QED BY <1>7, <2>3
<1>13. SumsByKey(s, T, one, U, h)
  BY <1>6, <1>12 DEF SumsByKey
<1>14. SumFunctionOnSet(one, U) = SumFunctionOnSet(s, T)
  BY <1>4, <1>5, <1>11, <1>13, SumByKey
<1>15. SumFunctionOnSet(one, U) = 1 * Cardinality(U)
  BY <1>4, <1>11, SumOfConstant
<1>16. SumFunctionOnSet(s, T) = k * Cardinality(T)
  BY <1>5, <1>9, <1>10, SumOfConstant
<1>17. Cardinality(U) \in Nat /\ Cardinality(T) \in Nat
  BY <1>4, <1>5, FS_CardinalityType
<1>18. Cardinality(T) * k = Cardinality(U)
  <2> DEFINE a == Cardinality(T)
             b == Cardinality(U)
  <2>1. a \in Nat /\ b \in Nat /\ 1 * b = k * a
    BY <1>14, <1>15, <1>16, <1>17
  <2> HIDE DEF a, b
  <2>2. a * k = b
    BY <1>9, <2>1
  <2> QED BY <2>2 DEF a, b
<1> QED BY <1>4, <1>18 DEF T, k, rep

(* Where the rotations are a group, the average over the operations of the *)
(* weighted representatives is the sum over the whole grid.                *)
LEMMA SymmetrizedIsFull ==
  ASSUME SInv, pc = "reduced", RotationsFormGroup, GridIsInvariant, NEW p \in Points
  PROVE  SymmetrizedWeight(p) = Cardinality(operations) * Cardinality(Pair(p))
<1> DEFINE D == 1 .. Len(ibz)
           w == [i \in D |-> ibz[i].weight * Cardinality(Fed(p, ibz[i].point))]
<1>1. PInv /\ GroupOnGrid /\ IsFiniteSet(operations) /\ GridInv
  BY GroupInLoop, OperationsAreFinite DEF SInv, GInv, KInv, GroupOnGrid
<1>2. DOMAIN ibz = D /\ Len(ibz) \in Nat
  BY <1>1 DEF PInv, Typed
<1>3. /\ owner[p] \in Points /\ owner[owner[p]] = owner[p]
      /\ \A q \in Points : Related(p, q) <=> owner[q] = owner[p]
  BY OwnerFacts
<1>4. PICK m \in D : ibz[m].point = owner[p]
  BY OwnerFacts
<1>5. /\ Pair(p) \subseteq Points /\ IsFiniteSet(Pair(p))
      /\ \A x \in Pair(p) : Related(p, x)
  BY <1>1, PairFacts
<1>6. \A q : IsFiniteSet(Fed(p, q)) /\ Cardinality(Fed(p, q)) \in Nat
  <2> DEFINE U == operations \X Pair(p)
  <2>1. IsFiniteSet(U) /\ \A q : Fed(p, q) \subseteq U
    BY <1>1, <1>5, FS_Product DEF Fed
  <2> HIDE DEF U
  <2> QED BY <2>1, FS_Subset, FS_CardinalityType
<1>7. ASSUME NEW i \in D \ {m} PROVE Fed(p, ibz[i].point) = {}
  <2> DEFINE q == ibz[i].point
  <2>1. q \in Points /\ owner[q] = q /\ q # owner[p]
    BY <1>1, <1>4, EntriesArePoints DEF PInv, Classes, Listed
  <2> HIDE DEF q
  <2>2. ASSUME NEW u \in Fed(p, q) PROVE FALSE
    <3> DEFINE a == u[1]
               x == u[2]
    <3>1. a \in operations /\ x \in Points /\ Related(p, x) /\ Source(a, x) = q
      BY <1>5 DEF Fed
    <3> HIDE DEF a, x
    <3>2. Related(x, q)
      BY <1>1, <3>1, SourceInStar
    <3>3. Related(p, q)
      BY <1>1, <2>1, <3>1, <3>2, StarIsTransitive
    <3> QED BY <1>3, <2>1, <3>3
  <2> QED BY <2>2 DEF q
<1>8. \A i \in D : ibz[i].weight \in Nat
  BY <1>1, EntriesArePoints DEF PInv, Entry
<1>9. IntegersOn(w, D)
  <2>1. ASSUME NEW i \in D PROVE w[i] \in Int
    <3> DEFINE a == ibz[i].weight
               b == Cardinality(Fed(p, ibz[i].point))
    <3>1. a \in Nat /\ b \in Nat /\ w[i] = a * b
      BY <1>6, <1>8
    <3> HIDE DEF a, b, w
    <3> QED BY <3>1
  <2> QED BY <2>1 DEF IntegersOn
<1>10. ASSUME NEW i \in D \ {m} PROVE w[i] = 0
  <2> DEFINE a == ibz[i].weight
             b == Cardinality(Fed(p, ibz[i].point))
  <2>1. a \in Nat /\ b = 0 /\ w[i] = a * b
    BY <1>7, <1>8, FS_EmptySet
  <2> HIDE DEF a, b, w
  <2> QED BY <2>1
<1>11. w[m] = Cardinality(Class(owner[p])) * Cardinality(Fed(p, owner[p]))
  <2>1. ibz[m].weight = Cardinality(Class(owner[p]))
    BY <1>1, <1>4 DEF PInv, Classes
  <2>2. w[m] = ibz[m].weight * Cardinality(Fed(p, ibz[m].point))
    OBVIOUS
  <2> HIDE DEF w
  <2> QED BY <1>4, <2>1, <2>2
<1>12. IsFiniteSet(D)
  <2> DEFINE n == Len(ibz)
  <2>1. n \in Int
    BY <1>2
  <2> HIDE DEF n
  <2>2. IsFiniteSet(1 .. n)
    BY <2>1, FS_Interval
  <2> QED BY <2>2 DEF n
<1>13. SymmetrizedWeight(p) = SumFunctionOnSet(w, D)
  BY <1>2 DEF SymmetrizedWeight, SumFunction
<1> HIDE DEF w, D
<1>14. SumFunctionOnSet(w, D) = w[m]
  <2>1. {m} \in SUBSET D /\ w[m] \in Int
    BY <1>4, <1>9 DEF IntegersOn
  <2>2. SumFunctionOnSet(w, D) = SumFunctionOnSet(w, {m})
    BY <1>9, <1>10, <1>12, <2>1, SumOfSupport
  <2> QED BY <2>1, <2>2, SumSingleton
<1> QED BY <1>11, <1>13, <1>14, StarCounts

(* In a cell the radius covers, primitive or not, and on a grid that the   *)
(* operations map onto itself, reduction and symmetrization together count *)
(* every k-point of the full grid exactly once, with and without time      *)
(* reversal, with and without half-shifts.                                 *)
THEOREM ReductionIsUndone ==
  Spec => [](RadiusCovers(crystal.metric) => SymmetrizedSumIsFullSum)
<1>1. SInv => (RadiusCovers(crystal.metric) => SymmetrizedSumIsFullSum)
  <2> SUFFICES ASSUME SInv, RadiusCovers(crystal.metric), pc = "reduced", GridIsInvariant,
                      NEW p \in Points
               PROVE  SymmetrizedWeight(p) = Cardinality(operations) * Cardinality(Pair(p))
    BY DEF SymmetrizedSumIsFullSum
  <2>1. RotationsFormGroup
    BY DetectedRotationsFormGroup DEF SInv
  <2> QED BY <2>1, SymmetrizedIsFull
<1> QED BY <1>1, SInit, SNext, PTL DEF Spec
=============================================================================
