--------------------------- MODULE LatticeRegions ---------------------------
(***************************************************************************)
(* A program that makes simple regions of a lattice of two axes            *)
(* (LcRegions) and combines them; each region carries the set of lattice   *)
(* points it stands for.  A rectangle, once extended, is asked without its *)
(* mask and shows the whole lattice to what is combined from it: a region   *)
(* also carries the points at which it may be wrong for that reason.       *)
(***************************************************************************)
EXTENDS LcRegions

CONSTANTS
    BoxCorners,     \* corners of boxes, some outside the lattice
    PixelSets,      \* [blc, len, mask]
    Ellipses,       \* [center, semi_axes]
    Polygons,       \* convex ones, as sequences of vertices in halves of a pixel
    MaxCombined     \* how many compound regions a program makes

ASSUME RegionAssumption ==
    /\ BoxCorners \subseteq Int \X Int
    /\ \A s \in PixelSets : /\ s.blc \in Int \X Int /\ s.len \in Int \X Int
                            /\ s.mask \subseteq Positions(s.len)
    /\ \A e \in Ellipses : e.center \in Int \X Int /\ e.semi_axes \in Nat \X Nat

\* The edge to vertex i passes a height upwards or downwards.
Rises(v, i, y) == v[Before(i, Len(v))][2] <= y /\ y < v[i][2]
Falls(v, i, y) == v[i][2] <= y /\ y < v[Before(i, Len(v))][2]

\* Convex polygons: the outline turns to one side at every vertex, has all
\* vertices on that side of every edge, and passes a height at most once upwards
\* and once downwards.
Convex(v) ==
    /\ \E turn \in {-1, 1} : \A i, k \in DOMAIN v :
          /\ turn * SideOf(v, i, v[k]) >= 0
          /\ i = Before(k, Len(v)) => turn * SideOf(v, i, v[k]) > 0
    /\ \A i, k, m \in DOMAIN v :
          LET y == v[m][2]
          IN  (Rises(v, i, y) /\ Rises(v, k, y)) \/ (Falls(v, i, y) /\ Falls(v, k, y)) => i = k

\* A pixel whose middle is on an edge may be taken for either side.
ASSUME PolygonAssumption ==
    \A v \in Polygons :
        /\ v \in Seq(Int \X Int) /\ Len(v) > 2
        /\ Convex(v)
        /\ \A p \in LatticePoint, i \in DOMAIN v : SideOf(v, i, Middle(p)) # 0

VARIABLES
    region,     \* the last two regions the program made, <<>> when there is none
    stands,     \* the lattice points each stands for
    doubtful,   \* the lattice points an extended rectangle in it covers wrongly
    combined    \* how many of its regions are compound

regionVars == <<region, stands, doubtful, combined>>

----------------------------------------------------------------------------
RegionInit == region = <<>> /\ stands = <<>> /\ doubtful = <<>> /\ combined = 0

\* The program keeps its last two regions.
Keep(last, x) == IF Len(last) < 2 THEN Append(last, x) ELSE <<last[2], x>>

MakeRegion(r, points, doubts) ==
    /\ region' = Keep(region, r)
    /\ stands' = Keep(stands, points)
    /\ doubtful' = Keep(doubtful, doubts)

MakeBox(blc, trc) ==
    /\ \A d \in Axis : blc[d] <= trc[d]
    /\ MakeRegion(LcBox(blc, trc), PointsOfBox(blc, trc), {})

MakePixelSet(s) ==
    MakeRegion(LcRegion(s.blc, s.len, s.mask),
               {p \in LatticePoint : ToLocal(s, p) \in s.mask}, {})

\* LcMask has a mask over the whole lattice.
MakeMask(points) == MakeRegion(LcRegion(Origin, LatticeShape, points), points, {})

MakeSimple ==
    /\ combined = 0 /\ Len(region) < 2
    /\ \/ \E blc, trc \in BoxCorners : MakeBox(blc, trc)
       \/ \E s \in PixelSets : MakePixelSet(s) \/ MakeMask(s.mask \cap LatticePoint)
       \/ \E e \in Ellipses : MakeRegion(LcEllipsoid(e), PointsOfEllipse(e), {})
       \/ \E v \in Polygons : MakeRegion(LcPolygon(v), PointsOfPolygon(v), {})
    /\ UNCHANGED combined

Combine ==
    /\ Len(region) = 2 /\ combined < MaxCombined
    /\ combined' = combined + 1
    /\ \E i, j \in 1..2 :
          LET r == region[i]
              s == region[j]
              either == doubtful[i] \cup doubtful[j]
          IN  \/ i # j /\ MakeRegion(LcUnion(r, s), stands[i] \cup stands[j], either)
              \/ i # j /\ MakeRegion(LcIntersection(r, s), stands[i] \cap stands[j], either)
              \/ i # j /\ MakeRegion(LcDifference(r, s), stands[i] \ stands[j], either)
              \/ i = j /\ MakeRegion(LcComplement(r), LatticePoint \ stands[i], either)
              \/ i = j /\ MakeRegion(LcExtension(r), stands[i],
                                     IF r.has_mask THEN either ELSE LatticePoint \ stands[i])

RegionNext == MakeSimple \/ Combine
RegionSpec == RegionInit /\ [][RegionNext]_regionVars

----------------------------------------------------------------------------
RegionTypeOK ==
    /\ Len(region) \in 0..2 /\ Len(stands) = Len(region) /\ Len(doubtful) = Len(region)
    /\ \A i \in DOMAIN region :
        /\ region[i].blc \in Int \X Int /\ region[i].len \in Nat \X Nat
        /\ region[i].mask \subseteq Positions(region[i].len)
        /\ stands[i] \subseteq LatticePoint /\ doubtful[i] \subseteq LatticePoint
    /\ combined \in 0..MaxCombined

\* However simple regions were combined, with whatever bounding boxes clipped,
\* joined or taken over, a pixel of the lattice is in the region exactly when it
\* is in the set the combination stands for (lattice_region.cpp:341-648); the
\* pixels excepted are those outside a rectangle that was extended: LcExtension
\* says it has no mask, which lattice_region.hpp:99-101 reads as the whole
\* lattice, although its get_mask() is the rectangle.
RegionIsItsSet ==
    \A i \in DOMAIN region : \A p \in LatticePoint \ doubtful[i] :
        pixel_in_region(region[i], p) <=> p \in stands[i]
=============================================================================
