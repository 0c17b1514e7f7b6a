----------------------------- MODULE LcRegions -----------------------------
(***************************************************************************)
(* Regions of a lattice, src/src/lattice_region.cpp: a region is a bounding *)
(* box and, unless it is a rectangle, a mask over it in the box's own      *)
(* coordinates.  Compound regions take over, join or clip the boxes of     *)
(* their parts and ask the parts pixel by pixel.  Coordinates of vertices  *)
(* and centres, doubles in the code, are in halves of a pixel.             *)
(***************************************************************************)
EXTENDS Integers, Sequences, FiniteSetsExt

CONSTANT LatticeShape   \* <<nx, ny>>

ASSUME LatticeAssumption == LatticeShape \in Seq(Nat) /\ Len(LatticeShape) = 2

Axis == 1..2
Positions(shape) == (0..shape[1] - 1) \X (0..shape[2] - 1)
LatticePoint == Positions(LatticeShape)
Origin == <<0, 0>>
Both(F) == <<F[1], F[2]>>

Lesser(a, b) == IF a < b THEN a ELSE b
Greater(a, b) == IF a < b THEN b ELSE a

----------------------------------------------------------------------------
(***************************************************************************)
(* Regions and their pixels.                                               *)
(***************************************************************************)
LcRegion(blc, len, mask) == [blc |-> blc, len |-> len, has_mask |-> TRUE, mask |-> mask]
LcBox(blc, trc) ==
    [blc |-> blc, len |-> Both([d \in Axis |-> trc[d] - blc[d] + 1]),
     has_mask |-> FALSE, mask |-> {}]

Trc(r) == Both([d \in Axis |-> r.blc[d] + r.len[d] - 1])
ToLocal(r, p) == Both([d \in Axis |-> p[d] - r.blc[d]])
ToLattice(blc, p) == Both([d \in Axis |-> p[d] + blc[d]])

\* Mutant: the mask is asked in lattice coordinates.
pixel_in_region_unshifted(r, pos) ==
    /\ \A d \in Axis : pos[d] >= r.blc[d] /\ pos[d] < r.blc[d] + r.len[d]
    /\ r.has_mask => pos \in r.mask

pixel_in_region(r, pos) ==
    /\ \A d \in Axis : pos[d] >= r.blc[d] /\ pos[d] < r.blc[d] + r.len[d]
    /\ r.has_mask => ToLocal(r, pos) \in r.mask

----------------------------------------------------------------------------
(***************************************************************************)
(* Simple regions.                                                         *)
(***************************************************************************)
\* The box of an ellipsoid or a polygon between two corners: outwards to whole
\* pixels, clipped to the lattice.
RoundedBox(low, high) ==
    LET blc == Both([d \in Axis |-> Greater(0, low[d] \div 2)])
        trc == Both([d \in Axis |-> Lesser(LatticeShape[d] - 1, -((-high[d]) \div 2))])
    IN  LcBox(blc, trc)

\* offset^2 / semi^2 summed over the axes that are not flat, times the squares.
InEllipse(e, p) ==
    LET off(d) == 2 * p[d] - e.center[d]
        sq(d) == e.semi_axes[d] * e.semi_axes[d]
        round == {d \in Axis : e.semi_axes[d] > 0}
    IN  CASE round = {} -> TRUE
          [] round = {1} -> off(1) * off(1) <= sq(1)
          [] round = {2} -> off(2) * off(2) <= sq(2)
          [] OTHER -> off(1) * off(1) * sq(2) + off(2) * off(2) * sq(1) <= sq(1) * sq(2)

LcEllipsoid(e) ==
    LET box == RoundedBox(Both([d \in Axis |-> e.center[d] - e.semi_axes[d]]),
                          Both([d \in Axis |-> e.center[d] + e.semi_axes[d]]))
    IN  LcRegion(box.blc, box.len,
                 {p \in Positions(box.len) : InEllipse(e, ToLattice(box.blc, p))})

Before(i, n) == IF i = 1 THEN n ELSE i - 1

\* A ray from the middle of the pixel crosses the edge between two vertices:
\* px < (xj - xi) * (py - yi) / (yj - yi) + xi, without the division.
Crosses(vi, vj, px, py) ==
    /\ (vi[2] > py) # (vj[2] > py)
    /\ LET run == (vj[1] - vi[1]) * (py - vi[2])
           rise == vj[2] - vi[2]
       IN  IF rise > 0 THEN (px - vi[1]) * rise < run ELSE (px - vi[1]) * rise > run

LcPolygon(v) ==
    LET Coord(d) == {v[i][d] : i \in DOMAIN v}
        box == RoundedBox(<<Min(Coord(1)), Min(Coord(2))>>, <<Max(Coord(1)), Max(Coord(2))>>)
        Inside(p) == Cardinality({i \in DOMAIN v :
                        Crosses(v[i], v[Before(i, Len(v))], 2 * p[1] + 1, 2 * p[2] + 1)}) % 2 = 1
    IN  LcRegion(box.blc, box.len,
                 {p \in Positions(box.len) : Inside(ToLattice(box.blc, p))})

----------------------------------------------------------------------------
(***************************************************************************)
(* Compound regions of two parts.                                          *)
(***************************************************************************)
\* The box around both; it starts its search for the far corner at 0.
compute_union_bb(r, s) ==
    LcBox(Both([d \in Axis |-> Lesser(r.blc[d], s.blc[d])]),
          Both([d \in Axis |-> Greater(0, Greater(Trc(r)[d], Trc(s)[d]))]))

\* The box in both and the lattice, of no length when they do not meet.
compute_intersection_bb(r, s) ==
    LET blc == Both([d \in Axis |-> Greater(0, Greater(r.blc[d], s.blc[d]))])
        trc == Both([d \in Axis |-> Lesser(LatticeShape[d] - 1, Lesser(Trc(r)[d], Trc(s)[d]))])
    IN  [LcBox(blc, trc) EXCEPT !.len = Both([d \in Axis |-> Greater(0, trc[d] - blc[d] + 1)])]

LcUnion(r, s) ==
    LET box == compute_union_bb(r, s)
    IN  LcRegion(box.blc, box.len,
                 {p \in Positions(box.len) : \/ pixel_in_region(r, ToLattice(box.blc, p))
                                             \/ pixel_in_region(s, ToLattice(box.blc, p))})
LcIntersection(r, s) ==
    LET box == compute_intersection_bb(r, s)
    IN  LcRegion(box.blc, box.len,
                 {p \in Positions(box.len) : /\ pixel_in_region(r, ToLattice(box.blc, p))
                                             /\ pixel_in_region(s, ToLattice(box.blc, p))})
LcDifference(r, s) ==
    LcRegion(r.blc, r.len,
             {p \in Positions(r.len) : /\ pixel_in_region(r, ToLattice(r.blc, p))
                                       /\ ~pixel_in_region(s, ToLattice(r.blc, p))})

LcComplement(r) ==
    LcRegion(Origin, LatticeShape, {p \in LatticePoint : ~pixel_in_region(r, p)})

\* LcExtension has a mask over the lattice, but says it has one only when the
\* region it extends has; the axes are not looked at.
LcExtension(r) ==
    [LcRegion(Origin, LatticeShape, {p \in LatticePoint : pixel_in_region(r, p)})
        EXCEPT !.has_mask = r.has_mask]

----------------------------------------------------------------------------
(***************************************************************************)
(* The points a region should stand for.                                   *)
(***************************************************************************)
PointsOfBox(blc, trc) ==
    {p \in LatticePoint : \A d \in Axis : p[d] \in blc[d]..trc[d]}

\* An axis of no length leaves the pixels around the centre.
PointsOfEllipse(e) ==
    {p \in LatticePoint :
        /\ InEllipse(e, p)
        /\ \A d \in Axis : e.semi_axes[d] = 0 =>
              2 * p[d] - e.center[d] \in -1..1}

\* On which side of the edge to vertex i a position lies.
SideOf(v, i, at) ==
    LET from == v[Before(i, Len(v))]
        to == v[i]
    IN  (to[1] - from[1]) * (at[2] - from[2]) - (to[2] - from[2]) * (at[1] - from[1])

\* The middle of the pixel lies on the same side of all edges.
Middle(p) == <<2 * p[1] + 1, 2 * p[2] + 1>>
PointsOfPolygon(v) ==
    {p \in LatticePoint : \/ \A i \in DOMAIN v : SideOf(v, i, Middle(p)) > 0
                          \/ \A i \in DOMAIN v : SideOf(v, i, Middle(p)) < 0}

=============================================================================
