---------------------------- MODULE WorldRegions ----------------------------
(***************************************************************************)
(* Regions of an image given in world coordinates, and the named regions   *)
(* of an image, src/src/image_region.cpp, with the records of simple       *)
(* regions, lattice_region.cpp.  A region is what its constructor was      *)
(* given; to_lc_region makes the region of the lattice (LcRegions) from it *)
(* by the coordinate system (CoordinateSystems).  A program gives regions  *)
(* names, renames and removes them, chooses the default mask, and saves    *)
(* the regions and the coordinates and restores them.                      *)
(***************************************************************************)
EXTENDS LcRegions, CoordinateSystems

CONSTANTS
    Systems,        \* coordinate systems made by a program, or written by casacore
    Spans,          \* <<from, to>> along an axis, in halves of a pixel
    Mids,           \* [center, radii] of ellipses, in halves of a pixel
    Outlines,       \* convex polygons, as sequences of vertices in halves of a pixel
    LatticeMade,    \* regions in lattice coordinates
    RegionNames,
    MaxRegionSteps, \* how many calls a program makes
    MaxRegions      \* in how many of the first ones it may define a simple region

VARIABLES
    system,     \* the CoordinateSystem
    handler,    \* the RegionHandler: [regions, default_mask]
    world,      \* ghost: the world values along the axis of each name at first
    worldAt,    \* ghost: of each name, the world values of every position at first
    meant,      \* ghost: the pixels meant by each named region
    masked,     \* ghost: the pixels meant by the default mask, if there is one
    losses,     \* ghost: the types among which a restore was, each time it lost some
    regionSteps

worldVars == <<system, handler, world, worldAt, meant, masked, losses, regionSteps>>

----------------------------------------------------------------------------
(***************************************************************************)
(* From world to lattice.                                                  *)
(***************************************************************************)
\* The axis whose coordinate and number the axis with a name has, -1 when none.
find_pixel_axis_by_name(cs, name) ==
    LET named == {<<i, a>> \in (DOMAIN cs) \X (1..2) :
                     /\ a \in DOMAIN world_axis_names(cs[i].coord)
                     /\ world_axis_names(cs[i].coord)[a] = name}
        axes == {axis \in 0..AxisCount(cs) - 1 : find_pixel_axis(cs, axis) \in named}
    IN  IF axes = {} THEN -1 ELSE Min(axes)

\* The other axes of the coordinate stay at their reference values.
PixelAlong(coord, axis, value) ==
    coordinate_to_pixel(coord, [reference_value(coord) EXCEPT ![axis] = value])[axis]
PixelAt(cs, at, value) == PixelAlong(cs[at[1]].coord, at[2], value)
world_to_pixel_1d(cs, pixel_axis, value) == PixelAt(cs, find_pixel_axis(cs, pixel_axis), value)

\* Outwards to whole pixels, clipped.
RoundedSpan(ends, d) ==
    <<Greater(0, Min(ends) \div 2), Lesser(LatticeShape[d] - 1, -((-Max(ends)) \div 2))>>

\* Axes without a name are taken whole.
BoxAlong(cs, box, px, d) ==
    IF d - 1 \notin ToSet(px) THEN <<0, LatticeShape[d] - 1>>
    ELSE LET i == CHOOSE i \in DOMAIN px : px[i] = d - 1
         IN  RoundedSpan({world_to_pixel_1d(cs, d - 1, v) : v \in {box.blc[i], box.trc[i]}}, d)
Cornered(along) == LcBox(<<along[1][1], along[2][1]>>, <<along[1][2], along[2][2]>>)
box_to_lc_region(cs, box, px) == Cornered([d \in Axis |-> BoxAlong(cs, box, px, d)])

Halved(n) == (IF n < 0 THEN -n ELSE n) \div 2

\* Center and radii stay in the order of the names.
ellipsoid_to_lc_region(cs, e, px) ==
    LcEllipsoid(
        [center |-> [i \in Axis |-> world_to_pixel_1d(cs, px[i], e.center[i])],
         semi_axes |-> [i \in Axis |->
             Halved(world_to_pixel_1d(cs, px[i], e.center[i] + e.radii[i])
                    - world_to_pixel_1d(cs, px[i], e.center[i] - e.radii[i]))]])

\* As do the vertices.
polygon_to_lc_region(cs, g, px) ==
    LcPolygon([i \in DOMAIN g.x |->
                  [k \in Axis |-> world_to_pixel_1d(cs, px[k], <<g.x[i], g.y[i]>>[k])]])

AxisNames(r) == IF r.type = "WcPolygon" THEN <<r.x_axis_name, r.y_axis_name>> ELSE r.axis_names
PixelAxes(cs, names) == [i \in DOMAIN names |-> find_pixel_axis_by_name(cs, names[i])]
ByType(cs, r, px) ==
    CASE r.type = "WcBox" -> box_to_lc_region(cs, r, px)
      [] r.type = "WcEllipsoid" -> ellipsoid_to_lc_region(cs, r, px)
      [] r.type = "WcPolygon" -> polygon_to_lc_region(cs, r, px)
simple_to_lc_region(cs, r) == ByType(cs, r, PixelAxes(cs, AxisNames(r)))

\* Compounds of the regions of the lattice their parts are.
Combination(type, lc) ==
    CASE type = "WcUnion" -> LcUnion(lc[1], lc[2])
      [] type = "WcIntersection" -> LcIntersection(lc[1], lc[2])
      [] type = "WcDifference" -> LcDifference(lc[1], lc[2])
      [] type = "WcComplement" -> LcComplement(lc[1])
      [] OTHER -> lc[1]
Parts(r) ==
    IF r.type \in {"WcUnion", "WcIntersection", "WcDifference", "WcComplement"} THEN r.parts ELSE <<r>>
PartsToLattice(cs, parts) == [i \in DOMAIN parts |-> simple_to_lc_region(cs, parts[i])]
wc_to_lc_region(cs, r) == Combination(r.type, PartsToLattice(cs, Parts(r)))

lc_to_lc_region(r) ==
    CASE r.type = "LcBox" -> LcBox(r.blc, r.trc)
      [] r.type = "LcPixelSet" -> LcRegion(r.blc, r.len, r.mask)
      [] r.type = "LcEllipsoid" -> LcEllipsoid(r)
      [] r.type = "LcPolygon" -> LcPolygon(r.vertices)
      [] r.type = "LcMask" -> LcRegion(Origin, LatticeShape, r.mask)

to_lc_region(cs, r) ==
    CASE r.kind = "lc" -> lc_to_lc_region(r.region)
      [] r.kind = "wc" -> wc_to_lc_region(cs, r.region)
      [] r.kind = "slicer" ->
            LcBox(r.start, Both([d \in Axis |-> r.start[d] + r.length[d] - 1]))

Selected(r) == {p \in LatticePoint : pixel_in_region(r, p)}

----------------------------------------------------------------------------
(***************************************************************************)
(* Regions as records.                                                     *)
(***************************************************************************)
\* Positions of a box in the order of its elements, the first axis fastest.
Delinearized(n, shape) == <<n % shape[1], n \div shape[1]>>

\* Compounds write their parts, the mask of an LcMask is not written.
region_to_record(r) ==
    CASE r.type = "LcPixelSet" ->
            [type |-> r.type, blc |-> r.blc, shape |-> r.len,
             mask |-> [n \in 1..r.len[1] * r.len[2] |->
                          IF Delinearized(n - 1, r.len) \in r.mask THEN 1 ELSE 0]]
      [] r.type = "LcPolygon" ->
            [type |-> r.type, x |-> [i \in DOMAIN r.vertices |-> r.vertices[i][1]],
             y |-> [i \in DOMAIN r.vertices |-> r.vertices[i][2]]]
      [] r.type = "LcMask" -> [type |-> r.type]
      [] OTHER -> r

region_from_record(rec) ==
    CASE rec.type = "LcPixelSet" ->
            [type |-> rec.type, blc |-> rec.blc, len |-> rec.shape,
             mask |-> {Delinearized(n - 1, rec.shape) : n \in {n \in DOMAIN rec.mask : rec.mask[n] # 0}}]
      [] rec.type = "LcPolygon" ->
            [type |-> rec.type, vertices |-> [i \in DOMAIN rec.x |-> <<rec.x[i], rec.y[i]>>]]
      [] OTHER -> rec

\* Both from_record know the simple regions only.
CanBeRead(r) ==
    r.kind = "slicer" \/ r.region.type \in
        {"LcBox", "LcPixelSet", "LcEllipsoid", "LcPolygon", "WcBox", "WcEllipsoid", "WcPolygon"}

to_record(r) ==
    IF r.kind = "slicer"
    THEN [region_kind |-> r.kind, slicer_start |-> r.start, slicer_length |-> r.length]
    ELSE [region_kind |-> r.kind, region |-> region_to_record(r.region)]
from_record(rec) ==
    IF rec.region_kind = "slicer"
    THEN [kind |-> rec.region_kind, start |-> rec.slicer_start, length |-> rec.slicer_length]
    ELSE [kind |-> rec.region_kind, region |-> region_from_record(rec.region)]

----------------------------------------------------------------------------
(***************************************************************************)
(* What a program means.                                                   *)
(***************************************************************************)
\* The places <<coordinate, axis>> with a name of their own along one lattice
\* axis: axes that turn into each other have none.
Straight(c) == c.type # "linear" \/ c.pc \in {<<>>, Identity(Len(c.crval))}
Places(cs) ==
    {<<i, a>> \in (DOMAIN cs) \X Axis :
        /\ Straight(cs[i].coord) /\ a \in DOMAIN cs[i].pixel_map
        /\ cs[i].pixel_map[a] + 1 \in Axis}

\* Half pixels from one pixel before the lattice to one behind it.
Half == -2..2 * Max({LatticeShape[1], LatticeShape[2]})
ValueAlong(entry, a, q) ==
    coordinate_to_world(entry.coord, [entry.pixel_replace EXCEPT ![a] = q])
ValuesAlong(entry, a) ==
    [axis |-> entry.pixel_map[a] + 1, type |-> entry.coord.type,
     at |-> [q \in {q \in Half : /\ ValueAlong(entry, a, q) # Thrown
                                 /\ entry.coord.type = "stokes" => q % 2 = 0} |->
                ValueAlong(entry, a, q)[a]]]

\* The values along the axis of each name.
WorldOf(cs) ==
    LET name(p) == world_axis_names(cs[p[1]].coord)[p[2]]
    IN  [n \in {name(p) : p \in Places(cs)} |->
            LET p == CHOOSE p \in Places(cs) : name(p) = n IN ValuesAlong(cs[p[1]], p[2])]

\* The values at every position, of the axes that turn into each other too.
ValueAt(entry, a, p) ==
    coordinate_to_world(entry.coord,
        [k \in DOMAIN entry.pixel_map |->
            IF entry.pixel_map[k] + 1 \in Axis THEN 2 * p[entry.pixel_map[k] + 1]
            ELSE entry.pixel_replace[k]])[a]
WorldAtPositions(cs) ==
    LET kept == {<<i, a>> \in (DOMAIN cs) \X Axis :
                    a \in DOMAIN cs[i].world_map /\ cs[i].world_map[a] >= 0}
        name(k) == world_axis_names(cs[k[1]].coord)[k[2]]
    IN  [n \in {name(k) : k \in kept} |->
            LET k == CHOOSE k \in kept : name(k) = n
            IN  [p \in LatticePoint |-> ValueAt(cs[k[1]], k[2], p)]]

\* A pixel is meant when the values less than a pixel around it reach the span.
Reaches(name, p, from, to) ==
    LET w == world[name].at
        q == 2 * p[world[name].axis]
    IN  IF world[name].type = "stokes" THEN q \in DOMAIN w /\ w[q] = from
        ELSE /\ Lesser(w[q - 2], w[q + 2]) < Greater(from, to)
             /\ Greater(w[q - 2], w[q + 2]) > Lesser(from, to)

MeantByBox(box) ==
    {p \in LatticePoint : \A i \in DOMAIN box.axis_names :
        Reaches(box.axis_names[i], p, box.blc[i], box.trc[i])}

\* Inside the ellipse of world values.
MeantByEllipsoid(e) ==
    {p \in LatticePoint :
        LET off(i) == world[e.axis_names[i]].at[2 * p[i]] - e.center[i]
        IN  off(1) * off(1) * e.radii[2] * e.radii[2] + off(2) * off(2) * e.radii[1] * e.radii[1]
               <= e.radii[1] * e.radii[1] * e.radii[2] * e.radii[2]}

\* The middle of the pixel is on one side of all edges between world values.
MeantByPolygon(g) ==
    LET side(p, i) ==
            LET j == Before(i, Len(g.x))
                x == world[g.x_axis_name].at[2 * p[1] + 1]
                y == world[g.y_axis_name].at[2 * p[2] + 1]
            IN  (g.x[i] - g.x[j]) * (y - g.y[j]) - (g.y[i] - g.y[j]) * (x - g.x[j])
    IN  {p \in LatticePoint : \/ \A i \in DOMAIN g.x : side(p, i) > 0
                              \/ \A i \in DOMAIN g.x : side(p, i) < 0}

MeantByLattice(r) ==
    CASE r.type = "LcBox" -> PointsOfBox(r.blc, r.trc)
      [] r.type = "LcPixelSet" -> {p \in LatticePoint : <<p[1] - r.blc[1], p[2] - r.blc[2]>> \in r.mask}
      [] r.type = "LcEllipsoid" -> PointsOfEllipse(r)
      [] r.type = "LcPolygon" -> PointsOfPolygon(r.vertices)
      [] r.type = "LcMask" -> r.mask

----------------------------------------------------------------------------
(***************************************************************************)
(* Regions a program makes.                                                *)
(***************************************************************************)
WcBox(names, spans) ==
    [type |-> "WcBox", axis_names |-> names,
     blc |-> [i \in DOMAIN names |-> world[names[i]].at[spans[i][1]]],
     trc |-> [i \in DOMAIN names |-> world[names[i]].at[spans[i][2]]]]
WcEllipsoid(names, e) ==
    LET at(i, q) == world[names[i]].at[q]
    IN  [type |-> "WcEllipsoid", axis_names |-> names,
         center |-> [i \in Axis |-> at(i, e.center[i])],
         radii |-> [i \in Axis |-> Halved(at(i, e.center[i] + e.semi_axes[i])
                                          - at(i, e.center[i] - e.semi_axes[i]))]]
WcPolygon(names, v) ==
    [type |-> "WcPolygon", x_axis_name |-> names[1], y_axis_name |-> names[2],
     x |-> [i \in DOMAIN v |-> world[names[1]].at[v[i][1]]],
     y |-> [i \in DOMAIN v |-> world[names[2]].at[v[i][2]]]]

\* A Stokes axis has values at whole pixels only.
SpansOf(name) ==
    IF world[name].type = "stokes" THEN {<<q, q>> : q \in DOMAIN world[name].at} ELSE Spans
Boxes ==
    UNION {{WcBox(<<n>>, <<s>>) : s \in SpansOf(n)} : n \in DOMAIN world}
    \cup UNION {{WcBox(p, <<s, t>>) : s \in SpansOf(p[1]), t \in SpansOf(p[2])} :
                p \in {p \in (DOMAIN world) \X (DOMAIN world) : p[1] # p[2]}}

\* Ellipsoids and polygons name linear axes in the order of the lattice's.
LinearPairs ==
    {p \in (DOMAIN world) \X (DOMAIN world) :
        \A d \in Axis : world[p[d]].axis = d /\ world[p[d]].type = "linear"}

CompoundsOf(r, s) ==
    {[type |-> "WcUnion", parts |-> <<r, s>>], [type |-> "WcIntersection", parts |-> <<r, s>>],
     [type |-> "WcDifference", parts |-> <<r, s>>], [type |-> "WcComplement", parts |-> <<r>>]}

\* What compounds of sets of pixels are.
MeantTogether(type, points) ==
    CASE type = "WcUnion" -> points[1] \cup points[2]
      [] type = "WcIntersection" -> points[1] \cap points[2]
      [] type = "WcDifference" -> points[1] \ points[2]
      [] type = "WcComplement" -> LatticePoint \ points[1]
MeantCompound(c) == MeantTogether(c.type, [i \in DOMAIN c.parts |-> MeantByBox(c.parts[i])])

----------------------------------------------------------------------------
NoRegions == [regions |-> <<>>, default_mask |-> ""]

WorldInit ==
    /\ system \in Systems
    /\ world = WorldOf(system) /\ worldAt = WorldAtPositions(system)
    /\ handler = NoRegions /\ meant = <<>> /\ masked = <<>> /\ losses = {}
    /\ regionSteps = 0

StepTaken ==
    /\ regionSteps < MaxRegionSteps /\ regionSteps' = regionSteps + 1
    /\ UNCHANGED <<world, worldAt>>

\* define_region: a region of the same name, the default mask too, is replaced.
Redefine(name, r, points) ==
    /\ StepTaken
    /\ handler' = [handler EXCEPT !.regions = With(@, name, r)]
    /\ meant' = With(meant, name, points)
    /\ masked' = IF handler.default_mask = name THEN <<points>> ELSE masked
    /\ UNCHANGED <<system, losses>>
Define(name, r, points) == regionSteps < MaxRegions /\ Redefine(name, r, points)

DefineRegion ==
    \E name \in RegionNames :
        \/ \E box \in Boxes : Define(name, [kind |-> "wc", region |-> box], MeantByBox(box))
        \/ \E p \in LinearPairs, e \in Mids :
              \E r \in {WcEllipsoid(p, e)} :
                  Define(name, [kind |-> "wc", region |-> r], MeantByEllipsoid(r))
        \/ \E p \in LinearPairs, v \in Outlines :
              \E r \in {WcPolygon(p, v)} :
                  Define(name, [kind |-> "wc", region |-> r], MeantByPolygon(r))
        \/ \E r \in LatticeMade : Define(name, [kind |-> "lc", region |-> r], MeantByLattice(r))
        \/ \E r \in {r \in LatticeMade : r.type = "LcBox"} :
              Define(name, [kind |-> "slicer", start |-> r.blc,
                            length |-> Both([d \in Axis |-> r.trc[d] - r.blc[d] + 1])],
                     PointsOfBox(r.blc, r.trc))

\* Compounds of two boxes that have names.
BoxNames == {n \in DOMAIN handler.regions : /\ handler.regions[n].kind = "wc"
                                            /\ handler.regions[n].region.type = "WcBox"}
Compounds ==
    UNION {CompoundsOf(handler.regions[q[1]].region, handler.regions[q[2]].region) :
              q \in {q \in BoxNames \X BoxNames : q[1] # q[2]}}
DefineCompound ==
    \E name \in RegionNames, c \in Compounds :
        Redefine(name, [kind |-> "wc", region |-> c], MeantCompound(c))

SetDefaultMask ==
    \E name \in DOMAIN handler.regions :
        /\ StepTaken
        /\ handler' = [handler EXCEPT !.default_mask = name] /\ masked' = <<meant[name]>>
        /\ UNCHANGED <<system, meant, losses>>

\* The default mask goes on naming a region that is removed.
RemoveRegion ==
    \E name \in DOMAIN handler.regions :
        /\ StepTaken
        /\ handler' = [handler EXCEPT !.regions = Without(@, {name})]
        /\ meant' = Without(meant, {name})
        /\ masked' = IF handler.default_mask = name THEN <<>> ELSE masked
        /\ UNCHANGED <<system, losses>>

\* A region of the new name is lost.
rename_region(h, old, new) ==
    [regions |-> With(Without(h.regions, {old}), new, h.regions[old]),
     default_mask |-> IF h.default_mask = old THEN new ELSE h.default_mask]

RenameRegion ==
    \E old \in DOMAIN handler.regions, new \in RegionNames :
        /\ StepTaken
        /\ handler' = rename_region(handler, old, new)
        /\ meant' = With(Without(meant, {old}), new, meant[old])
        /\ masked' = IF handler.default_mask = new THEN <<meant[old]>> ELSE masked
        /\ UNCHANGED <<system, losses>>

\* The coordinates are saved and restored.
RestoreSystem ==
    /\ StepTaken
    /\ \E form \in {"this", "casacore", "old"} :
          /\ form = "old" => \A i \in DOMAIN system :
                system[i].pixel_map = SystemOf([k \in DOMAIN system |-> system[k].coord])[i].pixel_map
          /\ system' = restore(SystemInForm(save(system), form))
    /\ UNCHANGED <<handler, meant, masked, losses>>

\* The regions are saved and restored; from_record stops at the first it cannot
\* read, having put some of the others back and the name of the default mask.
TypeOf(r) == IF r.kind = "slicer" THEN r.kind ELSE r.region.type
RestoreRegions ==
    /\ StepTaken
    /\ LET saved == [n \in DOMAIN handler.regions |-> to_record(handler.regions[n])]
           read == {n \in DOMAIN saved : CanBeRead(handler.regions[n])}
       IN  \E back \in (IF read = DOMAIN saved THEN {read} ELSE SUBSET read) :
              /\ handler' = [handler EXCEPT !.regions = [n \in back |-> from_record(saved[n])]]
              /\ losses' = IF back = DOMAIN saved THEN losses
                           ELSE losses \cup {{TypeOf(handler.regions[n]) : n \in DOMAIN saved}}
    /\ UNCHANGED <<system, meant, masked>>

WorldNext ==
    \/ DefineRegion \/ DefineCompound \/ SetDefaultMask \/ RemoveRegion \/ RenameRegion
    \/ RestoreSystem \/ RestoreRegions

----------------------------------------------------------------------------
\* The world values of a position are those its axes had at first, whatever the
\* numbers of the axes and how often they were saved and restored, and lead back
\* to it, through the inverse of their matrix where axes turn into each other
\* (coordinate_system.cpp:135-200, linear_xform.cpp:20-155).
WorldIsWhereItWas ==
    \A p \in LatticePoint :
        LET pixel == [d \in 1..AxisCount(system) |-> IF d \in Axis THEN 2 * p[d] ELSE 0]
            values == to_world(system, pixel)
        IN  /\ \A n \in DOMAIN worldAt :
                  \E k \in DOMAIN values :
                      LET at == find_world_axis(system, k - 1)
                      IN  /\ at # Thrown /\ world_axis_names(system[at[1]].coord)[at[2]] = n
                          /\ values[k] = worldAt[n][p]
            /\ \A d \in Axis : to_pixel(system, values)[d] = pixel[d]

\* The documentation says that regions and their collection go to records and back
\* (image_region.hpp:350, 416).  Compounds of world regions and masks of the lattice
\* do not: from_record throws.
NeverReadBack == {"WcUnion", "WcIntersection", "WcDifference", "WcComplement", "LcMask"}
LossesExplained == \A types \in losses : types \cap NeverReadBack # {}

\* Whatever became of the regions and of the coordinates in between, a region
\* selects the pixels its world values mean - those that a position less than a
\* pixel away reaches, for a box - and the default mask is the region it was
\* (image_region.cpp:141-609, coordinate_system.cpp:107-299).  Regions that were
\* defined are there, but for a restore that met one of NeverReadBack: that one may
\* have lost any of the regions, the default mask too.
RegionsSelectTheirPixels ==
    /\ worldAt # <<>> => WorldIsWhereItWas
    /\ DOMAIN handler.regions \subseteq DOMAIN meant
    /\ losses = {} => DOMAIN handler.regions = DOMAIN meant
    /\ LossesExplained
    /\ \A n \in DOMAIN handler.regions :
          Selected(to_lc_region(system, handler.regions[n])) = meant[n]
    /\ masked # <<>> => /\ handler.default_mask \in DOMAIN meant
                        /\ masked = <<meant[handler.default_mask]>>
=============================================================================
