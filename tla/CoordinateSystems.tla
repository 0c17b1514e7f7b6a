------------------------- MODULE CoordinateSystems -------------------------
(***************************************************************************)
(* World coordinates of the pixels of an image: linear, spectral, Stokes   *)
(* and tabular coordinates (src/src/linear_coordinate.cpp with             *)
(* linear_xform.cpp, spectral_coordinate.cpp, stokes_coordinate.cpp,       *)
(* tabular_coordinate.cpp) and the system that gives each of their axes a  *)
(* number (coordinate_system.cpp).  Numbers are doubles, counted in halves *)
(* of a pixel or of a world unit; axis numbers count from 0, vectors from  *)
(* 1.  A call that throws gives <<>>.  A saved coordinate is a record; a   *)
(* saved system a function from keys <<prefix, number>>.                   *)
(***************************************************************************)
EXTENDS Integers, SequencesExt

Thrown == <<>>
\* Inverse and rounding of the cases that come out even.
Quotient(a, b) == IF b < 0 THEN (-a) \div (-b) ELSE a \div b

----------------------------------------------------------------------------
(***************************************************************************)
(* Coordinates.                                                            *)
(***************************************************************************)
LinearCoordinate(names, crval, crpix, cdelt, pc) ==
    [type |-> "linear", names |-> names, crval |-> crval, crpix |-> crpix,
     cdelt |-> cdelt, pc |-> pc]
SpectralCoordinate(crval, cdelt, crpix) ==
    [type |-> "spectral", crval |-> crval, cdelt |-> cdelt, crpix |-> crpix]
StokesCoordinate(codes) == [type |-> "stokes", stokes |-> codes]
TabularCoordinate(pixels, worlds, name) ==
    [type |-> "tabular", pixels |-> pixels, worlds |-> worlds, name |-> name]

world_axis_names(c) ==
    CASE c.type = "linear" -> c.names
      [] c.type = "spectral" -> <<"Frequency">>
      [] c.type = "stokes" -> <<"Stokes">>
      [] c.type = "tabular" -> <<c.name>>

reference_value(c) ==
    CASE c.type = "linear" -> c.crval
      [] c.type = "spectral" -> <<c.crval>>
      [] c.type = "stokes" -> <<2 * c.stokes[1]>>
      [] c.type = "tabular" -> <<c.worlds[1]>>

\* cdelt times pc, the identity when there is none.
Product(c) ==
    [i \in DOMAIN c.crval |->
        [j \in DOMAIN c.crval |->
            c.cdelt[i] * (IF c.pc # <<>> THEN c.pc[i][j] ELSE IF i = j THEN 1 ELSE 0)]]

Applied(m, v) == [i \in DOMAIN m |-> MapThenSumSet(LAMBDA j : m[i][j] * v[j], DOMAIN v)]
Plus(v, w) == [i \in DOMAIN v |-> v[i] + w[i]]
Minus(v, w) == [i \in DOMAIN v |-> v[i] - w[i]]

Determinant(m) ==
    IF Len(m) = 1 THEN m[1][1] ELSE m[1][1] * m[2][2] - m[1][2] * m[2][1]
\* The inverse times the determinant.
Adjoint(m) ==
    IF Len(m) = 1 THEN <<<<1>>>> ELSE <<<<m[2][2], -m[1][2]>>, <<-m[2][1], m[1][1]>>>>

pixel_to_world(c, pixel) == Plus(c.crval, Applied(Product(c), Minus(pixel, c.crpix)))

world_to_pixel(c, world) ==
    IF Determinant(Product(c)) = 0 THEN Thrown
    ELSE Plus(c.crpix, [i \in DOMAIN world |->
                Quotient(Applied(Adjoint(Product(c)), Minus(world, c.crval))[i],
                         Determinant(Product(c)))])

\* The line through two points of a table, flat where they have one x.
Line(xs, ys, i, x) ==
    IF xs[i + 1] = xs[i] THEN ys[i]
    ELSE ys[i] + Quotient((x - xs[i]) * (ys[i + 1] - ys[i]), xs[i + 1] - xs[i])

FirstPiece(n, Holds(_)) == IF \E i \in 1..n : Holds(i) THEN CHOOSE i \in 1..n :
                              Holds(i) /\ \A k \in 1..i - 1 : ~Holds(k) ELSE n

\* Beyond either end the first or the last piece goes on.
TabularPiece(c, p) ==
    IF p <= c.pixels[1] THEN 1
    ELSE FirstPiece(Len(c.pixels) - 1, LAMBDA i : p >= c.pixels[i] /\ p <= c.pixels[i + 1])

\* The world values rise or fall all along.
TabularWorldPiece(c, w) ==
    LET up == IF Last(c.worlds) > c.worlds[1] THEN 1 ELSE -1
    IN  IF up * w < up * c.worlds[1] THEN 1
        ELSE FirstPiece(Len(c.worlds) - 1,
                        LAMBDA i : up * w >= up * c.worlds[i] /\ up * w <= up * c.worlds[i + 1])

coordinate_to_world(c, pixel) ==
    CASE c.type = "linear" -> pixel_to_world(c, pixel)
      [] c.type = "spectral" -> <<c.crval + c.cdelt * (pixel[1] - c.crpix)>>
      [] c.type = "stokes" ->
            IF (pixel[1] + 1) \div 2 \in 0..Len(c.stokes) - 1
            THEN <<2 * c.stokes[(pixel[1] + 1) \div 2 + 1]>> ELSE Thrown
      [] c.type = "tabular" -> <<Line(c.pixels, c.worlds, TabularPiece(c, pixel[1]), pixel[1])>>

coordinate_to_pixel(c, world) ==
    CASE c.type = "linear" -> world_to_pixel(c, world)
      [] c.type = "spectral" ->
            IF c.cdelt = 0 THEN Thrown ELSE <<c.crpix + Quotient(world[1] - c.crval, c.cdelt)>>
      [] c.type = "stokes" ->
            IF \E i \in DOMAIN c.stokes : 2 * c.stokes[i] = world[1]
            THEN <<2 * (Min({i \in DOMAIN c.stokes : 2 * c.stokes[i] = world[1]}) - 1)>>
            ELSE Thrown
      [] c.type = "tabular" ->
            <<Line(c.worlds, c.pixels, TabularWorldPiece(c, world[1]), world[1])>>

----------------------------------------------------------------------------
(***************************************************************************)
(* Coordinates as records: what this program writes, what casacore writes  *)
(* (no coordinate_type) and what older versions of this program wrote.     *)
(***************************************************************************)
Identity(n) == [i \in 1..n |-> [j \in 1..n |-> IF i = j THEN 1 ELSE 0]]

save_coordinate(c) ==
    CASE c.type = "linear" ->
            [coordinate_type |-> "linear", crval |-> c.crval, crpix |-> c.crpix,
             cdelt |-> c.cdelt, axes |-> c.names,
             pc |-> IF c.pc = <<>> THEN Identity(Len(c.crval)) ELSE c.pc]
      [] c.type = "spectral" ->
            [coordinate_type |-> "spectral", version |-> 2,
             wcs |-> [crval |-> c.crval, crpix |-> c.crpix, cdelt |-> c.cdelt]]
      [] c.type = "stokes" -> [coordinate_type |-> "stokes", stokes |-> c.stokes]
      [] c.type = "tabular" ->
            [coordinate_type |-> "tabular", crval |-> <<c.worlds[1]>>, crpix |-> <<c.pixels[1]>>,
             axes |-> <<c.name>>, pixelvalues |-> c.pixels, worldvalues |-> c.worlds]

Without(rec, fields) == [f \in DOMAIN rec \ fields |-> rec[f]]
With(rec, field, value) == [f \in DOMAIN rec \cup {field} |-> IF f = field THEN value ELSE rec[f]]

\* External: the same coordinate written by casacore, or long ago.
InForm(rec, form) ==
    CASE form = "casacore" -> Without(rec, {"coordinate_type"})
      [] form = "old" /\ rec.coordinate_type = "linear" ->
            With(Without(rec, IF rec.pc = Identity(Len(rec.crval)) THEN {"axes", "pc"} ELSE {"axes"}),
                 "names", rec.axes)
      [] form = "old" /\ rec.coordinate_type = "spectral" ->
            [coordinate_type |-> "spectral", crval |-> rec.wcs.crval, crpix |-> rec.wcs.crpix,
             cdelt |-> rec.wcs.cdelt]
      [] form = "old" /\ rec.coordinate_type = "tabular" ->
            With(Without(rec, {"axes"}), "name", rec.axes[1])
      [] OTHER -> rec

FieldOr(rec, name, default) == IF name \in DOMAIN rec THEN rec[name] ELSE default

linear_from_record(rec) ==
    LinearCoordinate(FieldOr(rec, "axes", FieldOr(rec, "names", <<>>)), FieldOr(rec, "crval", <<>>),
                     FieldOr(rec, "crpix", <<>>), FieldOr(rec, "cdelt", <<>>), FieldOr(rec, "pc", <<>>))
spectral_from_record(rec) ==
    LET wcs == FieldOr(rec, "wcs", rec)
    IN  SpectralCoordinate(FieldOr(wcs, "crval", 0), FieldOr(wcs, "cdelt", 1), FieldOr(wcs, "crpix", 0))
tabular_from_record(rec) ==
    TabularCoordinate(FieldOr(rec, "pixelvalues", <<>>), FieldOr(rec, "worldvalues", <<>>),
                      FieldOr(rec, "axes", <<FieldOr(rec, "name", "")>>)[1])

\* The type the record says, or the one its key says.
restore_coordinate(rec, type_hint) ==
    LET type == FieldOr(rec, "coordinate_type", type_hint)
    IN  CASE type = "linear" -> linear_from_record(rec)
          [] type = "spectral" -> spectral_from_record(rec)
          [] type = "stokes" -> StokesCoordinate(rec.stokes)
          [] type = "tabular" -> tabular_from_record(rec)

----------------------------------------------------------------------------
(***************************************************************************)
(* The system: every coordinate with the number of each of its axes in the *)
(* system, -1 for one that was removed, and what stands in for it.         *)
(***************************************************************************)
AxisCount(cs) == MapThenSumSet(LAMBDA i : Len(world_axis_names(cs[i].coord)), DOMAIN cs)
Zeros(n) == [i \in 1..n |-> 0]

add_coordinate(cs, c) ==
    LET n == Len(world_axis_names(c))
        numbers == [i \in 1..n |-> AxisCount(cs) + i - 1]
    IN  Append(cs, [coord |-> c, world_map |-> numbers, pixel_map |-> numbers,
                    world_replace |-> Zeros(n), pixel_replace |-> Zeros(n)])

SystemOf(coordinates) == FoldLeft(add_coordinate, <<>>, coordinates)

\* Where the axis with a number is: <<coordinate, axis>>, the first of them.
PlacesOf(cs, map, axis) ==
    {<<i, a>> \in (DOMAIN cs) \X (1..2) : a \in DOMAIN map[i] /\ map[i][a] = axis}
Maps(cs, which) == [i \in DOMAIN cs |-> cs[i][which]]
find_axis(cs, which, axis) ==
    LET found == PlacesOf(cs, Maps(cs, which), axis)
    IN  IF found = {} THEN Thrown
        ELSE CHOOSE p \in found : \A q \in found : p[1] < q[1] \/ (p[1] = q[1] /\ p[2] <= q[2])
find_world_axis(cs, axis) == find_axis(cs, "world_map", axis)
find_pixel_axis(cs, axis) == find_axis(cs, "pixel_map", axis)

\* The values of a coordinate's axes among those of the system.
Gathered(map, values, replace) ==
    [a \in DOMAIN map |-> IF map[a] \in 0..Len(values) - 1 THEN values[map[a] + 1] ELSE replace[a]]

Scattered(cs, which, found) ==
    IF \E i \in DOMAIN cs : found[i] = Thrown THEN Thrown
    ELSE [k \in 1..AxisCount(cs) |->
             LET at == find_axis(cs, which, k - 1)
             IN  IF at = Thrown THEN 0 ELSE found[at[1]][at[2]]]

to_world(cs, pixel) ==
    Scattered(cs, "world_map",
        [i \in DOMAIN cs |-> coordinate_to_world(cs[i].coord,
            Gathered(cs[i].pixel_map, pixel, cs[i].pixel_replace))])

to_pixel(cs, world) ==
    Scattered(cs, "pixel_map",
        [i \in DOMAIN cs |-> coordinate_to_pixel(cs[i].coord,
            Gathered(cs[i].world_map, world, cs[i].world_replace))])

----------------------------------------------------------------------------
MapKeys == {"world_map", "pixel_map", "world_replace", "pixel_replace"}

save(cs) ==
    [key \in {<<cs[i].coord.type, i - 1>> : i \in DOMAIN cs} \cup (MapKeys \X (0..Len(cs) - 1)) |->
        IF key[1] \in MapKeys THEN cs[key[2] + 1][key[1]]
        ELSE save_coordinate(cs[key[2] + 1].coord)]

\* External: a saved system with its coordinates in another form; old ones had
\* no maps, which only numbers in order do without.
SystemInForm(saved, form) ==
    [key \in (IF form = "old" THEN {k \in DOMAIN saved : k[1] \notin MapKeys} ELSE DOMAIN saved) |->
        IF key[1] \in MapKeys THEN saved[key] ELSE InForm(saved[key], form)]

CoordinateKeys == {"linear", "spectral", "stokes", "tabular"}

\* Mutant: the numbers are given anew.
RestoredEntryNumbered(cs, rec, i) ==
    Last(add_coordinate(cs, restore_coordinate(
             rec[CHOOSE k \in DOMAIN rec : k[1] \in CoordinateKeys /\ k[2] = i],
             (CHOOSE k \in DOMAIN rec : k[1] \in CoordinateKeys /\ k[2] = i)[1])))

RestoredEntry(cs, rec, i) ==
    LET key == CHOOSE k \in DOMAIN rec : k[1] \in CoordinateKeys /\ k[2] = i
        made == Last(add_coordinate(cs, restore_coordinate(rec[key], key[1])))
    IN  [f \in DOMAIN made |->
            IF f \in MapKeys /\ <<f, i>> \in DOMAIN rec THEN rec[<<f, i>>] ELSE made[f]]

\* Coordinates are looked for at 0, 1, ... until there is none.
restore(rec) ==
    LET numbers == {k[2] : k \in {k \in DOMAIN rec : k[1] \in CoordinateKeys}}
        count == CHOOSE n \in 0..Cardinality(numbers) : n \notin numbers /\ 0..n - 1 \subseteq numbers
    IN  FoldLeft(LAMBDA cs, i : Append(cs, RestoredEntry(cs, rec, i - 1)), <<>>,
                 [i \in 1..count |-> i])
=============================================================================
