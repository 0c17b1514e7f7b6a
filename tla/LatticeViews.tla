----------------------------- MODULE LatticeViews -----------------------------
(***************************************************************************)
(* Arrays of pixels and the lattices made of them: LatticeArray, whose      *)
(* copies share their storage until one of them is written, and the        *)
(* ArrayLattice, SubLattice, LatticeConcat, RebinLattice and               *)
(* LatticeIterator of src/include/casacore_mini/lattice.hpp.  A program    *)
(* works on one lattice of two axes, keeps arrays it got from it, writes   *)
(* through a strided view of it and walks over that view with an iterator. *)
(***************************************************************************)
EXTENDS Integers, Sequences, FiniteSetsExt

CONSTANTS
    Shape,      \* of the lattice
    Slicers,    \* the views: [start, length, stride]
    CursorShapes,
    Factors,    \* of a RebinLattice
    PixelValues,    \* what the program writes; the pixels of its lattice are 1, 2, ...
    MaxWrites,      \* how often it writes
    Keepers,    \* variables of the program that hold an array
    NoArray     \* one that holds none

Positive == (Nat \ {0}) \X (Nat \ {0})

\* Slicer and RebinLattice throw for strides and factors that are not positive,
\* validate_slicer for a start that is negative.  Lattices, slices and cursors
\* are not empty: an iterator with an empty cursor would stay where it is.
ASSUME ViewAssumption ==
    /\ Shape \in Positive
    /\ Slicers \subseteq [start : Int \X Int, length : Positive, stride : Positive]
    /\ CursorShapes \subseteq Positive
    /\ Factors \subseteq Positive
    /\ IsFiniteSet(Keepers)
    /\ NoArray \notin Nat
    /\ MaxWrites \in Nat

VARIABLES
    storage,    \* the vectors that arrays share: contents of each in Fortran order
    data,       \* the storage of the ArrayLattice
    array,       \* the storage of each array the program keeps
    view,       \* the region of the SubLattice
    cursor,     \* the LatticeIterator over the view: requested shape and position
    expected,   \* the lattice, pixel by pixel, as the program wrote it
    expectedArray,   \* the arrays, as it got them
    written,    \* how often the program has written
    visits      \* how often the iterator has been at each pixel of the view

viewVars == <<storage, data, array, view, cursor, expected, expectedArray, written, visits>>

Dim == 1..2
Grid(shape) == (0..shape[1] - 1) \X (0..shape[2] - 1)
PerAxis(F) == <<F[1], F[2]>>
Size(shape) == shape[1] * shape[2]

Full(shape) == [start |-> <<0, 0>>, length |-> shape, stride |-> <<1, 1>>]

\* One for the lattice and for every array kept, and one for an array on its way.
Storage == 1..Cardinality(Keepers) + 2
Unwritten == [i \in 1..Size(Shape) |-> i]

ViewTypeOK ==
    /\ storage \in [Storage -> [1..Size(Shape) -> PixelValues \cup 1..Size(Shape)]]
    /\ data \in Storage
    /\ array \in [Keepers -> Storage \cup {NoArray}]
    /\ view \in Slicers \cup {Full(Shape)}
    /\ DOMAIN expected = Grid(Shape)
    /\ DOMAIN expectedArray = Keepers
    /\ written \in 0..MaxWrites
    /\ DOMAIN visits = Grid(view.length)

----------------------------------------------------------------------------
(***************************************************************************)
(* Fortran order, and slices in it.  An array is its shape and its values. *)
(***************************************************************************)
fortran_strides(shape) == <<1, shape[1]>>
linear_index(index, strides) == index[1] * strides[1] + index[2] * strides[2]
delinearize(offset, shape) == <<offset % shape[1], (offset \div shape[1]) % shape[2]>>

LatticeArray(shape, flat) == [shape |-> shape, flat |-> flat]
At(a, index) == a.flat[linear_index(index, fortran_strides(a.shape)) + 1]

validate_slicer(s, shape) ==
    \A d \in Dim : s.start[d] >= 0 /\ s.start[d] + (s.length[d] - 1) * s.stride[d] < shape[d]

\* strided_fortran_copy and strided_fortran_scatter go on by one step along the
\* first axis, and back by all of them along an axis that is through: where
\* they are for each element of the slice, counted from 0.
StridedOffsets(s, shape) ==
    LET strides == fortran_strides(shape)
        step == PerAxis([d \in Dim |-> s.stride[d] * strides[d]])
        wraps(n) == n % s.length[1] = 0
        offset[n \in 0..Size(s.length) - 1] ==
            IF n = 0 THEN linear_index(s.start, strides)
            ELSE offset[n - 1] + step[1]
                 + (IF wraps(n) THEN step[2] - s.length[1] * step[1] ELSE 0)
    IN  offset

GetSlice(a, s) ==
    LET offset == StridedOffsets(s, a.shape)
    IN  LatticeArray(s.length, [i \in 1..Size(s.length) |-> a.flat[offset[i - 1] + 1]])

PutSlice(flat, shape, source, s) ==
    LET offset == StridedOffsets(s, shape)
    IN  [i \in DOMAIN flat |->
            LET from == {n \in DOMAIN offset : offset[n] = i - 1}
            IN  IF from = {} THEN flat[i] ELSE source.flat[Max(from) + 1]]

----------------------------------------------------------------------------
(***************************************************************************)
(* Shared storage.                                                         *)
(***************************************************************************)
Users(id) == (IF data = id THEN 1 ELSE 0) + Cardinality({k \in Keepers : array[k] = id})
Fresh == CHOOSE id \in Storage : Users(id) = 0 /\ \A j \in Storage : Users(j) = 0 => id <= j

\* Mutant: put_slice and put_at write the storage they share.
write_shared(flat) ==
    storage' = [storage EXCEPT ![data] = flat] /\ data' = data

\* make_unique, then new values: a storage that is shared is copied before.
\* One that is no array's any more is gone.
make_unique_and_write(flat) ==
    IF Users(data) = 1
    THEN storage' = [storage EXCEPT ![data] = flat] /\ data' = data
    ELSE storage' = [storage EXCEPT ![Fresh] = flat] /\ data' = Fresh

Lattice == LatticeArray(Shape, storage[data])

----------------------------------------------------------------------------
(***************************************************************************)
(* SubLattice.                                                             *)
(***************************************************************************)
to_parent_index(local) ==
    PerAxis([d \in Dim |-> view.start[d] + local[d] * view.stride[d]])

to_parent_slicer(s) ==
    [start |-> PerAxis([d \in Dim |-> view.start[d] + s.start[d] * view.stride[d]]),
     length |-> s.length,
     stride |-> PerAxis([d \in Dim |-> s.stride[d] * view.stride[d]])]

sub_get == GetSlice(Lattice, view)
sub_get_at(where) == At(Lattice, to_parent_index(where))
sub_get_slice(s) == GetSlice(Lattice, to_parent_slicer(s))

----------------------------------------------------------------------------
(***************************************************************************)
(* LatticeConcat of the view, the lattice and the view along an axis, when *)
(* their shapes allow it.                                                  *)
(***************************************************************************)
Parts == <<sub_get, Lattice, sub_get>>
CanConcat(axis) == \A d \in Dim \ {axis} : view.length[d] = Shape[d]

offsets(axis) ==
    [i \in DOMAIN Parts |-> IF i = 1 THEN 0 ELSE
        IF i = 2 THEN Parts[1].shape[axis] ELSE Parts[1].shape[axis] + Parts[2].shape[axis]]

ConcatShape(axis) == [Shape EXCEPT ![axis] = 2 * view.length[axis] + Shape[axis]]

locate(axis, global_pos) ==
    LET holds(i) == global_pos < offsets(axis)[i] + Parts[i].shape[axis]
        i == Min({j \in DOMAIN Parts : holds(j)})
    IN  [part |-> i, pos |-> global_pos - offsets(axis)[i]]

concat_get_at(axis, where) ==
    LET found == locate(axis, where[axis])
    IN  At(Parts[found.part], [where EXCEPT ![axis] = found.pos])

\* Every part is put into the result at its offset.
concat_get(axis) ==
    LET shape == ConcatShape(axis)
        Start(i) == [<<0, 0>> EXCEPT ![axis] = offsets(axis)[i]]
        Place(i, flat) == PutSlice(flat, shape, Parts[i],
                             [start |-> Start(i), length |-> Parts[i].shape, stride |-> <<1, 1>>])
    IN  LatticeArray(shape, Place(3, Place(2, Place(1, [i \in 1..Size(shape) |-> 0]))))

----------------------------------------------------------------------------
(***************************************************************************)
(* RebinLattice: the pixels of a bin, whose mean is its value.             *)
(***************************************************************************)
RebinShape(f) == PerAxis([d \in Dim |-> (Shape[d] + f[d] - 1) \div f[d]])

\* The elements of the bin one after another, from its lower corner.
Bin(f, out_pos) ==
    LET lo == PerAxis([d \in Dim |-> out_pos[d] * f[d]])
        extent == PerAxis([d \in Dim |->
                      (IF lo[d] + f[d] < Shape[d] THEN lo[d] + f[d] ELSE Shape[d]) - lo[d]])
    IN  [b \in 1..Size(extent) |->
            PerAxis([d \in Dim |-> lo[d] + delinearize(b - 1, extent)[d]])]

----------------------------------------------------------------------------
ViewInit ==
    /\ storage = [id \in Storage |-> Unwritten] /\ data = 1
    /\ array = [k \in Keepers |-> NoArray]
    /\ view = Full(Shape) /\ cursor = [requested |-> Shape, position |-> <<0, 0>>]
    /\ expected = [p \in Grid(Shape) |-> Unwritten[linear_index(p, fortran_strides(Shape)) + 1]]
    /\ written = 0
    /\ expectedArray = [k \in Keepers |-> Unwritten]
    /\ visits = [p \in Grid(Shape) |-> 0]

\* A SubLattice of the lattice, and a LatticeIterator over it.  Until then the
\* iterator is over the whole lattice.
MakeView(slicer, requested) ==
    /\ view = Full(Shape) /\ validate_slicer(slicer, Shape)
    /\ view' = slicer
    /\ cursor' = [requested |-> requested, position |-> <<0, 0>>]
    /\ visits' = [p \in Grid(slicer.length) |-> 0]
    /\ UNCHANGED <<storage, data, array, expected, expectedArray, written>>

CanWrite == written < MaxWrites /\ written' = written + 1

\* The program gets the whole array, which shares the lattice's storage, or
\* gives one up.
KeepArray(k) ==
    /\ array[k] = NoArray
    /\ array' = [array EXCEPT ![k] = data]
    /\ expectedArray' = [expectedArray EXCEPT ![k] =
          [i \in 1..Size(Shape) |-> expected[delinearize(i - 1, Shape)]]]
    /\ UNCHANGED <<storage, data, view, cursor, expected, written, visits>>

\* The storage nobody uses any more is blanked here only.
DropArray(k) ==
    /\ array[k] # NoArray
    /\ array' = [array EXCEPT ![k] = NoArray]
    /\ storage' = IF Users(array[k]) > 1 THEN storage
                  ELSE [storage EXCEPT ![array[k]] = Unwritten]
    /\ expectedArray' = [expectedArray EXCEPT ![k] = Unwritten]
    /\ UNCHANGED <<data, view, cursor, expected, written, visits>>

\* ArrayLattice::put of a kept array: the lattice takes over its storage, then
\* makes it its own.
PutArray(k) ==
    /\ array[k] # NoArray /\ CanWrite
    /\ LET gone == Users(data) = 1 /\ array[k] # data
       IN  /\ data' = IF gone THEN data ELSE Fresh
           /\ storage' = [storage EXCEPT ![data'] = storage[array[k]]]
    /\ expected' = [p \in Grid(Shape) |->
                       expectedArray[k][linear_index(p, fortran_strides(Shape)) + 1]]
    /\ UNCHANGED <<array, view, cursor, expectedArray, visits>>

\* SubLattice::put_at, through to the lattice.
SubPutAt(where, value) ==
    /\ CanWrite
    /\ make_unique_and_write([storage[data] EXCEPT
          ![linear_index(to_parent_index(where), fortran_strides(Shape)) + 1] = value])
    /\ expected' = [expected EXCEPT ![to_parent_index(where)] = value]
    /\ UNCHANGED <<array, view, cursor, expectedArray, visits>>

Fill(shape, value) == LatticeArray(shape, [i \in 1..Size(shape) |-> value])

\* LatticeIterator: the cursor is cut off at the edges of the view.
cursor_shape ==
    PerAxis([d \in Dim |-> IF cursor.requested[d] < view.length[d] - cursor.position[d]
                           THEN cursor.requested[d]
                           ELSE view.length[d] - cursor.position[d]])
at_end == \E d \in Dim : cursor.position[d] >= view.length[d]

\* operator++: an axis that is through starts again, when all are it is over.
Advance ==
    LET Step(d) == cursor.position[d] + cursor.requested[d]
    IN  IF Step(1) < view.length[1] THEN <<Step(1), cursor.position[2]>>
        ELSE IF Step(2) < view.length[2] THEN <<0, Step(2)>>
        ELSE view.length

\* The program fills the cursor, or only looks at it, and goes on.
WriteCursor(value) ==
    LET s == [start |-> cursor.position, length |-> cursor_shape, stride |-> <<1, 1>>]
    IN  /\ CanWrite
        /\ make_unique_and_write(PutSlice(storage[data], Shape, Fill(cursor_shape, value),
                                          to_parent_slicer(s)))
        /\ expected' = [p \in Grid(Shape) |->
              IF \E q \in Grid(cursor_shape) :
                    p = to_parent_index(PerAxis([d \in Dim |-> cursor.position[d] + q[d]]))
              THEN value ELSE expected[p]]

Iterate ==
    /\ ~at_end
    /\ (\E value \in PixelValues : WriteCursor(value)) \/ UNCHANGED <<storage, data, expected, written>>
    /\ visits' = [p \in Grid(view.length) |->
          visits[p] + (IF \A d \in Dim : p[d] - cursor.position[d] \in 0..cursor_shape[d] - 1
                       THEN 1 ELSE 0)]
    /\ cursor' = [cursor EXCEPT !.position = Advance]
    /\ UNCHANGED <<array, view, expectedArray>>

ResetIterator ==
    /\ cursor.position # <<0, 0>>
    /\ cursor' = [cursor EXCEPT !.position = <<0, 0>>]
    /\ visits' = [p \in Grid(view.length) |-> 0]
    /\ UNCHANGED <<storage, data, array, view, expected, expectedArray, written>>

ViewNext ==
    \/ \E k \in Keepers : KeepArray(k) \/ DropArray(k) \/ PutArray(k)
    \/ \E where \in Grid(view.length), value \in PixelValues : SubPutAt(where, value)
    \/ \E slicer \in Slicers, requested \in CursorShapes : MakeView(slicer, requested)
    \/ Iterate \/ ResetIterator

ViewSpec == ViewInit /\ [][ViewNext]_viewVars

----------------------------------------------------------------------------
\* The slices of the view that lie in it.
SlicesOfView == {s \in Slicers : validate_slicer(s, view.length)}

Shows(a, F) == \A p \in Grid(a.shape) : At(a, p) = F[p]

ViewsShowTheirParent ==
    LET ofView == [p \in Grid(view.length) |-> expected[to_parent_index(p)]]
    IN  /\ Shows(sub_get, ofView)
        /\ \A p \in Grid(view.length) : sub_get_at(p) = ofView[p]
        /\ \A s \in SlicesOfView :
              Shows(sub_get_slice(s), [p \in Grid(s.length) |->
                 ofView[PerAxis([d \in Dim |-> s.start[d] + p[d] * s.stride[d]])]])
        /\ \A axis \in Dim : CanConcat(axis) =>
              LET all == [p \in Grid(ConcatShape(axis)) |->
                     LET n == view.length[axis]
                         q == [p EXCEPT ![axis] = @ - n]
                         r == [p EXCEPT ![axis] = @ - n - Shape[axis]]
                     IN  IF p[axis] < n THEN ofView[p]
                         ELSE IF q[axis] < Shape[axis] THEN expected[q] ELSE ofView[r]]
              IN  /\ Shows(concat_get(axis), all)
                  /\ \A p \in Grid(ConcatShape(axis)) : concat_get_at(axis, p) = all[p]
        /\ \A f \in Factors : \A p \in Grid(Shape) :
              Cardinality({b \in Grid(RebinShape(f)) \X (1..Size(f)) :
                 b[2] \in DOMAIN Bin(f, b[1]) /\ Bin(f, b[1])[b[2]] = p}) = 1

\* Every array is a value of its own, however storage is shared: an array the
\* program keeps stays what it was when it got it (lattice_array.hpp:46), and
\* the lattice, its strided views, concatenations and bins show what was written
\* last through any of them, pixel by pixel.
LatticesAreValues ==
    /\ Shows(Lattice, expected)
    /\ \A k \in Keepers : array[k] # NoArray => storage[array[k]] = expectedArray[k]
    /\ ViewsShowTheirParent

\* An iterator whose cursor does not divide the shape is cut off at the edges,
\* and has been at every pixel exactly once when it is at the end.
IteratorVisitsOnce ==
    /\ \A p \in DOMAIN visits : visits[p] <= 1
    /\ at_end => \A p \in DOMAIN visits : visits[p] = 1

\* However storage is shared, arrays a program keeps stay what they were, and a
\* lattice, its strided views, concatenations and bins show what was written
\* last through any of them.
ViewsAreValues == ViewInit \/ (LatticesAreValues /\ IteratorVisitsOnce)
=============================================================================
