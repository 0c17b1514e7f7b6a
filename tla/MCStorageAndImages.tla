------------------------- MODULE MCStorageAndImages -------------------------
(***************************************************************************)
(* The storage managers, and the lattices and images above them, which are *)
(* tables of the tiled one: each is followed while the others rest.        *)
(***************************************************************************)
EXTENDS MCStorageManagers, PagedImage, LatticeViews, LatticeRegions

----------------------------------------------------------------------------
(* Images on disk, lattices and their views, regions.                      *)
\* The lattice of the views, and views with and without gaps; those that fit
\* into another one are also taken as slices of it.
ViewShape == <<3, 2>>
SomeSlicers ==
    LET Slicer(start, length, stride) == [start |-> start, length |-> length, stride |-> stride]
        One == <<1, 1>>
    IN  {Slicer(<<0, 0>>, <<3, 2>>, One), Slicer(<<0, 0>>, <<2, 2>>, <<2, 1>>),
         Slicer(<<1, 0>>, <<2, 1>>, One), Slicer(<<0, 1>>, <<2, 1>>, One),
         Slicer(<<0, 0>>, <<1, 2>>, One), Slicer(<<2, 0>>, <<1, 2>>, One)}
SomeCursorShapes == {<<2, 1>>, <<1, 3>>}
SomeFactors == {<<2, 1>>, <<4, 2>>}

\* The lattice of the regions; one corner is outside of it, one pixel set and
\* two polygons hang over its edge, one ellipse is flat.
RegionShape == <<3, 3>>
SomeCorners == {<<0, 1>>, <<1, 0>>, <<2, 1>>, <<1, 2>>, <<4, 3>>}
SomePixelSets ==
    {[blc |-> <<1, 0>>, len |-> <<2, 2>>, mask |-> {<<0, 0>>, <<1, 1>>}],
     [blc |-> <<2, 2>>, len |-> <<2, 1>>, mask |-> {<<0, 0>>, <<1, 0>>}]}
SomeEllipses ==
    {[center |-> <<2, 2>>, semi_axes |-> <<2, 2>>], [center |-> <<3, 1>>, semi_axes |-> <<3, 1>>],
     [center |-> <<5, 2>>, semi_axes |-> <<0, 3>>]}
SomePolygons ==
    {<<<<0, 0>>, <<4, 0>>, <<4, 4>>, <<0, 4>>>>, <<<<-1, 2>>, <<2, -1>>, <<7, 2>>, <<2, 7>>>>,
     <<<<0, 6>>, <<7, 0>>, <<8, 7>>>>}

imagesVars == <<imageVars, viewVars, regionVars>>

ImagesInit == ImageInit /\ ViewInit /\ RegionInit

ImagesNext ==
    \/ ViewInit /\ RegionInit /\ ImageNext /\ UNCHANGED <<viewVars, regionVars>>
    \/ ImageInit /\ RegionInit /\ ViewNext /\ UNCHANGED <<imageVars, regionVars>>
    \/ ImageInit /\ ViewInit /\ RegionNext /\ UNCHANGED <<imageVars, viewVars>>

ImagesTypesOK == ImageTypeOK /\ ViewTypeOK /\ RegionTypeOK

----------------------------------------------------------------------------
(* All of them.                                                            *)

AllVars == <<storageVars, imagesVars>>

AllInit == StorageInit /\ ImagesInit

AllNext ==
    \/ ImagesInit /\ NextOne /\ UNCHANGED <<creatorOnly, imagesVars>>
    \/ /\ creatorOnly /\ IsmRests /\ ArraysRest /\ SsmRests /\ TiledRests /\ LockInit
       /\ ImagesNext /\ UNCHANGED storageVars

AllSpec == AllInit /\ [][AllNext]_AllVars

AllTypesOK == TypesOK /\ ImagesTypesOK
=============================================================================
