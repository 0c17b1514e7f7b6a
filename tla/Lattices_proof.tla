--------------------------- MODULE Lattices_proof ---------------------------
(***************************************************************************)
(* Proofs about PagedImage for every set of pixels, masks and metadata,    *)
(* about LatticeRegions for every lattice and every set of boxes, masks,   *)
(* ellipsoids and convex polygons, and about LatticeViews for every        *)
(* lattice of two axes, its slices, cursors and bins, and every set of     *)
(* pixel values and of variables that hold arrays.                         *)
(*                                                                         *)
(* Neither property of the image runs is inductive: what is on disk after  *)
(* a crash depends on how far the call was that the process died in.  So   *)
(* the inductive invariant ImageInv follows every call write by write:     *)
(* which writes can be left (CallsKnown), what a new image and a flush     *)
(* have on disk between their two files (NewImage, Flushing), what the two *)
(* files of the image say of the last flush (DatIsFlushed, MapIsFlushed)   *)
(* and what each mask's table holds (MasksAreWhole).                       *)
(*                                                                         *)
(* RegionsInv adds to RegionIsItsSet that the regions are records over     *)
(* integers.  The work is in the operators: that no point of a region is   *)
(* lost by the box its maker gives it, and that casting a ray tells the    *)
(* inside of a convex polygon.  The latter goes round the outline, by      *)
(* induction as the existence of a least number, and from there by the     *)
(* signs of a few integer identities.                                      *)
(*                                                                         *)
(* ViewsHold says of every storage whose it is (SharingHolds), that the    *)
(* view is a part of the lattice (ViewLies) and which pixels the iterator  *)
(* has passed at its position (IteratorIs).  What the views show follows   *)
(* from it: the running offsets of a slice are the places of its elements  *)
(* (OffsetsOfSlice), a slice of a slice is a slice of the same elements    *)
(* (SliceOfView), the parts of a concatenation are apart and leave nothing *)
(* out (ConcatLies), and a pixel is in one bin (InOneBin).                 *)
(***************************************************************************)
EXTENDS PagedImage, LatticeRegions, LatticeViews, FiniteSetTheorems, WellFoundedInduction, TLAPS

\* The writes left when the first one of a call has been done, and so on.
CreateWrites1 == <<[file |-> "map"]>>
FlushWrites1 == <<[file |-> "dat"]>>
MaskWrites3(name, mask_data) ==
    <<[file |-> "maskMap", name |-> name, data |-> Nothing],
      [file |-> "maskMap", name |-> name, data |-> mask_data],
      [file |-> "maskDat", name |-> name]>>
MaskWrites2(name, mask_data) ==
    <<[file |-> "maskMap", name |-> name, data |-> mask_data],
      [file |-> "maskDat", name |-> name]>>
MaskWrites1(name) == <<[file |-> "maskDat", name |-> name]>>

\* The writes s are some that make_mask of m has left.
MakesMask(s, m) ==
    \/ \E flags \in MaskData : s \in {MaskWrites(m, flags), MaskWrites3(m, flags),
                                     MaskWrites2(m, flags)}
    \/ s = MaskWrites1(m)

ImageFileWrites == {CreateWrites, CreateWrites1, FlushWrites, FlushWrites1}

Calling ==
    \/ pendingWrites \in ImageFileWrites
    \/ \E m \in Mask : MakesMask(pendingWrites, m)

CallsKnown ==
    /\ pendingWrites = <<>> \/ Calling
    /\ image.mode # "rw" => pendingWrites = <<>>
    /\ image.mode = "rw" => put_pixels = image.pixels

NewImage ==
    /\ pendingWrites \in {CreateWrites, CreateWrites1} => image = [Closed EXCEPT !.mode = "rw"]
    /\ pendingWrites = CreateWrites => imageDat.state = "none"
    /\ pendingWrites = CreateWrites1 => imageDat = [NoDat EXCEPT !.state = "ok"]
    /\ imageDat.state = "none" => flushed.units = NoUnits /\ flushed.default = NoMask

DatIsFlushed ==
    imageDat.state = "ok" =>
        /\ imageDat.units = flushed.units /\ imageDat.default = flushed.default
        /\ attempts = {} /\ pendingWrites # CreateWrites1 => imageMap.state = "ok"

MapIsFlushed ==
    /\ pendingWrites = FlushWrites1 => imageMap = [state |-> "ok", pixels |-> image.pixels]
    /\ imageMap.state = "ok" =>
          \/ imageMap.pixels \in {flushed.pixels} \cup attempts
          \/ pendingWrites = FlushWrites1

MasksAreWhole ==
    \A m \in Mask :
        /\ madeMask[m] # Nothing /\ ~MakesMask(pendingWrites, m) =>
              maskDir[m] = [dat |-> "ok", map |-> "ok", data |-> madeMask[m]]
        /\ pendingWrites = MaskWrites1(m) => maskDir[m].map = "ok"

ImageInv == ImageTypeOK /\ CallsKnown /\ NewImage /\ DatIsFlushed /\ MapIsFlushed /\ MasksAreWhole

----------------------------------------------------------------------------
(***************************************************************************)
(* What one write of a call does, for each write of each call.             *)
(***************************************************************************)
UsualDat == [state |-> "ok", units |-> image.units, default |-> image.default]
UsualMap == [state |-> "ok", pixels |-> image.pixels]
UsualFlushed == [pixels |-> image.pixels, units |-> image.units, default |-> image.default]

LEMMA CreateFirst ==
    ASSUME NextFileWrite, pendingWrites = CreateWrites
    PROVE  /\ pendingWrites' = CreateWrites1 /\ imageDat' = UsualDat
           /\ UNCHANGED <<imageMap, maskDir, flushed, attempts, madeMask>>
<1>1. /\ Head(pendingWrites) = [file |-> "dat"] /\ Tail(pendingWrites) = CreateWrites1
      /\ Len(pendingWrites) = 2
  BY DEF CreateWrites, CreateWrites1
<1> QED
  BY <1>1 DEF NextFileWrite, WriteImageFile, UsualDat

LEMMA CreateLast ==
    ASSUME NextFileWrite, pendingWrites = CreateWrites1
    PROVE  /\ pendingWrites' = <<>> /\ imageMap' = UsualMap
           /\ flushed' = UsualFlushed /\ attempts' = {}
           /\ UNCHANGED <<imageDat, maskDir, madeMask>>
<1>1. /\ Head(pendingWrites) = [file |-> "map"] /\ Tail(pendingWrites) = <<>>
      /\ Len(pendingWrites) = 1
  BY DEF CreateWrites1
<1> QED
  BY <1>1 DEF NextFileWrite, WriteImageFile, UsualMap, UsualFlushed

LEMMA FlushFirst ==
    ASSUME NextFileWrite, pendingWrites = FlushWrites
    PROVE  /\ pendingWrites' = FlushWrites1 /\ imageMap' = UsualMap
           /\ UNCHANGED <<imageDat, maskDir, flushed, attempts, madeMask>>
<1>1. /\ Head(pendingWrites) = [file |-> "map"] /\ Tail(pendingWrites) = FlushWrites1
      /\ Len(pendingWrites) = 2
  BY DEF FlushWrites, FlushWrites1
<1> QED
  BY <1>1 DEF NextFileWrite, WriteImageFile, UsualMap

LEMMA FlushLast ==
    ASSUME NextFileWrite, pendingWrites = FlushWrites1
    PROVE  /\ pendingWrites' = <<>> /\ imageDat' = UsualDat
           /\ flushed' = UsualFlushed /\ attempts' = {}
           /\ UNCHANGED <<imageMap, maskDir, madeMask>>
<1>1. /\ Head(pendingWrites) = [file |-> "dat"] /\ Tail(pendingWrites) = <<>>
      /\ Len(pendingWrites) = 1
  BY DEF FlushWrites1
<1> QED
  BY <1>1 DEF NextFileWrite, WriteImageFile, UsualDat, UsualFlushed

LEMMA MaskFirst ==
    ASSUME NextFileWrite, NEW m, NEW flags, pendingWrites = MaskWrites(m, flags)
    PROVE  /\ pendingWrites' = MaskWrites3(m, flags)
           /\ maskDir' = [maskDir EXCEPT ![m].dat = "ok"]
           /\ UNCHANGED <<imageDat, imageMap, flushed, attempts, madeMask>>
<1>1. /\ Head(pendingWrites) = [file |-> "maskDat", name |-> m]
      /\ Tail(pendingWrites) = MaskWrites3(m, flags) /\ Len(pendingWrites) = 4
  BY DEF MaskWrites, MaskWrites3
<1>2. Head(pendingWrites).file = "maskDat" /\ Head(pendingWrites).name = m
  BY <1>1
<1>3. maskDir' = [maskDir EXCEPT ![m].dat = "ok"]
  BY <1>2 DEF NextFileWrite, WriteImageFile
<1>4. madeMask' = madeMask
  BY <1>1, <1>2 DEF NextFileWrite
<1>5. UNCHANGED <<imageDat, imageMap, flushed, attempts>>
  BY <1>2 DEF NextFileWrite, WriteImageFile
<1> QED
  BY <1>1, <1>3, <1>4, <1>5 DEF NextFileWrite

LEMMA MaskSecond ==
    ASSUME NextFileWrite, NEW m, NEW flags, pendingWrites = MaskWrites3(m, flags)
    PROVE  /\ pendingWrites' = MaskWrites2(m, flags)
           /\ maskDir' = [maskDir EXCEPT ![m].map = "ok", ![m].data = Nothing]
           /\ UNCHANGED <<imageDat, imageMap, flushed, attempts, madeMask>>
<1>1. /\ Head(pendingWrites) = [file |-> "maskMap", name |-> m, data |-> Nothing]
      /\ Tail(pendingWrites) = MaskWrites2(m, flags) /\ Len(pendingWrites) = 3
  BY DEF MaskWrites3, MaskWrites2
<1>2. Head(pendingWrites).file = "maskMap" /\ Head(pendingWrites).name = m /\ Head(pendingWrites).data = Nothing
  BY <1>1
<1>3. maskDir' = [maskDir EXCEPT ![m].map = "ok", ![m].data = Nothing]
  BY <1>2 DEF NextFileWrite, WriteImageFile
<1>4. madeMask' = madeMask
  BY <1>1, <1>2 DEF NextFileWrite
<1>5. UNCHANGED <<imageDat, imageMap, flushed, attempts>>
  BY <1>2 DEF NextFileWrite, WriteImageFile
<1> QED
  BY <1>1, <1>3, <1>4, <1>5 DEF NextFileWrite

LEMMA MaskThird ==
    ASSUME NextFileWrite, NEW m, NEW flags, pendingWrites = MaskWrites2(m, flags)
    PROVE  /\ pendingWrites' = MaskWrites1(m)
           /\ maskDir' = [maskDir EXCEPT ![m].map = "ok", ![m].data = flags]
           /\ UNCHANGED <<imageDat, imageMap, flushed, attempts, madeMask>>
<1>1. /\ Head(pendingWrites) = [file |-> "maskMap", name |-> m, data |-> flags]
      /\ Tail(pendingWrites) = MaskWrites1(m) /\ Len(pendingWrites) = 2
  BY DEF MaskWrites2, MaskWrites1
<1>2. Head(pendingWrites).file = "maskMap" /\ Head(pendingWrites).name = m /\ Head(pendingWrites).data = flags
  BY <1>1
<1>3. maskDir' = [maskDir EXCEPT ![m].map = "ok", ![m].data = flags]
  BY <1>2 DEF NextFileWrite, WriteImageFile
<1>4. madeMask' = madeMask
  BY <1>1, <1>2 DEF NextFileWrite
<1>5. UNCHANGED <<imageDat, imageMap, flushed, attempts>>
  BY <1>2 DEF NextFileWrite, WriteImageFile
<1> QED
  BY <1>1, <1>3, <1>4, <1>5 DEF NextFileWrite

LEMMA MaskLast ==
    ASSUME NextFileWrite, NEW m, pendingWrites = MaskWrites1(m)
    PROVE  /\ pendingWrites' = <<>>
           /\ maskDir' = [maskDir EXCEPT ![m].dat = "ok"]
           /\ madeMask' = [madeMask EXCEPT ![m] = maskDir[m].data]
           /\ UNCHANGED <<imageDat, imageMap, flushed, attempts>>
<1>1. /\ Head(pendingWrites) = [file |-> "maskDat", name |-> m]
      /\ Tail(pendingWrites) = <<>> /\ Len(pendingWrites) = 1
  BY DEF MaskWrites1
<1>2. Head(pendingWrites).file = "maskDat" /\ Head(pendingWrites).name = m
  BY <1>1
<1>3. maskDir' = [maskDir EXCEPT ![m].dat = "ok"]
  BY <1>2 DEF NextFileWrite, WriteImageFile
<1>4. madeMask' = [madeMask EXCEPT ![m] = maskDir[m].data]
  BY <1>1, <1>2 DEF NextFileWrite
<1>5. UNCHANGED <<imageDat, imageMap, flushed, attempts>>
  BY <1>2 DEF NextFileWrite, WriteImageFile
<1> QED
  BY <1>1, <1>3, <1>4, <1>5 DEF NextFileWrite

\* The calls differ: no two of them have the same writes left.
LEMMA CallsDiffer ==
    ASSUME NEW m, NEW flags
    PROVE  /\ CreateWrites # <<>> /\ CreateWrites1 # <<>> /\ FlushWrites # <<>>
           /\ FlushWrites1 # <<>>
           /\ CreateWrites # CreateWrites1 /\ CreateWrites # FlushWrites
           /\ CreateWrites # FlushWrites1 /\ CreateWrites1 # FlushWrites
           /\ CreateWrites1 # FlushWrites1 /\ FlushWrites # FlushWrites1
           /\ \A s \in {MaskWrites(m, flags), MaskWrites3(m, flags), MaskWrites2(m, flags),
                         MaskWrites1(m)} :
                 /\ s \notin {<<>>, CreateWrites, CreateWrites1, FlushWrites, FlushWrites1}
                 /\ s[1].name = m /\ s[1].file \in {"maskDat", "maskMap"}
           /\ MaskWrites(m, flags) # MaskWrites1(m) /\ MaskWrites3(m, flags) # MaskWrites1(m)
           /\ MaskWrites2(m, flags) # MaskWrites1(m)
<1> DEFINE A == [file |-> "dat"]
           B == [file |-> "map"]
           C == [file |-> "maskDat", name |-> m]
           D == [file |-> "maskMap", name |-> m, data |-> Nothing]
           E == [file |-> "maskMap", name |-> m, data |-> flags]
<1>1. /\ A.file = "dat" /\ B.file = "map" /\ C.file = "maskDat" /\ D.file = "maskMap"
      /\ E.file = "maskMap" /\ C.name = m /\ D.name = m /\ E.name = m
  OBVIOUS
<1>2. /\ CreateWrites = <<A, B>> /\ CreateWrites1 = <<B>> /\ FlushWrites = <<B, A>>
      /\ FlushWrites1 = <<A>> /\ MaskWrites(m, flags) = <<C, D, E, C>>
      /\ MaskWrites3(m, flags) = <<D, E, C>> /\ MaskWrites2(m, flags) = <<E, C>>
      /\ MaskWrites1(m) = <<C>>
  BY DEF CreateWrites, CreateWrites1, FlushWrites, FlushWrites1, MaskWrites, MaskWrites3,
         MaskWrites2, MaskWrites1
<1> HIDE DEF A, B, C, D, E
<1>3. A # B
  BY <1>1
<1> QED
  BY <1>1, <1>2, <1>3

\* The writes of a make_mask name its mask and no other.
LEMMA MaskCalls ==
    ASSUME NEW s, NEW m \in Mask, MakesMask(s, m)
    PROVE  /\ s \notin ImageFileWrites \cup {<<>>}
           /\ s[1].name = m /\ s[1].file \in {"maskDat", "maskMap"}
           /\ \A m2 \in Mask : MakesMask(s, m2) \/ s = MaskWrites1(m2) => m2 = m
<1>1. ASSUME NEW n, MakesMask(s, n)
      PROVE  s \notin ImageFileWrites \cup {<<>>} /\ s[1].name = n
             /\ s[1].file \in {"maskDat", "maskMap"}
  <2>1. PICK flags : s \in {MaskWrites(n, flags), MaskWrites3(n, flags), MaskWrites2(n, flags),
                           MaskWrites1(n)}
    BY <1>1 DEF MakesMask
  <2> QED
    BY <2>1, CallsDiffer DEF ImageFileWrites
<1>2. \A m2 : s = MaskWrites1(m2) => MakesMask(s, m2)
  BY DEF MakesMask
<1> QED
  BY <1>1, <1>2

LEMMA ImageCallsMakeNoMask ==
    ASSUME NEW s \in ImageFileWrites \cup {<<>>}, NEW m \in Mask
    PROVE  ~MakesMask(s, m) /\ s # MaskWrites1(m)
<1>1. s = MaskWrites1(m) => MakesMask(s, m)
  BY DEF MakesMask
<1> QED
  BY <1>1, MaskCalls

LEMMA WritesTyped ==
    /\ <<>> \in Seq(FileWrite) /\ ImageFileWrites \subseteq Seq(FileWrite)
    /\ \A m \in Mask, flags \in MaskData :
          {MaskWrites(m, flags), MaskWrites3(m, flags), MaskWrites2(m, flags), MaskWrites1(m)}
              \subseteq Seq(FileWrite)
<1> DEFINE A == [file |-> "dat"]
           B == [file |-> "map"]
<1>1. A \in FileWrite /\ B \in FileWrite
  BY DEF FileWrite
<1>2. \A m \in Mask, flags \in MaskData \cup {Nothing} :
         /\ [file |-> "maskDat", name |-> m] \in FileWrite
         /\ [file |-> "maskMap", name |-> m, data |-> flags] \in FileWrite
  BY DEF FileWrite
<1>3. ASSUME NEW s \in ImageFileWrites PROVE s \in Seq(FileWrite)
  <2>1. s \in {<<A, B>>, <<B>>, <<B, A>>, <<A>>}
    BY DEF ImageFileWrites, CreateWrites, CreateWrites1, FlushWrites, FlushWrites1
  <2> HIDE DEF A, B
  <2>2. /\ <<A, B>> \in Seq(FileWrite) /\ <<B>> \in Seq(FileWrite)
        /\ <<B, A>> \in Seq(FileWrite) /\ <<A>> \in Seq(FileWrite)
    BY <1>1
  <2> QED
    BY <2>1, <2>2
<1>4. ASSUME NEW m \in Mask, NEW flags \in MaskData
      PROVE  {MaskWrites(m, flags), MaskWrites3(m, flags), MaskWrites2(m, flags), MaskWrites1(m)}
                \subseteq Seq(FileWrite)
  <2> DEFINE C == [file |-> "maskDat", name |-> m]
             D == [file |-> "maskMap", name |-> m, data |-> Nothing]
             E == [file |-> "maskMap", name |-> m, data |-> flags]
  <2>1. C \in FileWrite /\ D \in FileWrite /\ E \in FileWrite
    BY <1>2
  <2>2. /\ MaskWrites(m, flags) = <<C, D, E, C>> /\ MaskWrites3(m, flags) = <<D, E, C>>
        /\ MaskWrites2(m, flags) = <<E, C>> /\ MaskWrites1(m) = <<C>>
    BY DEF MaskWrites, MaskWrites3, MaskWrites2, MaskWrites1
  <2> HIDE DEF C, D, E
  <2> QED
    BY <2>1, <2>2
<1> QED
  BY <1>3, <1>4

----------------------------------------------------------------------------
(***************************************************************************)
(* A write of a call keeps the invariant.                                  *)
(***************************************************************************)
LEMMA CreateFirstKeeps ==
    ASSUME ImageInv, NextFileWrite, pendingWrites = CreateWrites
    PROVE  ImageInv'
<1>1. /\ pendingWrites' = CreateWrites1 /\ imageDat' = UsualDat
      /\ UNCHANGED <<imageMap, maskDir, flushed, attempts, madeMask, image, put_pixels>>
  BY CreateFirst DEF NextFileWrite
<1>2. /\ image = [Closed EXCEPT !.mode = "rw"] /\ imageDat.state = "none"
      /\ flushed.units = NoUnits /\ flushed.default = NoMask
  BY DEF ImageInv, NewImage
<1>3. /\ UsualDat = [state |-> "ok", units |-> NoUnits, default |-> NoMask]
      /\ image.mode = "rw"
  BY <1>2 DEF UsualDat, Closed
<1>4. /\ CreateWrites1 \in ImageFileWrites /\ CreateWrites \in ImageFileWrites
      /\ CreateWrites1 # CreateWrites
      /\ CreateWrites1 # FlushWrites1 /\ CreateWrites # FlushWrites1
  BY CallsDiffer DEF ImageFileWrites
<1>5. ImageTypeOK'
  BY <1>1, <1>3, <1>4, WritesTyped, ImageAssumption DEF ImageInv, ImageTypeOK, FileState
<1>6. CallsKnown'
  BY <1>1, <1>3, <1>4 DEF ImageInv, CallsKnown, Calling
<1>7. NewImage'
  BY <1>1, <1>2, <1>3, <1>4 DEF NewImage, NoDat
<1>8. DatIsFlushed'
  BY <1>1, <1>2, <1>3 DEF DatIsFlushed
<1>9. MapIsFlushed'
  BY <1>1, <1>4 DEF ImageInv, MapIsFlushed
<1>10. MasksAreWhole'
  BY <1>1, <1>4, ImageCallsMakeNoMask DEF ImageInv, MasksAreWhole
<1> QED
  BY <1>5, <1>6, <1>7, <1>8, <1>9, <1>10 DEF ImageInv

LEMMA CreateLastKeeps ==
    ASSUME ImageInv, NextFileWrite, pendingWrites = CreateWrites1
    PROVE  ImageInv'
<1>1. /\ pendingWrites' = <<>> /\ imageMap' = UsualMap
      /\ flushed' = UsualFlushed /\ attempts' = {}
      /\ UNCHANGED <<imageDat, maskDir, madeMask, image, put_pixels>>
  BY CreateLast DEF NextFileWrite
<1>2. /\ image = [Closed EXCEPT !.mode = "rw"]
      /\ imageDat = [state |-> "ok", units |-> NoUnits, default |-> NoMask]
  BY DEF ImageInv, NewImage, NoDat
<1>3. image.mode = "rw" /\ image.units = NoUnits /\ image.default = NoMask
  BY <1>2 DEF Closed
<1>4. /\ <<>> \notin ImageFileWrites /\ CreateWrites1 \in ImageFileWrites
      /\ <<>> \notin {CreateWrites, CreateWrites1, FlushWrites1}
  BY CallsDiffer DEF ImageFileWrites
<1>5. ImageTypeOK'
  BY <1>1, WritesTyped DEF ImageInv, ImageTypeOK, FileState, UsualMap, UsualFlushed
<1>6. CallsKnown'
  BY <1>1, <1>3 DEF ImageInv, CallsKnown
<1>7. NewImage'
  BY <1>1, <1>2, <1>4 DEF NewImage
<1>8. DatIsFlushed'
  BY <1>1, <1>2, <1>3 DEF DatIsFlushed, UsualFlushed, UsualMap
<1>9. MapIsFlushed'
  BY <1>1, <1>4 DEF MapIsFlushed, UsualFlushed, UsualMap
<1>10. MasksAreWhole'
  BY <1>1, <1>4, ImageCallsMakeNoMask DEF ImageInv, MasksAreWhole
<1> QED
  BY <1>5, <1>6, <1>7, <1>8, <1>9, <1>10 DEF ImageInv

LEMMA FlushFirstKeeps ==
    ASSUME ImageInv, NextFileWrite, pendingWrites = FlushWrites
    PROVE  ImageInv'
<1>1. /\ pendingWrites' = FlushWrites1 /\ imageMap' = UsualMap
      /\ UNCHANGED <<imageDat, maskDir, flushed, attempts, madeMask, image, put_pixels>>
  BY FlushFirst DEF NextFileWrite
<1>2. /\ FlushWrites \in ImageFileWrites /\ FlushWrites1 \in ImageFileWrites
      /\ FlushWrites # <<>> /\ FlushWrites1 \notin {CreateWrites, CreateWrites1}
  BY CallsDiffer DEF ImageFileWrites
<1>3. image.mode = "rw" /\ put_pixels = image.pixels
  BY <1>2 DEF ImageInv, CallsKnown
<1>4. ImageTypeOK'
  BY <1>1, <1>2, WritesTyped DEF ImageInv, ImageTypeOK, FileState, UsualMap
<1>5. CallsKnown'
  BY <1>1, <1>2, <1>3 DEF CallsKnown, Calling
<1>6. NewImage'
  BY <1>1, <1>2 DEF ImageInv, NewImage
<1>7. DatIsFlushed'
  BY <1>1 DEF ImageInv, DatIsFlushed, UsualMap
<1>8. MapIsFlushed'
  BY <1>1 DEF MapIsFlushed, UsualMap
<1>9. MasksAreWhole'
  BY <1>1, <1>2, ImageCallsMakeNoMask DEF ImageInv, MasksAreWhole
<1> QED
  BY <1>4, <1>5, <1>6, <1>7, <1>8, <1>9 DEF ImageInv

LEMMA FlushLastKeeps ==
    ASSUME ImageInv, NextFileWrite, pendingWrites = FlushWrites1
    PROVE  ImageInv'
<1>1. /\ pendingWrites' = <<>> /\ imageDat' = UsualDat
      /\ flushed' = UsualFlushed /\ attempts' = {}
      /\ UNCHANGED <<imageMap, maskDir, madeMask, image, put_pixels>>
  BY FlushLast DEF NextFileWrite
<1>2. /\ FlushWrites1 \in ImageFileWrites /\ FlushWrites1 # <<>>
      /\ <<>> \notin {CreateWrites, CreateWrites1, FlushWrites1}
  BY CallsDiffer DEF ImageFileWrites
<1>3. /\ image.mode = "rw" /\ put_pixels = image.pixels
      /\ imageMap = [state |-> "ok", pixels |-> image.pixels]
  BY <1>2 DEF ImageInv, CallsKnown, MapIsFlushed
<1>4. ImageTypeOK'
  BY <1>1, WritesTyped DEF ImageInv, ImageTypeOK, FileState, UsualDat, UsualFlushed
<1>5. CallsKnown'
  BY <1>1, <1>3 DEF CallsKnown
<1>6. NewImage'
  BY <1>1, <1>2 DEF NewImage, UsualDat
<1>7. DatIsFlushed'
  BY <1>1, <1>3 DEF DatIsFlushed, UsualDat, UsualFlushed
<1>8. MapIsFlushed'
  BY <1>1, <1>2, <1>3 DEF MapIsFlushed, UsualFlushed
<1>9. MasksAreWhole'
  BY <1>1, <1>2, ImageCallsMakeNoMask DEF ImageInv, MasksAreWhole
<1> QED
  BY <1>4, <1>5, <1>6, <1>7, <1>8, <1>9 DEF ImageInv

\* What a write of make_mask leaves of the invariant when its mask's table and
\* the writes left are as they should be.
LEMMA MaskWriteKeeps ==
    ASSUME ImageInv, NextFileWrite, NEW m \in Mask, MakesMask(pendingWrites, m),
           UNCHANGED <<imageDat, imageMap, flushed, attempts>>,
           ImageTypeOK', MasksAreWhole',
           pendingWrites' = <<>> \/ MakesMask(pendingWrites', m)
    PROVE  ImageInv'
<1>1. pendingWrites \notin ImageFileWrites \cup {<<>>}
  BY MaskCalls
<1>2. image.mode = "rw" /\ put_pixels = image.pixels /\ UNCHANGED <<image, put_pixels>>
  BY <1>1 DEF ImageInv, CallsKnown, NextFileWrite
<1>3. pendingWrites' \notin ImageFileWrites
  <2>1. CASE pendingWrites' = <<>>
    BY <2>1, CallsDiffer DEF ImageFileWrites
  <2>2. CASE MakesMask(pendingWrites', m)
    BY <2>2, MaskCalls
  <2> QED
    BY <2>1, <2>2
<1>4. CallsKnown'
  BY <1>2 DEF CallsKnown, Calling
<1>5. NewImage' /\ DatIsFlushed' /\ MapIsFlushed'
  BY <1>1, <1>2, <1>3 DEF ImageInv, NewImage, DatIsFlushed, MapIsFlushed, ImageFileWrites
<1> QED
  BY <1>4, <1>5 DEF ImageInv

LEMMA MaskStepKeeps ==
    ASSUME ImageInv, NextFileWrite, NEW m \in Mask, MakesMask(pendingWrites, m)
    PROVE  ImageInv'
<1>1. \A n \in Mask : MakesMask(pendingWrites, n) \/ pendingWrites = MaskWrites1(n) => n = m
  BY MaskCalls
<1>2. ASSUME NEW n \in Mask, n # m, madeMask[n] # Nothing
      PROVE  maskDir[n] = [dat |-> "ok", map |-> "ok", data |-> madeMask[n]]
  BY <1>1, <1>2 DEF ImageInv, MasksAreWhole
<1>3. maskDir \in [Mask -> [dat : FileState, map : FileState, data : MaskData \cup {Nothing}]]
      /\ madeMask \in [Mask -> MaskData \cup {Nothing}]
  BY DEF ImageInv, ImageTypeOK
<1>4. ASSUME NEW flags \in MaskData, pendingWrites = MaskWrites(m, flags) PROVE ImageInv'
  <2>1. /\ pendingWrites' = MaskWrites3(m, flags)
        /\ maskDir' = [maskDir EXCEPT ![m].dat = "ok"]
        /\ UNCHANGED <<imageDat, imageMap, flushed, attempts, madeMask, image, put_pixels>>
    BY <1>4, MaskFirst DEF NextFileWrite
  <2>2. MakesMask(pendingWrites', m) /\ pendingWrites' # MaskWrites1(m)
    BY <2>1, CallsDiffer DEF MakesMask
  <2>3. \A n \in Mask : MakesMask(pendingWrites', n) \/ pendingWrites' = MaskWrites1(n) => n = m
    BY <2>2, MaskCalls
  <2>4. ImageTypeOK'
    BY <1>3, <2>1, WritesTyped DEF ImageInv, ImageTypeOK, FileState
  <2>5. MasksAreWhole'
    BY <1>2, <1>3, <2>1, <2>2, <2>3 DEF MasksAreWhole
  <2> QED
    BY <2>1, <2>2, <2>4, <2>5, MaskWriteKeeps
<1>5. ASSUME NEW flags \in MaskData, pendingWrites = MaskWrites3(m, flags) PROVE ImageInv'
  <2>1. /\ pendingWrites' = MaskWrites2(m, flags)
        /\ maskDir' = [maskDir EXCEPT ![m].map = "ok", ![m].data = Nothing]
        /\ UNCHANGED <<imageDat, imageMap, flushed, attempts, madeMask, image, put_pixels>>
    BY <1>5, MaskSecond DEF NextFileWrite
  <2>2. MakesMask(pendingWrites', m) /\ pendingWrites' # MaskWrites1(m)
    BY <2>1, CallsDiffer DEF MakesMask
  <2>3. \A n \in Mask : MakesMask(pendingWrites', n) \/ pendingWrites' = MaskWrites1(n) => n = m
    BY <2>2, MaskCalls
  <2>4. ImageTypeOK'
    BY <1>3, <2>1, WritesTyped, ZenonT(30) DEF ImageInv, ImageTypeOK, FileState
  <2>5. MasksAreWhole'
    BY <1>2, <1>3, <2>1, <2>2, <2>3 DEF MasksAreWhole
  <2> QED
    BY <2>1, <2>2, <2>4, <2>5, MaskWriteKeeps
<1>6. ASSUME NEW flags \in MaskData, pendingWrites = MaskWrites2(m, flags) PROVE ImageInv'
  <2>1. /\ pendingWrites' = MaskWrites1(m)
        /\ maskDir' = [maskDir EXCEPT ![m].map = "ok", ![m].data = flags]
        /\ UNCHANGED <<imageDat, imageMap, flushed, attempts, madeMask, image, put_pixels>>
    BY <1>6, MaskThird DEF NextFileWrite
  <2>2. MakesMask(pendingWrites', m) /\ maskDir'[m].map = "ok"
    BY <1>3, <2>1 DEF MakesMask
  <2>3. \A n \in Mask : MakesMask(pendingWrites', n) \/ pendingWrites' = MaskWrites1(n) => n = m
    BY <2>2, MaskCalls
  <2>4. ImageTypeOK'
    BY <1>3, <2>1, WritesTyped, ZenonT(30) DEF ImageInv, ImageTypeOK, FileState
  <2>5. MasksAreWhole'
    BY <1>2, <1>3, <2>1, <2>2, <2>3 DEF MasksAreWhole
  <2> QED
    BY <2>1, <2>2, <2>4, <2>5, MaskWriteKeeps
<1>7. CASE pendingWrites = MaskWrites1(m)
  <2>1. /\ pendingWrites' = <<>>
        /\ maskDir' = [maskDir EXCEPT ![m].dat = "ok"]
        /\ madeMask' = [madeMask EXCEPT ![m] = maskDir[m].data]
        /\ UNCHANGED <<imageDat, imageMap, flushed, attempts, image, put_pixels>>
    BY <1>7, MaskLast DEF NextFileWrite
  <2>2. maskDir[m].map = "ok"
    BY <1>7 DEF ImageInv, MasksAreWhole
  <2>3. \A n \in Mask : pendingWrites' # MaskWrites1(n)
    BY <2>1, ImageCallsMakeNoMask
  <2>4. ImageTypeOK'
    <3>1. maskDir[m].data \in MaskData \cup {Nothing}
      BY <1>3
    <3>2. madeMask' \in [Mask -> MaskData \cup {Nothing}]
      BY <1>3, <2>1, <3>1
    <3>3. maskDir' \in [Mask -> [dat : FileState, map : FileState, data : MaskData \cup {Nothing}]]
      BY <1>3, <2>1 DEF FileState
    <3> QED
      BY <2>1, <3>2, <3>3, WritesTyped DEF ImageInv, ImageTypeOK
  <2>5. MasksAreWhole'
    <3>1. maskDir'[m] = [dat |-> "ok", map |-> "ok", data |-> madeMask'[m]]
      <4>1. /\ maskDir[m] \in [dat : FileState, map : FileState, data : MaskData \cup {Nothing}]
            /\ maskDir'[m] = [maskDir[m] EXCEPT !.dat = "ok"]
            /\ madeMask'[m] = maskDir[m].data
        BY <1>3, <2>1
      <4> QED
        BY <4>1, <2>2
    <3> QED
      BY <1>2, <1>3, <2>1, <2>3, <3>1 DEF MasksAreWhole
  <2> QED
    BY <2>1, <2>4, <2>5, MaskWriteKeeps
<1> QED
  BY <1>4, <1>5, <1>6, <1>7 DEF MakesMask

LEMMA WriteKeeps ==
    ASSUME ImageInv, NextFileWrite
    PROVE  ImageInv'
<1>1. Calling
  BY DEF NextFileWrite, ImageInv, CallsKnown
<1> QED
  BY <1>1, CreateFirstKeeps, CreateLastKeeps, FlushFirstKeeps, FlushLastKeeps, MaskStepKeeps
     DEF Calling, ImageFileWrites

----------------------------------------------------------------------------
(***************************************************************************)
(* The process dies.  Half a write reaches only the file that it writes.   *)
(***************************************************************************)
\* What a crash in the write wr may leave of the files.
LEMMA TornWrite ==
    ASSUME NEW wr, WriteImageFile(wr, "torn")
    PROVE  /\ wr.file # "dat" => imageDat' = imageDat
           /\ wr.file = "dat" => imageDat' = [UsualDat EXCEPT !.state = "torn"]
           /\ wr.file # "map" => imageMap' = imageMap
           /\ wr.file = "map" => imageMap' = [state |-> "torn", pixels |-> Blanks]
           /\ wr.file \notin {"maskDat", "maskMap"} => maskDir' = maskDir
           /\ wr.file = "maskDat" => maskDir' = [maskDir EXCEPT ![wr.name].dat = "torn"]
           /\ wr.file = "maskMap" =>
                 maskDir' = [maskDir EXCEPT ![wr.name].map = "torn", ![wr.name].data = Nothing]
<1> QED
  BY DEF WriteImageFile, UsualDat

\* The writes of the image's own calls are to its two files, those of a
\* make_mask to its mask's.
LEMMA ImageFilesOnly ==
    ASSUME NEW s \in ImageFileWrites
    PROVE  /\ s # <<>> /\ Head(s).file \in {"dat", "map"}
           /\ ~ \E i \in DOMAIN s : s[i].file \in {"maskMap", "maskDat"}
<1> DEFINE A == [file |-> "dat"]
           B == [file |-> "map"]
<1>1. A.file = "dat" /\ B.file = "map"
  OBVIOUS
<1>2. s \in {<<A, B>>, <<B>>, <<B, A>>, <<A>>}
  BY DEF ImageFileWrites, CreateWrites, CreateWrites1, FlushWrites, FlushWrites1
<1> HIDE DEF A, B
<1>3. CASE s = <<A, B>>
  BY <1>1, <1>3
<1>4. CASE s = <<B>>
  BY <1>1, <1>4
<1>5. CASE s = <<B, A>>
  BY <1>1, <1>5
<1>6. CASE s = <<A>>
  BY <1>1, <1>6
<1> QED
  BY <1>2, <1>3, <1>4, <1>5, <1>6

LEMMA MaskFilesOnly ==
    ASSUME NEW s, NEW m \in Mask, MakesMask(s, m)
    PROVE  /\ s # <<>> /\ Head(s).file \in {"maskDat", "maskMap"} /\ Head(s).name = m
           /\ \A n : (\E i \in DOMAIN s : s[i].file \in {"maskMap", "maskDat"} /\ s[i].name = n)
                        <=> n = m
<1>1. PICK flags : s \in {MaskWrites(m, flags), MaskWrites3(m, flags), MaskWrites2(m, flags),
                         MaskWrites1(m)}
  BY DEF MakesMask
<1> DEFINE C == [file |-> "maskDat", name |-> m]
           D == [file |-> "maskMap", name |-> m, data |-> Nothing]
           E == [file |-> "maskMap", name |-> m, data |-> flags]
<1>2. /\ C.file = "maskDat" /\ D.file = "maskMap" /\ E.file = "maskMap"
      /\ C.name = m /\ D.name = m /\ E.name = m
  OBVIOUS
<1>3. s \in {<<C, D, E, C>>, <<D, E, C>>, <<E, C>>, <<C>>}
  BY <1>1 DEF MaskWrites, MaskWrites3, MaskWrites2, MaskWrites1
<1> HIDE DEF C, D, E
<1>4. s # <<>> /\ Head(s) \in {C, D, E} /\ 1 \in DOMAIN s
      /\ \A i \in DOMAIN s : s[i] \in {C, D, E}
  <2>1. CASE s = <<C, D, E, C>>
    BY <2>1
  <2>2. CASE s = <<D, E, C>>
    BY <2>2
  <2>3. CASE s = <<E, C>>
    BY <2>3
  <2>4. CASE s = <<C>>
    BY <2>4
  <2> QED
    BY <1>3, <2>1, <2>2, <2>3, <2>4
<1> QED
  BY <1>2, <1>4

LEMMA CrashKeeps ==
    ASSUME ImageInv, ImageCrash
    PROVE  ImageInv'
<1> DEFINE wr == Head(pendingWrites)
<1>1. /\ image' = Closed /\ pendingWrites' = <<>> /\ put_pixels' = Blanks /\ flushed' = flushed
      /\ \/ UNCHANGED <<imageDat, imageMap, maskDir>>
         \/ pendingWrites # <<>> /\ WriteImageFile(wr, "torn")
      /\ attempts' = IF pendingWrites # <<>> /\ wr.file \in {"map", "dat"}
                     THEN attempts \cup {image.pixels} ELSE attempts
      /\ madeMask' = [m \in Mask |->
                       IF \E i \in DOMAIN pendingWrites :
                             pendingWrites[i].file \in {"maskMap", "maskDat"}
                                 /\ pendingWrites[i].name = m
                       THEN Nothing ELSE madeMask[m]]
  BY DEF ImageCrash
<1>2. /\ Closed \in [mode : {"closed", "ro", "rw"}, pixels : Pixels, units : Units,
                    default : Mask \cup {NoMask}]
      /\ Closed.mode = "closed" /\ Blanks \in Pixels
  BY ImageAssumption DEF Closed, Pixels, Blanks
<1>3. /\ maskDir \in [Mask -> [dat : FileState, map : FileState, data : MaskData \cup {Nothing}]]
      /\ madeMask \in [Mask -> MaskData \cup {Nothing}]
      /\ image.pixels \in Pixels /\ UsualDat \in [state : FileState, units : Units,
                                                default : Mask \cup {NoMask}]
  BY DEF ImageInv, ImageTypeOK, UsualDat, FileState
<1>4. /\ <<>> \notin ImageFileWrites
      /\ \A n \in Mask : ~MakesMask(<<>>, n) /\ <<>> # MaskWrites1(n)
  BY CallsDiffer, ImageCallsMakeNoMask DEF ImageFileWrites
<1>5. CallsKnown'
  BY <1>1, <1>2 DEF CallsKnown
<1> HIDE DEF wr
<1>6. CASE pendingWrites = <<>>
  <2>1. UNCHANGED <<imageDat, imageMap, maskDir, attempts, flushed>>
    BY <1>1, <1>6
  <2>2. DOMAIN pendingWrites = {}
    BY <1>6
  <2>3. madeMask' = madeMask
    BY <1>1, <1>3, <2>2
  <2>4. ImageTypeOK'
    BY <1>1, <1>2, <2>1, <2>3, WritesTyped DEF ImageInv, ImageTypeOK
  <2>5. NewImage' /\ DatIsFlushed' /\ MapIsFlushed'
    BY <1>1, <1>4, <1>6, <2>1 DEF ImageInv, NewImage, DatIsFlushed, MapIsFlushed, ImageFileWrites
  <2>6. MasksAreWhole'
    BY <1>1, <1>4, <1>6, <2>1, <2>3 DEF ImageInv, MasksAreWhole
  <2> QED
    BY <1>5, <2>4, <2>5, <2>6 DEF ImageInv
<1>7. CASE pendingWrites \in ImageFileWrites
  <2>1. /\ pendingWrites # <<>> /\ wr.file \in {"dat", "map"}
        /\ ~ \E i \in DOMAIN pendingWrites : pendingWrites[i].file \in {"maskMap", "maskDat"}
    BY <1>7, ImageFilesOnly DEF wr
  <2>2. madeMask' = madeMask
    BY <1>1, <1>3, <2>1
  <2>3. attempts' = attempts \cup {image.pixels}
    BY <1>1, <2>1
  <2>4. /\ imageDat' = imageDat \/ imageDat' = [UsualDat EXCEPT !.state = "torn"]
        /\ imageMap' = imageMap \/ imageMap' = [state |-> "torn", pixels |-> Blanks]
        /\ maskDir' = maskDir
    BY <1>1, <2>1, TornWrite
  <2>5. ImageTypeOK'
    <3>1. imageDat' \in [state : FileState, units : Units, default : Mask \cup {NoMask}]
      BY <1>3, <2>4 DEF ImageInv, ImageTypeOK, FileState
    <3>2. imageMap' \in [state : FileState, pixels : Pixels]
      BY <1>2, <2>4 DEF ImageInv, ImageTypeOK, FileState
    <3> QED
      BY <1>1, <1>2, <1>3, <2>2, <2>3, <2>4, <3>1, <3>2, WritesTyped DEF ImageInv, ImageTypeOK
  <2>6. /\ imageDat'.state \in {"none", "ok"} => imageDat' = imageDat
        /\ imageMap'.state = "ok" => imageMap' = imageMap
    BY <2>4 DEF UsualDat
  <2>7. NewImage'
    BY <1>1, <1>4, <2>6 DEF ImageInv, NewImage, ImageFileWrites
  <2>8. DatIsFlushed'
    BY <1>1, <2>3, <2>6 DEF ImageInv, DatIsFlushed
  <2>9. MapIsFlushed'
    BY <1>1, <1>4, <2>3, <2>6 DEF ImageInv, MapIsFlushed, ImageFileWrites
  <2>10. MasksAreWhole'
    BY <1>1, <1>4, <1>7, <2>2, <2>4, ImageCallsMakeNoMask DEF ImageInv, MasksAreWhole
  <2> QED
    BY <1>5, <2>5, <2>7, <2>8, <2>9, <2>10 DEF ImageInv
<1>8. ASSUME NEW m \in Mask, MakesMask(pendingWrites, m) PROVE ImageInv'
  <2>1. /\ pendingWrites # <<>> /\ wr.file \in {"maskDat", "maskMap"} /\ wr.name = m
        /\ \A n : (\E i \in DOMAIN pendingWrites :
                       pendingWrites[i].file \in {"maskMap", "maskDat"}
                           /\ pendingWrites[i].name = n) <=> n = m
    BY <1>8, MaskFilesOnly DEF wr
  <2>2. madeMask' = [n \in Mask |-> IF n = m THEN Nothing ELSE madeMask[n]]
    BY <1>1, <2>1
  <2>3. attempts' = attempts /\ imageDat' = imageDat /\ imageMap' = imageMap
    BY <1>1, <2>1, TornWrite
  <2>4. \/ maskDir' = maskDir
        \/ maskDir' = [maskDir EXCEPT ![m].dat = "torn"]
        \/ maskDir' = [maskDir EXCEPT ![m].map = "torn", ![m].data = Nothing]
    BY <1>1, <2>1, TornWrite
  <2>5. /\ maskDir' \in [Mask -> [dat : FileState, map : FileState,
                                data : MaskData \cup {Nothing}]]
        /\ \A n \in Mask : n # m => maskDir'[n] = maskDir[n]
    BY <1>3, <2>4 DEF FileState
  <2>6. ImageTypeOK'
    BY <1>1, <1>2, <1>3, <2>2, <2>3, <2>5, WritesTyped DEF ImageInv, ImageTypeOK
  <2>7. pendingWrites \notin ImageFileWrites
    BY <1>8, MaskCalls
  <2>8. NewImage' /\ DatIsFlushed' /\ MapIsFlushed'
    BY <1>1, <1>4, <2>3, <2>7 DEF ImageInv, NewImage, DatIsFlushed, MapIsFlushed, ImageFileWrites
  <2>9. MasksAreWhole'
    <3>1. \A n \in Mask : MakesMask(pendingWrites, n) => n = m
      BY <1>8, MaskCalls
    <3> QED
      BY <1>1, <1>4, <2>2, <2>5, <3>1 DEF ImageInv, MasksAreWhole
  <2> QED
    BY <1>5, <2>6, <2>8, <2>9 DEF ImageInv
<1> QED
  BY <1>6, <1>7, <1>8 DEF ImageInv, CallsKnown, Calling

----------------------------------------------------------------------------
(***************************************************************************)
(* Calls that do not touch the disk, or have not yet.                      *)
(***************************************************************************)
\* Between calls the image in memory may change, and a call may begin.
LEMMA MemoryKeeps ==
    ASSUME ImageInv, pendingWrites = <<>>,
           UNCHANGED <<imageDat, imageMap, maskDir, flushed, attempts, madeMask>>,
           ImageTypeOK', CallsKnown',
           \/ pendingWrites' \in {<<>>, FlushWrites}
           \/ \E m \in Mask, flags \in MaskData : pendingWrites' = MaskWrites(m, flags)
           \/ /\ pendingWrites' = CreateWrites /\ image' = [Closed EXCEPT !.mode = "rw"]
              /\ imageDat.state = "none"
    PROVE  ImageInv'
<1>1. /\ <<>> \notin ImageFileWrites /\ FlushWrites \in ImageFileWrites
      /\ CreateWrites \in ImageFileWrites
      /\ FlushWrites \notin {CreateWrites, CreateWrites1, FlushWrites1}
      /\ CreateWrites \notin {CreateWrites1, FlushWrites1}
  BY CallsDiffer DEF ImageFileWrites
<1>2. \A n \in Mask : ~MakesMask(<<>>, n) /\ <<>> # MaskWrites1(n)
  BY ImageCallsMakeNoMask
<1>3. CASE pendingWrites' \in {<<>>, FlushWrites}
  <2>1. /\ pendingWrites' \notin {CreateWrites, CreateWrites1, FlushWrites1}
        /\ \A n \in Mask : ~MakesMask(pendingWrites', n) /\ pendingWrites' # MaskWrites1(n)
    BY <1>1, <1>3, ImageCallsMakeNoMask DEF ImageFileWrites
  <2>2. NewImage' /\ DatIsFlushed' /\ MapIsFlushed'
    BY <1>1, <2>1 DEF ImageInv, NewImage, DatIsFlushed, MapIsFlushed, ImageFileWrites
  <2>3. MasksAreWhole'
    BY <1>2, <2>1 DEF ImageInv, MasksAreWhole
  <2> QED
    BY <2>2, <2>3 DEF ImageInv
<1>4. ASSUME NEW m \in Mask, NEW flags \in MaskData, pendingWrites' = MaskWrites(m, flags)
      PROVE  ImageInv'
  <2>1. MakesMask(pendingWrites', m) /\ \A n \in Mask : pendingWrites' # MaskWrites1(n)
    <3>1. MakesMask(pendingWrites', m) /\ pendingWrites' # MaskWrites1(m)
      BY <1>4, CallsDiffer DEF MakesMask
    <3> QED
      BY <3>1, MaskCalls
  <2>2. pendingWrites' \notin ImageFileWrites
    BY <2>1, MaskCalls
  <2>3. NewImage' /\ DatIsFlushed' /\ MapIsFlushed'
    BY <1>1, <2>2 DEF ImageInv, NewImage, DatIsFlushed, MapIsFlushed, ImageFileWrites
  <2>4. MasksAreWhole'
    BY <1>2, <2>1 DEF ImageInv, MasksAreWhole
  <2> QED
    BY <2>3, <2>4 DEF ImageInv
<1>5. CASE /\ pendingWrites' = CreateWrites /\ image' = [Closed EXCEPT !.mode = "rw"]
           /\ imageDat.state = "none"
  <2>1. \A n \in Mask : ~MakesMask(pendingWrites', n) /\ pendingWrites' # MaskWrites1(n)
    BY <1>1, <1>5, ImageCallsMakeNoMask
  <2>2. NewImage' /\ DatIsFlushed' /\ MapIsFlushed'
    BY <1>1, <1>5 DEF ImageInv, NewImage, DatIsFlushed, MapIsFlushed, ImageFileWrites
  <2>3. MasksAreWhole'
    BY <1>2, <2>1 DEF ImageInv, MasksAreWhole
  <2> QED
    BY <2>2, <2>3 DEF ImageInv
<1> QED
  BY <1>3, <1>4, <1>5

LEMMA ImageStep == ImageInv /\ [ImageNext]_imageVars => ImageInv'
<1> SUFFICES ASSUME ImageInv, [ImageNext]_imageVars PROVE ImageInv'
  OBVIOUS
<1>1. /\ Closed \in [mode : {"closed", "ro", "rw"}, pixels : Pixels, units : Units,
                    default : Mask \cup {NoMask}]
      /\ Closed.mode = "closed" /\ Closed.pixels = Blanks /\ Blanks \in Pixels
  BY ImageAssumption DEF Closed, Pixels, Blanks
<1>2. ImageTypeOK /\ CallsKnown
  BY DEF ImageInv
<1>3. CASE CreateImage
  <2>1. /\ pendingWrites = <<>> /\ image' = [Closed EXCEPT !.mode = "rw"]
        /\ pendingWrites' = CreateWrites /\ put_pixels' = Blanks /\ imageDat.state = "none"
        /\ UNCHANGED <<imageDat, imageMap, maskDir, flushed, attempts, madeMask>>
    BY <1>3 DEF CreateImage, Idle
  <2>2. image'.mode = "rw" /\ image'.pixels = Blanks /\ CreateWrites \in ImageFileWrites
    BY <2>1 DEF Closed, ImageFileWrites
  <2>3. ImageTypeOK'
    BY <1>1, <1>2, <2>1, <2>2, WritesTyped DEF ImageTypeOK
  <2>4. CallsKnown'
    BY <2>1, <2>2 DEF CallsKnown, Calling
  <2> QED
    BY <2>1, <2>3, <2>4, MemoryKeeps
<1>4. ASSUME NEW writable \in BOOLEAN, OpenImage(writable) PROVE ImageInv'
  <2>1. /\ pendingWrites = <<>> /\ pendingWrites' = <<>> /\ put_pixels' = imageMap.pixels
        /\ image' = [mode |-> IF writable THEN "rw" ELSE "ro", pixels |-> imageMap.pixels,
                     units |-> imageDat.units, default |-> imageDat.default]
        /\ UNCHANGED <<imageDat, imageMap, maskDir, flushed, attempts, madeMask>>
    BY <1>4 DEF OpenImage, Idle, load_metadata
  <2>2. ImageTypeOK'
    BY <1>2, <2>1 DEF ImageTypeOK
  <2>3. CallsKnown'
    BY <2>1 DEF CallsKnown
  <2> QED
    BY <2>1, <2>2, <2>3, MemoryKeeps
<1>5. CASE DestroyImage
  <2>1. /\ pendingWrites = <<>> /\ pendingWrites' = <<>> /\ put_pixels' = Blanks
        /\ image' = Closed
        /\ UNCHANGED <<imageDat, imageMap, maskDir, flushed, attempts, madeMask>>
    BY <1>5 DEF DestroyImage, Idle
  <2>2. ImageTypeOK'
    BY <1>1, <1>2, <2>1 DEF ImageTypeOK
  <2>3. CallsKnown'
    BY <1>1, <2>1 DEF CallsKnown
  <2> QED
    BY <2>1, <2>2, <2>3, MemoryKeeps
<1>6. ASSUME NEW some \in SUBSET Point \ {{}}, NEW value \in Pixel, PutImage(some, value)
      PROVE  ImageInv'
  <2>1. /\ pendingWrites = <<>> /\ pendingWrites' = <<>> /\ image.mode = "rw"
        /\ image' = [image EXCEPT !.pixels =
                        [p \in Point |-> IF p \in some THEN value ELSE image.pixels[p]]]
        /\ put_pixels' = [p \in Point |-> IF p \in some THEN value ELSE put_pixels[p]]
        /\ UNCHANGED <<imageDat, imageMap, maskDir, flushed, attempts, madeMask>>
    BY <1>6 DEF PutImage, Idle, get
  <2>2. put_pixels = image.pixels
    BY <1>2, <2>1 DEF CallsKnown
  <2>3. put_pixels' \in Pixels
    BY <1>2, <2>1 DEF ImageTypeOK, Pixels
  <2>4. image' = [image EXCEPT !.pixels = put_pixels']
    BY <2>1, <2>2
  <2>5. ImageTypeOK'
    BY <1>2, <2>1, <2>3, <2>4 DEF ImageTypeOK
  <2>6. CallsKnown'
    BY <1>2, <2>1, <2>4 DEF CallsKnown, ImageTypeOK
  <2> QED
    BY <2>1, <2>5, <2>6, MemoryKeeps
<1>7. ASSUME NEW u \in Units, set_units(u) PROVE ImageInv'
  <2>1. /\ pendingWrites = <<>> /\ pendingWrites' = <<>> /\ image' = [image EXCEPT !.units = u]
        /\ UNCHANGED <<put_pixels, imageDat, imageMap, maskDir, flushed, attempts, madeMask>>
    BY <1>7 DEF set_units, Idle
  <2>2. ImageTypeOK'
    BY <1>2, <2>1 DEF ImageTypeOK
  <2>3. CallsKnown'
    BY <1>2, <2>1 DEF CallsKnown, ImageTypeOK
  <2> QED
    BY <2>1, <2>2, <2>3, MemoryKeeps
<1>8. ASSUME NEW m \in Mask, NEW flags \in MaskData, NEW set_default \in BOOLEAN,
             make_mask(m, flags, set_default)
      PROVE  ImageInv'
  <2>1. /\ pendingWrites = <<>> /\ pendingWrites' = MaskWrites(m, flags) /\ image.mode = "rw"
        /\ image' = IF set_default THEN [image EXCEPT !.default = m] ELSE image
        /\ UNCHANGED <<put_pixels, imageDat, imageMap, maskDir, flushed, attempts, madeMask>>
    BY <1>8 DEF make_mask, Idle
  <2>2. ImageTypeOK'
    BY <1>2, <2>1, WritesTyped DEF ImageTypeOK
  <2>3. image'.mode = "rw" /\ image'.pixels = image.pixels /\ MakesMask(pendingWrites', m)
    BY <1>2, <2>1 DEF ImageTypeOK, MakesMask
  <2>4. CallsKnown'
    BY <1>2, <2>1, <2>3 DEF CallsKnown, Calling
  <2> QED
    BY <2>1, <2>2, <2>4, MemoryKeeps
<1>9. CASE FlushImage
  <2>1. /\ pendingWrites = <<>> /\ pendingWrites' = FlushWrites /\ image.mode = "rw"
        /\ UNCHANGED <<image, put_pixels, imageDat, imageMap, maskDir, flushed, attempts, madeMask>>
    BY <1>9 DEF FlushImage, Idle
  <2>2. FlushWrites \in ImageFileWrites
    BY DEF ImageFileWrites
  <2>3. ImageTypeOK'
    BY <1>2, <2>1, <2>2, WritesTyped DEF ImageTypeOK
  <2>4. CallsKnown'
    BY <1>2, <2>1, <2>2 DEF CallsKnown, Calling
  <2> QED
    BY <2>1, <2>3, <2>4, MemoryKeeps
<1>10. CASE UNCHANGED imageVars
  BY <1>10 DEF imageVars, ImageInv, ImageTypeOK, CallsKnown, Calling, NewImage, DatIsFlushed,
               MapIsFlushed, MasksAreWhole
<1> QED
  BY <1>3, <1>4, <1>5, <1>6, <1>7, <1>8, <1>9, <1>10, WriteKeeps, CrashKeeps
     DEF ImageNext, ImageCalls

LEMMA ImageInitInv == ImageInit => ImageInv
<1> SUFFICES ASSUME ImageInit PROVE ImageInv
  OBVIOUS
<1>1. /\ Closed \in [mode : {"closed", "ro", "rw"}, pixels : Pixels, units : Units,
                    default : Mask \cup {NoMask}]
      /\ Closed.mode = "closed" /\ Blanks \in Pixels
  BY ImageAssumption DEF Closed, Pixels, Blanks
<1>2. /\ <<>> \notin ImageFileWrites
  BY CallsDiffer DEF ImageFileWrites
<1>3. ImageTypeOK
  BY <1>1, WritesTyped, ImageAssumption
     DEF ImageInit, ImageTypeOK, NoDat, NoFile, NoMaskDir, FileState
<1>4. CallsKnown
  BY <1>1 DEF ImageInit, CallsKnown
<1>5. NewImage /\ DatIsFlushed /\ MapIsFlushed
  BY <1>2 DEF ImageInit, NewImage, DatIsFlushed, MapIsFlushed, NoDat, NoFile, ImageFileWrites
<1>6. MasksAreWhole
  BY ImageCallsMakeNoMask DEF ImageInit, MasksAreWhole
<1> QED
  BY <1>3, <1>4, <1>5, <1>6 DEF ImageInv

----------------------------------------------------------------------------
THEOREM ImageInvariant == ImageSpec => []ImageInv
<1>1. ImageInit => ImageInv
  BY ImageInitInv
<1>2. ImageInv /\ [ImageNext]_imageVars => ImageInv'
  BY ImageStep
<1> QED
  BY <1>1, <1>2, PTL DEF ImageSpec

\* The files, the image in memory and the writes of a call are well typed
\* whatever is called and wherever the process dies.
THEOREM ImageTypeCorrect == ImageSpec => []ImageTypeOK
<1>1. ImageInv => ImageTypeOK
  BY DEF ImageInv
<1> QED
  BY <1>1, ImageInvariant, PTL

\* An image that can be written shows the pixels put into it, and the default
\* mask of an open image is read back as it was made.
THEOREM ImageShowsWhatWasPutCorrect == ImageSpec => []ImageShowsWhatWasPut
<1>1. ASSUME ImageInv PROVE ImageShowsWhatWasPut
  <2>1. image.mode = "rw" => get = put_pixels
    BY <1>1 DEF ImageInv, CallsKnown, get
  <2>2. ASSUME pendingWrites = <<>>, image.default # NoMask, madeMask[image.default] # Nothing
        PROVE  maskDir[image.default] =
                  [dat |-> "ok", map |-> "ok", data |-> madeMask[image.default]]
    <3>1. image.default \in Mask
      BY <1>1, <2>2 DEF ImageInv, ImageTypeOK
    <3>2. ~MakesMask(pendingWrites, image.default)
      BY <2>2, <3>1, ImageCallsMakeNoMask
    <3> QED
      BY <1>1, <2>2, <3>1, <3>2 DEF ImageInv, MasksAreWhole
  <2> QED
    BY <2>1, <2>2 DEF ImageShowsWhatWasPut
<1> QED
  BY <1>1, ImageInvariant, PTL

\* Wherever the process dies, an image whose table.dat can be read is the one
\* of the last flush, or has the pixels of a flush that was tried after it,
\* and its default mask has been written whole.
THEOREM SavedImageIsWholeCorrect == ImageSpec => []SavedImageIsWhole
<1>1. ASSUME ImageInv PROVE SavedImageIsWhole
  <2> SUFFICES ASSUME image.mode = "closed", imageDat.state = "ok"
               PROVE  /\ [units |-> imageDat.units, default |-> imageDat.default]
                            = [units |-> flushed.units, default |-> flushed.default]
                      /\ imageMap.state = "ok" => imageMap.pixels \in {flushed.pixels} \cup attempts
                      /\ attempts = {} => imageMap.state = "ok"
                      /\ imageDat.default # NoMask /\ madeMask[imageDat.default] # Nothing =>
                            maskDir[imageDat.default] =
                               [dat |-> "ok", map |-> "ok", data |-> madeMask[imageDat.default]]
    BY DEF SavedImageIsWhole
  <2>1. pendingWrites = <<>>
    BY <1>1 DEF ImageInv, CallsKnown
  <2>2. <<>> \notin ImageFileWrites
    BY CallsDiffer DEF ImageFileWrites
  <2>3. /\ imageDat.units = flushed.units /\ imageDat.default = flushed.default
        /\ attempts = {} => imageMap.state = "ok"
    BY <1>1, <2>1, <2>2 DEF ImageInv, DatIsFlushed, ImageFileWrites
  <2>4. imageMap.state = "ok" => imageMap.pixels \in {flushed.pixels} \cup attempts
    BY <1>1, <2>1, <2>2 DEF ImageInv, MapIsFlushed, ImageFileWrites
  <2>5. ASSUME imageDat.default # NoMask, madeMask[imageDat.default] # Nothing
        PROVE  maskDir[imageDat.default] =
                  [dat |-> "ok", map |-> "ok", data |-> madeMask[imageDat.default]]
    <3>1. imageDat.default \in Mask
      BY <1>1, <2>5 DEF ImageInv, ImageTypeOK
    <3> QED
      BY <1>1, <2>1, <2>5, <3>1, ImageCallsMakeNoMask DEF ImageInv, MasksAreWhole
  <2> QED
    BY <2>3, <2>4, <2>5
<1> QED
  BY <1>1, ImageInvariant, PTL

----------------------------------------------------------------------------
(* LatticeRegions: the pixels of a region.                                 *)

PixelsOf(r) == {p \in LatticePoint : pixel_in_region(r, p)}
RegionRecord == [blc : Int \X Int, len : Int \X Int, has_mask : BOOLEAN,
                 mask : SUBSET (Int \X Int)]

LEMMA Bounds == \A x, y \in Int : /\ Lesser(x, y) \in Int /\ Greater(x, y) \in Int
                                  /\ \A z \in Int : /\ z <= Lesser(x, y) <=> z <= x /\ z <= y
                                                    /\ z >= Greater(x, y) <=> z >= x /\ z >= y
                                                    /\ z <= Greater(x, y) <=> z <= x \/ z <= y
                                                    /\ z >= Lesser(x, y) <=> z >= x \/ z >= y
BY DEF Lesser, Greater

LEMMA LatticePoints ==
    /\ LatticeShape[1] \in Nat /\ LatticeShape[2] \in Nat
    /\ \A p : p \in LatticePoint <=>
            /\ p \in Int \X Int
            /\ \A d \in Axis : 0 <= p[d] /\ p[d] < LatticeShape[d]
BY LatticeAssumption DEF LatticePoint, Positions, Axis, Both

\* Positions of a box and points of the lattice.
LEMMA ThereAndBack ==
    ASSUME NEW blc \in Int \X Int, NEW len \in Int \X Int, NEW p \in Int \X Int,
           NEW r, r.blc = blc, r.len = len,
           \A d \in Axis : p[d] >= blc[d] /\ p[d] < blc[d] + len[d]
    PROVE  ToLocal(r, p) \in Positions(len) /\ ToLattice(blc, ToLocal(r, p)) = p
BY DEF ToLocal, ToLattice, Positions, Axis, Both

LEMMA BoxPixels ==
    ASSUME NEW blc \in Int \X Int, NEW trc \in Int \X Int
    PROVE  /\ LcBox(blc, trc) \in RegionRecord
           /\ LcBox(blc, trc).blc = blc
           /\ LcBox(blc, trc).len = <<trc[1] - blc[1] + 1, trc[2] - blc[2] + 1>>
           /\ PixelsOf(LcBox(blc, trc)) = PointsOfBox(blc, trc)
<1>1. LcBox(blc, trc) = [blc |-> blc, len |-> <<trc[1] - blc[1] + 1, trc[2] - blc[2] + 1>>,
                         has_mask |-> FALSE, mask |-> {}]
  BY DEF LcBox, Axis, Both
<1>2. LcBox(blc, trc) \in RegionRecord
  BY <1>1 DEF RegionRecord
<1>3. \A p \in LatticePoint :
        pixel_in_region(LcBox(blc, trc), p) <=> \A d \in Axis : p[d] \in blc[d]..trc[d]
  BY <1>1, LatticePoints DEF pixel_in_region, Axis, Both
<1>4. LcBox(blc, trc).blc = blc
      /\ LcBox(blc, trc).len = <<trc[1] - blc[1] + 1, trc[2] - blc[2] + 1>>
  BY <1>1
<1>5. PixelsOf(LcBox(blc, trc)) = PointsOfBox(blc, trc)
  BY <1>3 DEF PixelsOf, PointsOfBox
<1> QED BY <1>2, <1>4, <1>5

Within(r, p) == \A d \in Axis : p[d] >= r.blc[d] /\ p[d] < r.blc[d] + r.len[d]

LEMMA WithinIsLocal ==
    ASSUME NEW r, r.blc \in Int \X Int, r.len \in Int \X Int, NEW p \in LatticePoint, Within(r, p)
    PROVE  ToLocal(r, p) \in Positions(r.len) /\ ToLattice(r.blc, ToLocal(r, p)) = p
<1>1. p \in Int \X Int
  BY LatticePoints
<1> QED BY <1>1, ThereAndBack DEF Within

\* A mask over a box decides for the points of the lattice in the box.
LEMMA MaskPixels ==
    ASSUME NEW blc \in Int \X Int, NEW len \in Int \X Int, NEW mask \in SUBSET Positions(len),
           NEW S \in SUBSET LatticePoint,
           NEW box, box.blc = blc, box.len = len,
           \A p \in S : Within(box, p),
           \A p \in LatticePoint : Within(box, p) => (ToLocal(box, p) \in mask <=> p \in S)
    PROVE  LcRegion(blc, len, mask) \in RegionRecord /\ PixelsOf(LcRegion(blc, len, mask)) = S
<1> PICK r : r = LcRegion(blc, len, mask)
  OBVIOUS
<1>1. r = [blc |-> blc, len |-> len, has_mask |-> TRUE, mask |-> mask]
  BY DEF LcRegion
<1>2. mask \in SUBSET (Int \X Int)
  BY DEF Positions
<1>3. r \in RegionRecord /\ r.blc = blc /\ r.len = len /\ r.has_mask /\ r.mask = mask
  BY <1>1, <1>2 DEF RegionRecord
<1>4. \A p \in LatticePoint : Within(r, p) <=> Within(box, p)
  BY <1>3 DEF Within
<1>5. \A p : ToLocal(r, p) = ToLocal(box, p)
  BY <1>3 DEF ToLocal
<1>6. \A p \in LatticePoint : pixel_in_region(r, p) <=> p \in S
  BY <1>3, <1>4, <1>5 DEF pixel_in_region, Within
<1>7. PixelsOf(r) = S
  BY <1>6 DEF PixelsOf
<1> QED BY <1>3, <1>7

\* A region with the box of another one and a mask of its own.
LEMMA Masking ==
    ASSUME NEW box \in RegionRecord, NEW mask \in SUBSET Positions(box.len),
           NEW S \in SUBSET LatticePoint,
           \A p \in S : Within(box, p),
           \A p \in LatticePoint :
              Within(box, p) /\ ToLocal(box, p) \in Positions(box.len)
                             /\ ToLattice(box.blc, ToLocal(box, p)) = p
                => (ToLocal(box, p) \in mask <=> p \in S)
    PROVE  /\ LcRegion(box.blc, box.len, mask) \in RegionRecord
           /\ PixelsOf(LcRegion(box.blc, box.len, mask)) = S
<1>1. PICK blc \in Int \X Int, len \in Int \X Int : blc = box.blc /\ len = box.len
  BY DEF RegionRecord
<1>2. \A p \in LatticePoint : Within(box, p) => (ToLocal(box, p) \in mask <=> p \in S)
  BY <1>1, WithinIsLocal
<1> QED BY <1>1, <1>2, MaskPixels

\* A region of the whole lattice.
LEMMA WholePixels ==
    ASSUME NEW S \in SUBSET LatticePoint
    PROVE  /\ LcRegion(Origin, LatticeShape, S) \in RegionRecord
           /\ PixelsOf(LcRegion(Origin, LatticeShape, S)) = S
<1>1. Origin \in Int \X Int /\ LatticeShape \in Int \X Int
  BY LatticeAssumption DEF Origin
<1>3. PICK whole : whole = [blc |-> Origin, len |-> LatticeShape]
  OBVIOUS
<1>4. whole.blc = Origin /\ whole.len = LatticeShape
  BY <1>3
<1>5. \A p \in LatticePoint : Within(whole, p)
  BY <1>4, LatticePoints DEF Within, Origin, Axis
<1>6. \A p \in LatticePoint : ToLocal(whole, p) = p
  BY <1>4, LatticePoints DEF ToLocal, Origin, Axis, Both
<1>7. S \in SUBSET Positions(LatticeShape)
  BY DEF LatticePoint
<1>8. \A p \in LatticePoint : Within(whole, p) => (ToLocal(whole, p) \in S <=> p \in S)
  BY <1>6
<1>9. \A p \in S : Within(whole, p)
  BY <1>5
<1> QED BY <1>1, <1>4, <1>7, <1>8, <1>9, MaskPixels

----------------------------------------------------------------------------
(* Simple regions.                                                         *)

LEMMA PixelSetPixels ==
    ASSUME NEW s \in PixelSets
    PROVE  /\ LcRegion(s.blc, s.len, s.mask) \in RegionRecord
           /\ PixelsOf(LcRegion(s.blc, s.len, s.mask)) = {p \in LatticePoint : ToLocal(s, p) \in s.mask}
<1>1. PICK S : S = {p \in LatticePoint : ToLocal(s, p) \in s.mask}
  OBVIOUS
<1>2. /\ s.blc \in Int \X Int /\ s.len \in Int \X Int
      /\ s.mask \in SUBSET Positions(s.len)
  BY RegionAssumption
<1>3. \A p \in LatticePoint : ToLocal(s, p) \in Positions(s.len) => Within(s, p)
  BY <1>2, LatticePoints DEF ToLocal, Positions, Within, Axis, Both
<1>4. /\ S \in SUBSET LatticePoint
      /\ \A p \in LatticePoint : p \in S <=> ToLocal(s, p) \in s.mask
      /\ \A p \in S : Within(s, p)
  BY <1>1, <1>2, <1>3
<1>5. LcRegion(s.blc, s.len, s.mask) \in RegionRecord /\ PixelsOf(LcRegion(s.blc, s.len, s.mask)) = S
  BY <1>2, <1>4, MaskPixels
<1> QED BY <1>1, <1>5

\* Halves of a pixel, rounded outwards.
LEMMA Rounding ==
    \A low, high, x \in Int : /\ low \div 2 \in Int /\ -((-high) \div 2) \in Int
                              /\ low <= 2 * x => low \div 2 <= x
                              /\ 2 * x <= high => x <= -((-high) \div 2)
                              /\ low \div 2 <= x => low - 1 <= 2 * x
                              /\ x <= -((-high) \div 2) => 2 * x <= high + 1
OBVIOUS

LEMMA Squares ==
    ASSUME NEW x \in Int, NEW s \in Nat, x * x <= s * s
    PROVE  -s <= x /\ x <= s
<1>1. ASSUME NEW y \in Int, y > s PROVE y * y > s * s
  <2>1. y * y >= y * s
    BY <1>1
  <2>2. y * s >= s * s
    BY <1>1
  <2>3. y * y >= y * s + y
    BY <1>1
  <2> QED BY <1>1, <2>2, <2>3
<1>2. CASE x > s
  BY <1>1, <1>2
<1>3. CASE -x > s
  <2>1. (-x) * (-x) > s * s
    BY <1>1, <1>3
  <2> QED BY <2>1
<1> QED BY <1>2, <1>3

\* Of a sum of two squares over the semi axes each is at most one.
LEMMA Summands ==
    ASSUME NEW a \in Nat, NEW b \in Nat, NEW x \in Nat, NEW y \in Nat, a > 0, b > 0,
           x * b + y * a <= a * b
    PROVE  x <= a /\ y <= b
<1>1. y * a >= 0 /\ x * b >= 0
  OBVIOUS
<1>2. ASSUME x > a PROVE FALSE
  <2>1. x * b >= (a + 1) * b
    BY <1>2
  <2>2. (a + 1) * b = a * b + b
    OBVIOUS
  <2> QED BY <1>1, <2>1, <2>2
<1>3. ASSUME y > b PROVE FALSE
  <2>1. y * a >= (b + 1) * a
    BY <1>3
  <2>2. (b + 1) * a = a * b + a
    OBVIOUS
  <2> QED BY <1>1, <2>1, <2>2
<1> QED BY <1>2, <1>3

\* What an ellipse says of one axis.
LEMMA EllipseAxis ==
    ASSUME NEW e \in Ellipses, NEW p \in LatticePoint, InEllipse(e, p),
           NEW d \in Axis, e.semi_axes[d] > 0
    PROVE  -e.semi_axes[d] <= 2 * p[d] - e.center[d] /\ 2 * p[d] - e.center[d] <= e.semi_axes[d]
<1> DEFINE off(k) == 2 * p[k] - e.center[k]
           sq(k) == e.semi_axes[k] * e.semi_axes[k]
           round == {k \in Axis : e.semi_axes[k] > 0}
<1>1. \A k \in Axis : e.semi_axes[k] \in Nat /\ e.center[k] \in Int /\ p[k] \in Int
  BY RegionAssumption, LatticePoints DEF Axis
<1>2. \A k \in Axis : off(k) \in Int /\ off(k) * off(k) \in Nat /\ sq(k) \in Nat
  BY <1>1
<1>3. off(d) * off(d) <= sq(d)
  <2>1. CASE round = {d}
    <3>1. CASE d = 1
      BY <2>1, <3>1 DEF InEllipse
    <3>2. CASE d = 2
      BY <2>1, <3>2 DEF InEllipse
    <3> QED BY <3>1, <3>2 DEF Axis
  <2>2. CASE round = {1, 2}
    <3>1. off(1) * off(1) * sq(2) + off(2) * off(2) * sq(1) <= sq(1) * sq(2)
      BY <2>2 DEF InEllipse
    <3>2. sq(1) > 0 /\ sq(2) > 0
      <4>1. e.semi_axes[1] > 0 /\ e.semi_axes[2] > 0
        BY <2>2
      <4> QED BY <1>1, <4>1 DEF Axis
    <3>3. off(1) * off(1) <= sq(1) /\ off(2) * off(2) <= sq(2)
      <4> HIDE DEF off, sq
      <4> QED BY <1>2, <3>1, <3>2, Summands DEF Axis
    <3> QED BY <3>3 DEF Axis
  <2> QED BY <2>1, <2>2 DEF Axis
<1> QED BY <1>1, <1>2, <1>3, Squares

LEMMA EllipsePixels ==
    ASSUME NEW e \in Ellipses
    PROVE  LcEllipsoid(e) \in RegionRecord /\ PixelsOf(LcEllipsoid(e)) = PointsOfEllipse(e)
<1>1. \A d \in Axis : /\ e.semi_axes[d] \in Nat /\ e.center[d] \in Int
                      /\ e.center[d] - e.semi_axes[d] \in Int /\ e.center[d] + e.semi_axes[d] \in Int
                      /\ LatticeShape[d] \in Int
  BY RegionAssumption, LatticePoints DEF Axis
<1> DEFINE low(d) == e.center[d] - e.semi_axes[d]
           high(d) == e.center[d] + e.semi_axes[d]
           blc(d) == Greater(0, low(d) \div 2)
           trc(d) == Lesser(LatticeShape[d] - 1, -((-high(d)) \div 2))
           B == <<blc(1), blc(2)>>
           U == <<trc(1), trc(2)>>
<1>2. PICK box : box = LcBox(B, U)
  OBVIOUS
<1>3. PICK mask : mask = {p \in Positions(box.len) : InEllipse(e, ToLattice(box.blc, p))}
  OBVIOUS
<1>4. \A d \in Axis : blc(d) \in Int /\ trc(d) \in Int
  BY <1>1, Rounding DEF Lesser, Greater
<1>5. B \in Int \X Int /\ U \in Int \X Int
  BY <1>4 DEF Axis
<1>6. LcEllipsoid(e) = LcRegion(box.blc, box.len, mask)
  <2>1. RoundedBox(Both([d \in Axis |-> low(d)]), Both([d \in Axis |-> high(d)])) = box
    BY <1>2 DEF RoundedBox, Axis, Both
  <2> QED BY <1>3, <2>1 DEF LcEllipsoid
<1>7. box \in RegionRecord /\ box.blc = B /\ box.len = <<U[1] - B[1] + 1, U[2] - B[2] + 1>>
  <2> HIDE DEF B, U
  <2> QED BY <1>2, <1>5, BoxPixels
<1>9. \A p \in LatticePoint, d \in Axis :
        p[d] >= box.blc[d] /\ p[d] < box.blc[d] + box.len[d] <=> low(d) - 1 <= 2 * p[d] /\ 2 * p[d] <= high(d) + 1
  <2> TAKE p \in LatticePoint, d \in Axis
  <2>1. box.blc[d] = blc(d) /\ box.len[d] = trc(d) - blc(d) + 1
    <3> HIDE DEF blc, trc
    <3> QED BY <1>7 DEF Axis
  <2>2. p[d] \in Int /\ 0 <= p[d] /\ p[d] <= LatticeShape[d] - 1
    BY <1>1, LatticePoints DEF Axis
  <2>3. p[d] >= blc(d) <=> low(d) - 1 <= 2 * p[d]
    BY <1>1, <2>2 DEF Greater
  <2>4. p[d] <= trc(d) <=> 2 * p[d] <= high(d) + 1
    BY <1>1, <2>2 DEF Lesser
  <2> HIDE DEF blc, trc, low, high
  <2> QED BY <1>4, <2>1, <2>2, <2>3, <2>4
<1> HIDE DEF B, U
<1>10. \A p \in LatticePoint :
        p \in PointsOfEllipse(e) <=>
            InEllipse(e, p) /\ Within(box, p)
  <2> TAKE p \in LatticePoint
  <2>1. \A d \in Axis : p[d] \in Int
    BY LatticePoints DEF Axis
  <2>2. ASSUME NEW d \in Axis, InEllipse(e, p)
        PROVE  (low(d) - 1 <= 2 * p[d] /\ 2 * p[d] <= high(d) + 1)
                  <=> (e.semi_axes[d] = 0 => 2 * p[d] - e.center[d] \in -1..1)
    <3>1. CASE e.semi_axes[d] = 0
      <4>1. low(d) = e.center[d] /\ high(d) = e.center[d]
        BY <1>1, <3>1
      <4>2. p[d] \in Int /\ e.center[d] \in Int
        BY <1>1, <2>1
      <4> HIDE DEF low, high
      <4> QED BY <3>1, <4>1, <4>2
    <3>2. CASE e.semi_axes[d] > 0
      <4>1. -e.semi_axes[d] <= 2 * p[d] - e.center[d] /\ 2 * p[d] - e.center[d] <= e.semi_axes[d]
        BY <2>2, <3>2, EllipseAxis
      <4> QED BY <1>1, <2>1, <3>2, <4>1
    <3> QED BY <1>1, <3>1, <3>2
  <2> HIDE DEF low, high
  <2> QED BY <1>9, <2>2 DEF PointsOfEllipse, Within
<1>11. PointsOfEllipse(e) \in SUBSET LatticePoint /\ mask \in SUBSET Positions(box.len)
  BY <1>3 DEF PointsOfEllipse
<1> QED BY <1>3, <1>6, <1>7, <1>10, <1>11, Masking

----------------------------------------------------------------------------
(* Induction on natural numbers, as the existence of a least one.          *)

LessThan == {ss \in Nat \X Nat : ss[1] < ss[2]}

LEMMA LessThanWellFounded == IsWellFoundedOn(LessThan, Nat)
<1>1. LessThan = OpToRel(<, Nat)
  BY Zenon DEF OpToRel, LessThan
<1>2. IsWellFoundedOn(OpToRel(<, Nat), Nat)
  BY NatLessThanWellFounded
<1> QED BY <1>1, <1>2

LEMMA LeastNat ==
    ASSUME NEW T, T \subseteq Nat, T # {}
    PROVE  \E x \in T : \A y \in T : x <= y
<1>1. PICK x \in T : \A y \in T : ~ (<<y, x>> \in LessThan)
  BY LessThanWellFounded, WFMin
<1>2. \A y \in T : x <= y
  <2> TAKE y \in T
  <2>1. x \in Nat /\ y \in Nat
    OBVIOUS
  <2>2. y < x => <<y, x>> \in LessThan
    BY <2>1 DEF LessThan
  <2> QED BY <1>1, <2>1, <2>2
<1> QED BY <1>2

----------------------------------------------------------------------------
(* Going round a polygon.                                                  *)

LEMMA BeforeIs ==
    ASSUME NEW n \in Nat, n > 2
    PROVE  \A i \in 1..n : /\ Before(i, n) \in 1..n
                           /\ i > 1 => Before(i, n) = i - 1
                           /\ i = 1 => Before(i, n) = n
BY DEF Before

\* Every vertex comes before one.
LEMMA AfterIs ==
    ASSUME NEW n \in Nat, n > 2, NEW i \in 1..n
    PROVE  \E k \in 1..n : i = Before(k, n)
<1>1. CASE i = n
  BY <1>1 DEF Before
<1>2. CASE i < n
  <2>1. i + 1 \in 1..n /\ Before(i + 1, n) = i
    BY <1>2 DEF Before
  <2> QED BY <2>1
<1> QED BY <1>1, <1>2

\* What each vertex hands on to the next is true of all of them.
LEMMA Round ==
    ASSUME NEW n \in Nat, n > 2, NEW S \in SUBSET (1..n), S # {},
           \A i \in 1..n : Before(i, n) \in S => i \in S
    PROVE  S = 1..n
<1>1. ASSUME NEW k \in S PROVE \A i \in 1..n : i >= k => i \in S
  <2> DEFINE T == {i \in 1..n : i >= k /\ i \notin S}
  <2>1. SUFFICES ASSUME T # {} PROVE FALSE
    OBVIOUS
  <2>2. T \subseteq Nat
    OBVIOUS
  <2>3. PICK i \in T : \A j \in T : i <= j
    BY <2>1, <2>2, LeastNat
  <2>4. i \in 1..n /\ k \in 1..n /\ i > k /\ i \notin S
    BY <2>3
  <2>5. i - 1 \in 1..n /\ i - 1 \notin T
    BY <2>3, <2>4
  <2>6. i - 1 \in S
    BY <2>4, <2>5
  <2>7. Before(i, n) = i - 1
    BY <2>4 DEF Before
  <2> QED BY <2>4, <2>6, <2>7
<1>2. PICK k \in S : TRUE
  OBVIOUS
<1>3. n \in S
  BY <1>1, <1>2
<1>4. 1 \in S
  BY <1>3 DEF Before
<1>5. \A i \in 1..n : i \in S
  BY <1>1, <1>4
<1> QED BY <1>5

Height(v, i) == v[i][2]
Polygonal(v) == v \in Seq(Int \X Int) /\ Len(v) > 2

LEMMA Vertices ==
    ASSUME NEW v, Polygonal(v)
    PROVE  /\ Len(v) \in Nat /\ Len(v) > 2 /\ DOMAIN v = 1..Len(v)
           /\ \A i \in 1..Len(v) : /\ v[i][1] \in Int /\ v[i][2] \in Int
                                   /\ Before(i, Len(v)) \in 1..Len(v)
<1>1. Len(v) \in Nat /\ Len(v) > 2 /\ DOMAIN v = 1..Len(v)
  BY DEF Polygonal
<1>2. \A i \in 1..Len(v) : v[i] \in Int \X Int
  BY <1>1 DEF Polygonal
<1> QED BY <1>1, <1>2, BeforeIs

\* An outline that rises past a height falls past it, and one that does not lies
\* on one side of it.
LEMMA RisesAndFalls ==
    ASSUME NEW v, Polygonal(v), NEW y \in Int
    PROVE  \/ (\E i \in 1..Len(v) : Rises(v, i, y)) /\ (\E i \in 1..Len(v) : Falls(v, i, y))
           \/ /\ \A i \in 1..Len(v) : ~Rises(v, i, y) /\ ~Falls(v, i, y)
              /\ \/ \A i \in 1..Len(v) : y < v[i][2]
                 \/ \A i \in 1..Len(v) : v[i][2] <= y
<1> DEFINE n == Len(v)
           Over == {i \in 1..n : y < v[i][2]}
           Under == {i \in 1..n : v[i][2] <= y}
<1>1. /\ n \in Nat /\ n > 2
      /\ \A i \in 1..n : v[i][2] \in Int /\ Before(i, n) \in 1..n
  BY Vertices
<1>2. \A i \in 1..n : i \in Over <=> i \notin Under
  BY <1>1
<1>3. \A i \in 1..n : /\ Rises(v, i, y) <=> Before(i, n) \in Under /\ i \in Over
                      /\ Falls(v, i, y) <=> Before(i, n) \in Over /\ i \in Under
  BY <1>1 DEF Rises, Falls
<1>4. Over \in SUBSET (1..n) /\ Under \in SUBSET (1..n)
  OBVIOUS
<1>5. (\A i \in Over : y < v[i][2]) /\ (\A i \in Under : v[i][2] <= y)
  OBVIOUS
<1> HIDE DEF Over, Under, n
<1>6. CASE \A i \in 1..n : ~Falls(v, i, y)
  <2>1. \A i \in 1..n : Before(i, n) \in Over => i \in Over
    BY <1>2, <1>3, <1>6
  <2>2. Over = {} \/ Over = 1..n
    BY <1>1, <1>4, <2>1, Round
  <2> QED BY <1>1, <1>2, <1>3, <1>5, <1>6, <2>2 DEF n
<1>7. CASE \A i \in 1..n : ~Rises(v, i, y)
  <2>1. \A i \in 1..n : Before(i, n) \in Under => i \in Under
    BY <1>2, <1>3, <1>7
  <2>2. Under = {} \/ Under = 1..n
    BY <1>1, <1>4, <2>1, Round
  <2> QED BY <1>1, <1>2, <1>3, <1>5, <1>7, <2>2 DEF n
<1> QED BY <1>6, <1>7 DEF n

\* The least and the greatest coordinate of an outline.
LEMMA Extremes ==
    ASSUME NEW v, Polygonal(v), NEW d \in 1..2
    PROVE  /\ \E k \in 1..Len(v) : \A i \in 1..Len(v) : v[k][d] <= v[i][d]
           /\ \E k \in 1..Len(v) : \A i \in 1..Len(v) : v[k][d] >= v[i][d]
<1> DEFINE n == Len(v)
           LowTo(m) == \E k \in 1..m : \A i \in 1..m : v[k][d] <= v[i][d]
           HighTo(m) == \E k \in 1..m : \A i \in 1..m : v[k][d] >= v[i][d]
           T == {m \in 1..n : ~(LowTo(m) /\ HighTo(m))}
<1>1. n \in Nat /\ n > 2 /\ \A i \in 1..n : v[i][d] \in Int
  BY Vertices
<1>2. LowTo(1) /\ HighTo(1)
  <2>1. v[1][d] \in Int
    BY <1>1
  <2>2. \A i \in 1..1 : i = 1
    OBVIOUS
  <2> QED BY <2>1, <2>2
<1>3. ASSUME NEW m \in 1..n, m + 1 \in 1..n, LowTo(m), HighTo(m) PROVE LowTo(m + 1) /\ HighTo(m + 1)
  <2>1. \A i \in 1..(m + 1) : (i \in 1..m \/ i = m + 1) /\ v[i][d] \in Int
    BY <1>1, <1>3
  <2>2. LowTo(m + 1)
    <3>1. PICK k \in 1..m : \A i \in 1..m : v[k][d] <= v[i][d]
      BY <1>3
    <3>2. k \in 1..(m + 1) /\ m + 1 \in 1..(m + 1)
      OBVIOUS
    <3>3. CASE v[k][d] <= v[m + 1][d]
      <4>1. \A i \in 1..(m + 1) : v[k][d] <= v[i][d]
        BY <2>1, <3>1, <3>3
      <4> QED BY <3>2, <4>1
    <3>4. CASE v[m + 1][d] < v[k][d]
      <4>1. PICK j \in 1..(m + 1) : j = m + 1
        BY <3>2
      <4>2. \A i \in 1..(m + 1) : v[j][d] <= v[i][d]
        BY <2>1, <3>1, <3>2, <3>4, <4>1
      <4> QED BY <4>2
    <3>5. v[k][d] <= v[m + 1][d] \/ v[m + 1][d] < v[k][d]
      BY <2>1, <3>2
    <3> QED BY Zenon, <3>3, <3>4, <3>5
  <2>3. HighTo(m + 1)
    <3>1. PICK k \in 1..m : \A i \in 1..m : v[k][d] >= v[i][d]
      BY <1>3
    <3>2. k \in 1..(m + 1) /\ m + 1 \in 1..(m + 1)
      OBVIOUS
    <3>3. CASE v[k][d] >= v[m + 1][d]
      <4>1. \A i \in 1..(m + 1) : v[k][d] >= v[i][d]
        BY <2>1, <3>1, <3>3
      <4> QED BY <3>2, <4>1
    <3>4. CASE v[m + 1][d] > v[k][d]
      <4>1. PICK j \in 1..(m + 1) : j = m + 1
        BY <3>2
      <4>2. \A i \in 1..(m + 1) : v[j][d] >= v[i][d]
        BY <2>1, <3>1, <3>2, <3>4, <4>1
      <4> QED BY <4>2
    <3>5. v[k][d] >= v[m + 1][d] \/ v[m + 1][d] > v[k][d]
      BY <2>1, <3>2
    <3> QED BY Zenon, <3>3, <3>4, <3>5
  <2> QED BY <2>2, <2>3
<1>4. T = {}
  <2>1. SUFFICES ASSUME T # {} PROVE FALSE
    OBVIOUS
  <2>2. T \subseteq Nat /\ \A m \in T : m \in 1..n /\ ~(LowTo(m) /\ HighTo(m))
    OBVIOUS
  <2>3. \A m \in 1..n : ~(LowTo(m) /\ HighTo(m)) => m \in T
    OBVIOUS
  <2> HIDE DEF T
  <2>4. PICK m \in T : \A k \in T : m <= k
    BY <2>1, <2>2, LeastNat
  <2> HIDE DEF LowTo, HighTo
  <2>5. m \in 1..n /\ m # 1
    BY <1>2, <2>2
  <2>6. m - 1 \in 1..n /\ m - 1 \notin T /\ (m - 1) + 1 = m
    BY <2>4, <2>5
  <2> QED BY <1>3, <2>2, <2>3, <2>5, <2>6
<1>5. n \in 1..n
  BY <1>1
<1>6. LowTo(n) /\ HighTo(n)
  <2>1. n \notin T
    BY <1>4
  <2> QED BY <1>5, <2>1
<1> QED BY <1>6

LEMMA Corners ==
    ASSUME NEW v, Polygonal(v), NEW d \in Axis
    PROVE  LET S == {v[i][d] : i \in DOMAIN v}
           IN  Min(S) \in Int /\ Max(S) \in Int /\ \A i \in 1..Len(v) : Min(S) <= v[i][d] /\ v[i][d] <= Max(S)
<1> DEFINE S == {v[i][d] : i \in DOMAIN v}
<1>1. DOMAIN v = 1..Len(v) /\ \A i \in 1..Len(v) : v[i][d] \in Int
  BY Vertices DEF Axis
<1>2. S \in SUBSET Int /\ \A i \in 1..Len(v) : v[i][d] \in S
  BY <1>1
<1>3. (\E x \in S : \A y \in S : x <= y) /\ (\E x \in S : \A y \in S : x >= y)
  <2>1. d \in 1..2
    BY DEF Axis
  <2>2. PICK k \in 1..Len(v) : \A i \in 1..Len(v) : v[k][d] <= v[i][d]
    BY <2>1, Extremes
  <2>3. PICK m \in 1..Len(v) : \A i \in 1..Len(v) : v[m][d] >= v[i][d]
    BY <2>1, Extremes
  <2>4. \A y \in S : v[k][d] <= y /\ v[m][d] >= y
    BY <1>1, <2>2, <2>3
  <2> QED BY <1>2, <2>4
<1> HIDE DEF S
<1>4. /\ Min(S) \in S /\ \A y \in S : Min(S) <= y
      /\ Max(S) \in S /\ \A y \in S : Max(S) >= y
  BY <1>3 DEF Min, Max
<1>5. /\ Min(S) \in Int /\ Max(S) \in Int
      /\ \A i \in 1..Len(v) : Min(S) <= v[i][d] /\ v[i][d] <= Max(S)
  BY <1>2, <1>4
<1> QED BY <1>5 DEF S

----------------------------------------------------------------------------
(* Arithmetic of the sides of edges.                                       *)

\* The sides of the two edges of a corner, and the corner's turn.
LEMMA CornerSides ==
    ASSUME NEW dx1 \in Int, NEW dy1 \in Int, NEW dx2 \in Int, NEW dy2 \in Int,
           NEW qx \in Int, NEW qy \in Int
    PROVE  dy2 * (dx1 * qy - dy1 * qx) - dy1 * (dx2 * qy - dy2 * qx) = qy * (dx1 * dy2 - dy1 * dx2)
OBVIOUS

LEMMA Signs ==
    /\ \A x, y \in Int : /\ x >= 0 /\ y >= 0 => x * y >= 0
                         /\ x > 0 /\ y > 0 => x * y > 0
                         /\ x <= 0 /\ y >= 0 => x * y <= 0
                         /\ x < 0 /\ y > 0 => x * y < 0
                         /\ x >= 0 /\ y <= 0 => x * y <= 0
                         /\ x > 0 /\ y < 0 => x * y < 0
                         /\ x <= 0 /\ y <= 0 => x * y >= 0
                         /\ x < 0 /\ y < 0 => x * y > 0
OBVIOUS

\* A position whose height passes between two edges.
LEMMA AlongRising ==
    ASSUME NEW a1 \in Int, NEW a2 \in Int, NEW b1 \in Int, NEW b2 \in Int, NEW x \in Int, NEW y \in Int,
           NEW ex \in Int, NEW ey \in Int, NEW g1 \in Int, NEW g2 \in Int
    PROVE  (b2 - a2) * (ex * (y - g2) - ey * (x - g1))
              = (b2 - y) * (ex * (a2 - g2) - ey * (a1 - g1))
                + (y - a2) * (ex * (b2 - g2) - ey * (b1 - g1))
                + ey * ((b1 - a1) * (y - a2) - (b2 - a2) * (x - a1))
OBVIOUS

LEMMA CrossesRising ==
    ASSUME NEW a1 \in Int, NEW a2 \in Int, NEW b1 \in Int, NEW b2 \in Int,
           NEW x \in Int, NEW y \in Int, a2 <= y, y < b2
    PROVE  Crosses(<<b1, b2>>, <<a1, a2>>, x, y) <=> (b1 - a1) * (y - a2) - (b2 - a2) * (x - a1) > 0
<1>1. (b2 > y) # (a2 > y) /\ ~(a2 - b2 > 0)
  OBVIOUS
<1>2. Crosses(<<b1, b2>>, <<a1, a2>>, x, y) <=> (x - b1) * (a2 - b2) > (a1 - b1) * (y - b2)
  BY <1>1 DEF Crosses
<1>3. (x - b1) * (a2 - b2) - (a1 - b1) * (y - b2) = (b1 - a1) * (y - a2) - (b2 - a2) * (x - a1)
  OBVIOUS
<1> QED BY <1>2, <1>3

LEMMA CrossesFalling ==
    ASSUME NEW a1 \in Int, NEW a2 \in Int, NEW b1 \in Int, NEW b2 \in Int,
           NEW x \in Int, NEW y \in Int, b2 <= y, y < a2
    PROVE  Crosses(<<b1, b2>>, <<a1, a2>>, x, y) <=> (b1 - a1) * (y - a2) - (b2 - a2) * (x - a1) < 0
<1>1. (b2 > y) # (a2 > y) /\ a2 - b2 > 0
  OBVIOUS
<1>2. Crosses(<<b1, b2>>, <<a1, a2>>, x, y) <=> (x - b1) * (a2 - b2) < (a1 - b1) * (y - b2)
  BY <1>1 DEF Crosses
<1>3. (x - b1) * (a2 - b2) - (a1 - b1) * (y - b2) = (b1 - a1) * (y - a2) - (b2 - a2) * (x - a1)
  OBVIOUS
<1> QED BY <1>2, <1>3

\* The same, between the ends of a falling edge.
LEMMA AlongFalling ==
    ASSUME NEW c1 \in Int, NEW c2 \in Int, NEW d1 \in Int, NEW d2 \in Int, NEW x \in Int, NEW y \in Int,
           NEW ex \in Int, NEW ey \in Int, NEW g1 \in Int, NEW g2 \in Int
    PROVE  (c2 - d2) * (ex * (y - g2) - ey * (x - g1))
              = (c2 - y) * (ex * (d2 - g2) - ey * (d1 - g1))
                + (y - d2) * (ex * (c2 - g2) - ey * (c1 - g1))
                - ey * ((d1 - c1) * (y - c2) - (d2 - c2) * (x - c1))
<1>1. (c2 - d2) * (ex * (y - g2) - ey * (x - g1))
              = (c2 - y) * (ex * (d2 - g2) - ey * (d1 - g1))
                + (y - d2) * (ex * (c2 - g2) - ey * (c1 - g1))
                + ey * ((c1 - d1) * (y - d2) - (c2 - d2) * (x - d1))
  BY AlongRising
<1>2. (c1 - d1) * (y - d2) - (c2 - d2) * (x - d1) = -((d1 - c1) * (y - c2) - (d2 - c2) * (x - c1))
  OBVIOUS
<1> QED BY <1>1, <1>2

LEMMA Side ==
    ASSUME NEW v, Polygonal(v), NEW i \in 1..Len(v), NEW x \in Int, NEW y \in Int
    PROVE  LET a == v[Before(i, Len(v))]
           IN  /\ SideOf(v, i, <<x, y>>) = (v[i][1] - a[1]) * (y - a[2]) - (v[i][2] - a[2]) * (x - a[1])
               /\ SideOf(v, i, <<x, y>>) \in Int
<1>1. /\ v[i][1] \in Int /\ v[i][2] \in Int /\ Before(i, Len(v)) \in 1..Len(v)
      /\ v[Before(i, Len(v))][1] \in Int /\ v[Before(i, Len(v))][2] \in Int
  BY Vertices
<1> DEFINE a == v[Before(i, Len(v))]
<1>2. SideOf(v, i, <<x, y>>) = (v[i][1] - a[1]) * (y - a[2]) - (v[i][2] - a[2]) * (x - a[1])
  <2>1. SideOf(v, i, <<x, y>>) = (v[i][1] - a[1]) * (<<x, y>>[2] - a[2]) - (v[i][2] - a[2]) * (<<x, y>>[1] - a[1])
    BY Zenon DEF SideOf
  <2>2. <<x, y>>[1] = x /\ <<x, y>>[2] = y
    OBVIOUS
  <2> QED BY Zenon, <2>1, <2>2
<1>3. (v[i][1] - a[1]) * (y - a[2]) - (v[i][2] - a[2]) * (x - a[1]) \in Int
  <2>1. v[i][1] - a[1] \in Int /\ v[i][2] - a[2] \in Int /\ y - a[2] \in Int /\ x - a[1] \in Int
    BY <1>1
  <2>2. \A p, q, r, z \in Int : p * q - r * z \in Int
    OBVIOUS
  <2> QED BY Zenon, <2>1, <2>2
<1> QED BY Zenon, <1>2, <1>3

LEMMA SideOfVertex ==
    ASSUME NEW v, Polygonal(v), NEW i \in 1..Len(v), NEW k \in 1..Len(v)
    PROVE  /\ SideOf(v, i, v[k]) = SideOf(v, i, <<v[k][1], v[k][2]>>)
           /\ SideOf(v, i, v[k]) \in Int
<1>1. v[k][1] \in Int /\ v[k][2] \in Int
  BY Vertices
<1>2. SideOf(v, i, v[k]) = SideOf(v, i, <<v[k][1], v[k][2]>>)
  BY DEF SideOf
<1> QED BY <1>1, <1>2, Side

\* A ray crosses the rising edge with the position on its left, and the falling
\* one with the position on its right.
LEMMA EdgeCrossed ==
    ASSUME NEW v, Polygonal(v), NEW i \in 1..Len(v), NEW x \in Int, NEW y \in Int
    PROVE  Crosses(v[i], v[Before(i, Len(v))], x, y)
              <=> \/ Rises(v, i, y) /\ SideOf(v, i, <<x, y>>) > 0
                  \/ Falls(v, i, y) /\ SideOf(v, i, <<x, y>>) < 0
<1> DEFINE j == Before(i, Len(v))
<1>1. /\ v[i][1] \in Int /\ v[i][2] \in Int /\ v[j][1] \in Int /\ v[j][2] \in Int
  BY Vertices
<1>2. SideOf(v, i, <<x, y>>) = (v[i][1] - v[j][1]) * (y - v[j][2]) - (v[i][2] - v[j][2]) * (x - v[j][1])
  BY Side
<1>3. Crosses(v[i], v[j], x, y) <=> Crosses(<<v[i][1], v[i][2]>>, <<v[j][1], v[j][2]>>, x, y)
  BY DEF Crosses
<1>4. CASE Rises(v, i, y)
  <2>1. v[j][2] <= y /\ y < v[i][2] /\ ~Falls(v, i, y)
    BY <1>1, <1>4 DEF Rises, Falls
  <2>3. Crosses(<<v[i][1], v[i][2]>>, <<v[j][1], v[j][2]>>, x, y)
           <=> (v[i][1] - v[j][1]) * (y - v[j][2]) - (v[i][2] - v[j][2]) * (x - v[j][1]) > 0
    <3> HIDE DEF j
    <3> QED BY <1>1, <2>1, CrossesRising
  <2>2. Crosses(<<v[i][1], v[i][2]>>, <<v[j][1], v[j][2]>>, x, y) <=> SideOf(v, i, <<x, y>>) > 0
    BY Zenon, <1>2, <2>3
  <2> QED BY <1>3, <1>4, <2>1, <2>2
<1>5. CASE Falls(v, i, y)
  <2>1. v[i][2] <= y /\ y < v[j][2] /\ ~Rises(v, i, y)
    BY <1>1, <1>5 DEF Rises, Falls
  <2>3. Crosses(<<v[i][1], v[i][2]>>, <<v[j][1], v[j][2]>>, x, y)
           <=> (v[i][1] - v[j][1]) * (y - v[j][2]) - (v[i][2] - v[j][2]) * (x - v[j][1]) < 0
    <3> HIDE DEF j
    <3> QED BY <1>1, <2>1, CrossesFalling
  <2>2. Crosses(<<v[i][1], v[i][2]>>, <<v[j][1], v[j][2]>>, x, y) <=> SideOf(v, i, <<x, y>>) < 0
    BY Zenon, <1>2, <2>3
  <2> QED BY <1>3, <1>5, <2>1, <2>2
<1>6. CASE ~Rises(v, i, y) /\ ~Falls(v, i, y)
  <2>1. (v[i][2] > y) <=> (v[j][2] > y)
    BY <1>1, <1>6 DEF Rises, Falls
  <2> QED BY <1>6, <2>1 DEF Crosses
<1> QED BY <1>4, <1>5, <1>6

\* The outline passes any height at most once each way.
LEMMA OncePassed ==
    ASSUME NEW v, Polygonal(v), Convex(v), NEW y \in Int,
           NEW i \in 1..Len(v), NEW k \in 1..Len(v)
    PROVE  /\ Rises(v, i, y) /\ Rises(v, k, y) => i = k
           /\ Falls(v, i, y) /\ Falls(v, k, y) => i = k
<1> DEFINE n == Len(v)
<1>1. /\ DOMAIN v = 1..n
      /\ \A m \in 1..n : v[m][2] \in Int /\ Before(m, n) \in 1..n
  BY Vertices
<1>2. \A m \in 1..n : (Rises(v, i, v[m][2]) /\ Rises(v, k, v[m][2])) \/ (Falls(v, i, v[m][2]) /\ Falls(v, k, v[m][2])) => i = k
  BY <1>1 DEF Convex
<1>3. ASSUME Rises(v, i, y), Rises(v, k, y) PROVE i = k
  <2>1. PICK m \in 1..n : /\ v[Before(i, n)][2] <= v[m][2] /\ v[Before(k, n)][2] <= v[m][2]
                          /\ v[m][2] <= y
    <3>1. /\ v[Before(i, n)][2] \in Int /\ v[Before(k, n)][2] \in Int
          /\ v[Before(i, n)][2] <= y /\ v[Before(k, n)][2] <= y
      BY <1>1, <1>3 DEF Rises
    <3>2. CASE v[Before(i, n)][2] <= v[Before(k, n)][2]
      <4>1. PICK m \in 1..n : m = Before(k, n)
        BY <1>1
      <4>2. v[Before(i, n)][2] <= v[m][2] /\ v[Before(k, n)][2] <= v[m][2] /\ v[m][2] <= y
        BY <3>1, <3>2, <4>1
      <4> QED BY Zenon, <4>2
    <3>3. CASE v[Before(k, n)][2] <= v[Before(i, n)][2]
      <4>1. PICK m \in 1..n : m = Before(i, n)
        BY <1>1
      <4>2. v[Before(i, n)][2] <= v[m][2] /\ v[Before(k, n)][2] <= v[m][2] /\ v[m][2] <= y
        BY <3>1, <3>3, <4>1
      <4> QED BY Zenon, <4>2
    <3> QED BY <3>1, <3>2, <3>3
  <2>2. PICK z \in Int : z = v[m][2]
    BY <1>1
  <2>3. v[i][2] \in Int /\ v[k][2] \in Int /\ y < v[i][2] /\ y < v[k][2] /\ z <= y
    BY <1>1, <1>3, <2>1, <2>2 DEF Rises
  <2>4. Rises(v, i, z) /\ Rises(v, k, z)
    BY <2>1, <2>2, <2>3 DEF Rises
  <2> QED BY <1>2, <2>2, <2>4
<1>4. ASSUME Falls(v, i, y), Falls(v, k, y) PROVE i = k
  <2>1. PICK m \in 1..n : v[i][2] <= v[m][2] /\ v[k][2] <= v[m][2] /\ v[m][2] <= y
    <3>1. v[i][2] \in Int /\ v[k][2] \in Int /\ v[i][2] <= y /\ v[k][2] <= y
      BY <1>1, <1>4 DEF Falls
    <3>2. CASE v[i][2] <= v[k][2]
      <4>1. v[i][2] <= v[k][2] /\ v[k][2] <= v[k][2] /\ v[k][2] <= y
        BY <3>1, <3>2
      <4> QED BY Zenon, <4>1
    <3>3. CASE v[k][2] <= v[i][2]
      <4>1. v[i][2] <= v[i][2] /\ v[k][2] <= v[i][2] /\ v[i][2] <= y
        BY <3>1, <3>3
      <4> QED BY Zenon, <4>1
    <3> QED BY <3>1, <3>2, <3>3
  <2>2. PICK z \in Int : z = v[m][2]
    BY <1>1
  <2>3. /\ v[Before(i, n)][2] \in Int /\ v[Before(k, n)][2] \in Int
        /\ y < v[Before(i, n)][2] /\ y < v[Before(k, n)][2] /\ z <= y
    BY <1>1, <1>4, <2>1, <2>2 DEF Falls
  <2>4. Falls(v, i, z) /\ Falls(v, k, z)
    BY <2>1, <2>2, <2>3 DEF Falls
  <2> QED BY <1>2, <2>2, <2>4
<1> QED BY <1>3, <1>4

Turned(v, t) ==
    \A i, k \in 1..Len(v) : /\ t * SideOf(v, i, v[k]) >= 0
                            /\ i = Before(k, Len(v)) => t * SideOf(v, i, v[k]) > 0

\* At a lowest or a highest corner with a position on the same side of both its
\* edges, the corner's turn tells whether the position is above or below it.
LEMMA CornerArithmetic ==
    ASSUME NEW s \in {-1, 1}, NEW dx1 \in Int, NEW dy1 \in Int, NEW dx2 \in Int, NEW dy2 \in Int,
           NEW qx \in Int, NEW qy \in Int,
           s * (dx1 * qy - dy1 * qx) > 0, s * (dx2 * qy - dy2 * qx) > 0,
           dx1 * dy2 - dy1 * dx2 # 0
    PROVE  /\ dy1 <= 0 /\ dy2 >= 0 => s * (qy * (dx1 * dy2 - dy1 * dx2)) > 0
           /\ dy1 >= 0 /\ dy2 <= 0 => s * (qy * (dx1 * dy2 - dy1 * dx2)) < 0
<1>1. PICK in \in Int : in = s * (dx1 * qy - dy1 * qx)
  OBVIOUS
<1>2. PICK out \in Int : out = s * (dx2 * qy - dy2 * qx)
  OBVIOUS
<1>3. dy2 * in - dy1 * out = s * (qy * (dx1 * dy2 - dy1 * dx2))
  <2>1. dy2 * (dx1 * qy - dy1 * qx) - dy1 * (dx2 * qy - dy2 * qx) = qy * (dx1 * dy2 - dy1 * dx2)
    BY CornerSides
  <2>2. CASE s = 1
    BY <1>1, <1>2, <2>1, <2>2
  <2>3. CASE s = -1
    BY <1>1, <1>2, <2>1, <2>3
  <2> QED BY <2>2, <2>3
<1>4. in > 0 /\ out > 0
  BY <1>1, <1>2
<1>5. dy1 # 0 \/ dy2 # 0
  OBVIOUS
<1>6. /\ dy2 > 0 => dy2 * in > 0
      /\ dy2 < 0 => dy2 * in < 0
      /\ dy1 > 0 => dy1 * out > 0
      /\ dy1 < 0 => dy1 * out < 0
      /\ dy2 = 0 => dy2 * in = 0
      /\ dy1 = 0 => dy1 * out = 0
      /\ dy2 * in \in Int /\ dy1 * out \in Int
  BY <1>4, Signs
<1> QED BY <1>3, <1>5, <1>6

LEMMA Corner ==
    ASSUME NEW v, Polygonal(v), NEW t \in {-1, 1}, Turned(v, t), NEW s \in {-1, 1},
           NEW x \in Int, NEW y \in Int,
           \A i \in 1..Len(v) : s * SideOf(v, i, <<x, y>>) > 0,
           NEW m \in 1..Len(v)
    PROVE  /\ (\A i \in 1..Len(v) : v[m][2] <= v[i][2]) => s * (t * (y - v[m][2])) > 0
           /\ (\A i \in 1..Len(v) : v[m][2] >= v[i][2]) => s * (t * (y - v[m][2])) < 0
<1> DEFINE n == Len(v)
<1>1. PICK k \in 1..n : m = Before(k, n)
  <2>1. n \in Nat /\ n > 2
    BY Vertices
  <2> QED BY <2>1, AfterIs
<1>2. PICK j \in 1..n : j = Before(m, n)
  BY Vertices
<1>3. PICK a1 \in Int, a2 \in Int, b1 \in Int, b2 \in Int, c1 \in Int, c2 \in Int :
          a1 = v[j][1] /\ a2 = v[j][2] /\ b1 = v[m][1] /\ b2 = v[m][2] /\ c1 = v[k][1] /\ c2 = v[k][2]
  BY Vertices
<1>4. SideOf(v, m, <<x, y>>) = (b1 - a1) * (y - a2) - (b2 - a2) * (x - a1)
  BY <1>2, <1>3, Side
<1>5. SideOf(v, k, <<x, y>>) = (c1 - b1) * (y - b2) - (c2 - b2) * (x - b1)
  BY <1>1, <1>3, Side
<1>6. SideOf(v, m, v[k]) = (b1 - a1) * (c2 - a2) - (b2 - a2) * (c1 - a1)
  <2>1. SideOf(v, m, <<c1, c2>>) = (b1 - a1) * (c2 - a2) - (b2 - a2) * (c1 - a1)
    <3>1. c1 \in Int /\ c2 \in Int
      OBVIOUS
    <3>2. SideOf(v, m, <<c1, c2>>) = (v[m][1] - v[j][1]) * (c2 - v[j][2]) - (v[m][2] - v[j][2]) * (c1 - v[j][1])
      BY <1>2, <3>1, Side
    <3> QED BY <1>3, <3>2
  <2> QED BY <1>3, <2>1, SideOfVertex
<1> DEFINE dx1 == b1 - a1
           dy1 == b2 - a2
           dx2 == c1 - b1
           dy2 == c2 - b2
           turn == dx1 * dy2 - dy1 * dx2
<1>7. /\ dx1 \in Int /\ dy1 \in Int /\ dx2 \in Int /\ dy2 \in Int /\ x - b1 \in Int /\ y - b2 \in Int
      /\ turn \in Int
  OBVIOUS
<1>8. SideOf(v, m, <<x, y>>) = dx1 * (y - b2) - dy1 * (x - b1)
  <2>1. (b1 - a1) * (y - a2) - (b2 - a2) * (x - a1) = (b1 - a1) * (y - b2) - (b2 - a2) * (x - b1)
    OBVIOUS
  <2> QED BY <1>4, <2>1
<1>9. SideOf(v, m, v[k]) = turn
  <2>1. (b1 - a1) * (c2 - a2) - (b2 - a2) * (c1 - a1) = (b1 - a1) * (c2 - b2) - (b2 - a2) * (c1 - b1)
    OBVIOUS
  <2> QED BY <1>6, <2>1
<1>10. t * turn > 0
  BY <1>1, <1>9 DEF Turned
<1>11. s * (dx1 * (y - b2) - dy1 * (x - b1)) > 0 /\ s * (dx2 * (y - b2) - dy2 * (x - b1)) > 0
  BY <1>5, <1>8
<1>12. turn # 0
  BY <1>7, <1>10
<1>13. /\ dy1 <= 0 /\ dy2 >= 0 => s * ((y - b2) * turn) > 0
       /\ dy1 >= 0 /\ dy2 <= 0 => s * ((y - b2) * turn) < 0
  <2> HIDE DEF dx1, dy1, dx2, dy2
  <2>1. dx1 * dy2 - dy1 * dx2 # 0
    BY <1>12
  <2> QED BY <1>7, <1>11, <2>1, CornerArithmetic
<1> HIDE DEF dx1, dx2, turn
<1>14. \A g \in Int : (s * (g * turn) > 0 => s * (t * g) > 0) /\ (s * (g * turn) < 0 => s * (t * g) < 0)
  <2> TAKE g \in Int
  <2>1. (t = 1 /\ turn > 0) \/ (t = -1 /\ turn < 0)
    BY <1>7, <1>10
  <2>2. /\ g > 0 /\ turn > 0 => g * turn > 0
        /\ g < 0 /\ turn > 0 => g * turn < 0
        /\ g > 0 /\ turn < 0 => g * turn < 0
        /\ g < 0 /\ turn < 0 => g * turn > 0
        /\ g = 0 => g * turn = 0
        /\ g * turn \in Int
    BY <1>7, Signs
  <2> QED BY <1>7, <2>1, <2>2
<1>15. ASSUME \A i \in 1..n : v[m][2] <= v[i][2] PROVE dy1 <= 0 /\ dy2 >= 0
  <2>1. v[m][2] <= v[j][2] /\ v[m][2] <= v[k][2]
    BY <1>15
  <2>2. b2 <= a2 /\ b2 <= c2
    BY <1>3, <2>1
  <2> QED BY <2>2
<1>16. ASSUME \A i \in 1..n : v[m][2] >= v[i][2] PROVE dy1 >= 0 /\ dy2 <= 0
  <2>1. v[m][2] >= v[j][2] /\ v[m][2] >= v[k][2]
    BY <1>16
  <2>2. b2 >= a2 /\ b2 >= c2
    BY <1>3, <2>1
  <2> QED BY <2>2
<1>17. y - b2 = y - v[m][2]
  BY <1>3
<1> QED BY <1>7, <1>13, <1>14, <1>15, <1>16, <1>17

\* The outline goes past the height of a position that is on one side of all its
\* edges.
LEMMA Turning ==
    ASSUME NEW v, Polygonal(v), NEW t \in {-1, 1}, Turned(v, t), NEW s \in {-1, 1},
           NEW x \in Int, NEW y \in Int,
           \A i \in 1..Len(v) : s * SideOf(v, i, <<x, y>>) > 0
    PROVE  (\E i \in 1..Len(v) : Rises(v, i, y)) /\ (\E i \in 1..Len(v) : Falls(v, i, y))
<1>1. SUFFICES ASSUME \/ \A i \in 1..Len(v) : y < v[i][2]
                      \/ \A i \in 1..Len(v) : v[i][2] <= y
               PROVE  FALSE
  BY RisesAndFalls
<1>2. PICK low \in 1..Len(v) : \A i \in 1..Len(v) : v[low][2] <= v[i][2]
  BY Extremes
<1>3. PICK high \in 1..Len(v) : \A i \in 1..Len(v) : v[high][2] >= v[i][2]
  BY Extremes
<1>4. PICK l \in Int, h \in Int : l = v[low][2] /\ h = v[high][2]
  BY Vertices
<1>5. s * (t * (y - l)) > 0
  BY <1>2, <1>4, Corner
<1>6. s * (t * (y - h)) < 0
  BY <1>3, <1>4, Corner
<1>7. (y < l /\ y < h) \/ (l <= y /\ h <= y)
  BY <1>1, <1>4
<1> QED BY <1>5, <1>6, <1>7

\* Of a position between a rising and a falling edge: it is on the inner side of
\* both if it is on the same side of both, and then on that side of every edge.
LEMMA Between ==
    ASSUME NEW v, Polygonal(v), NEW t \in {-1, 1}, Turned(v, t),
           NEW x \in Int, NEW y \in Int,
           NEW u \in 1..Len(v), NEW d \in 1..Len(v), Rises(v, u, y), Falls(v, d, y)
    PROVE  /\ \A s \in {-1, 1} : s * SideOf(v, u, <<x, y>>) > 0 /\ s * SideOf(v, d, <<x, y>>) > 0 => s = t
           /\ t * SideOf(v, u, <<x, y>>) > 0 /\ t * SideOf(v, d, <<x, y>>) > 0
                 => \A k \in 1..Len(v) : t * SideOf(v, k, <<x, y>>) >= 0
<1> DEFINE n == Len(v)
<1>1. PICK ua \in 1..n, da \in 1..n : ua = Before(u, n) /\ da = Before(d, n)
  BY Vertices
<1>2. PICK a1 \in Int, a2 \in Int, b1 \in Int, b2 \in Int :
          a1 = v[ua][1] /\ a2 = v[ua][2] /\ b1 = v[u][1] /\ b2 = v[u][2]
  BY Vertices
<1>3. PICK c1 \in Int, c2 \in Int, d1 \in Int, d2 \in Int :
          c1 = v[da][1] /\ c2 = v[da][2] /\ d1 = v[d][1] /\ d2 = v[d][2]
  BY Vertices
<1>4. a2 <= y /\ y < b2
  BY <1>1, <1>2 DEF Rises
<1>5. d2 <= y /\ y < c2
  BY <1>1, <1>3 DEF Falls
<1>6. PICK U \in Int : /\ U = SideOf(v, u, <<x, y>>)
                       /\ U = (b1 - a1) * (y - a2) - (b2 - a2) * (x - a1)
  <2>1. /\ SideOf(v, u, <<x, y>>) = (v[u][1] - v[ua][1]) * (y - v[ua][2]) - (v[u][2] - v[ua][2]) * (x - v[ua][1])
        /\ SideOf(v, u, <<x, y>>) \in Int
    BY <1>1, Side
  <2> QED BY <1>2, <2>1
<1>7. PICK D \in Int : /\ D = SideOf(v, d, <<x, y>>)
                       /\ D = (d1 - c1) * (y - c2) - (d2 - c2) * (x - c1)
  <2>1. /\ SideOf(v, d, <<x, y>>) = (v[d][1] - v[da][1]) * (y - v[da][2]) - (v[d][2] - v[da][2]) * (x - v[da][1])
        /\ SideOf(v, d, <<x, y>>) \in Int
    BY <1>1, Side
  <2> QED BY <1>3, <2>1
\* What an edge k says of the position, by the ends of the falling edge or of the
\* rising one.
<1>8. ASSUME NEW k \in 1..n
      PROVE  \E K \in Int, ka \in Int, kb \in Int, kc \in Int, kd \in Int, ey \in Int :
                /\ K = SideOf(v, k, <<x, y>>)
                /\ t * ka >= 0 /\ t * kb >= 0 /\ t * kc >= 0 /\ t * kd >= 0
                /\ (b2 - a2) * K = (b2 - y) * ka + (y - a2) * kb + ey * U
                /\ (c2 - d2) * K = (c2 - y) * kd + (y - d2) * kc - ey * D
                /\ ey = v[k][2] - v[Before(k, n)][2]
  <2>1. PICK from \in 1..n : from = Before(k, n)
    BY Vertices
  <2>2. PICK g1 \in Int, g2 \in Int, h1 \in Int, h2 \in Int :
            g1 = v[from][1] /\ g2 = v[from][2] /\ h1 = v[k][1] /\ h2 = v[k][2]
    BY Vertices
  <2>3. PICK ex \in Int, ey \in Int : ex = h1 - g1 /\ ey = h2 - g2
    OBVIOUS
  <2>4. ASSUME NEW X \in Int, NEW Y \in Int
        PROVE  /\ SideOf(v, k, <<X, Y>>) = ex * (Y - g2) - ey * (X - g1)
               /\ SideOf(v, k, <<X, Y>>) \in Int
    <3>1. /\ SideOf(v, k, <<X, Y>>) = (v[k][1] - v[from][1]) * (Y - v[from][2]) - (v[k][2] - v[from][2]) * (X - v[from][1])
          /\ SideOf(v, k, <<X, Y>>) \in Int
      BY SMTT(20), <2>1, Side
    <3> QED BY <2>2, <2>3, <3>1
  <2>5. ASSUME NEW j \in 1..n, NEW X \in Int, NEW Y \in Int, X = v[j][1], Y = v[j][2]
        PROVE  t * (ex * (Y - g2) - ey * (X - g1)) >= 0
    <3>1. t * SideOf(v, k, v[j]) >= 0
      BY DEF Turned
    <3>2. SideOf(v, k, v[j]) = SideOf(v, k, <<X, Y>>)
      BY <2>5, SideOfVertex
    <3> QED BY <2>4, <3>1, <3>2
  <2>6. PICK ka \in Int : ka = ex * (a2 - g2) - ey * (a1 - g1) /\ t * ka >= 0
    <3>1. t * (ex * (a2 - g2) - ey * (a1 - g1)) >= 0
      BY <1>2, <2>5
    <3>2. ex * (a2 - g2) - ey * (a1 - g1) \in Int
      OBVIOUS
    <3> QED BY <3>1, <3>2
  <2>7. PICK kb \in Int : kb = ex * (b2 - g2) - ey * (b1 - g1) /\ t * kb >= 0
    <3>1. t * (ex * (b2 - g2) - ey * (b1 - g1)) >= 0
      BY <1>2, <2>5
    <3>2. ex * (b2 - g2) - ey * (b1 - g1) \in Int
      OBVIOUS
    <3> QED BY <3>1, <3>2
  <2>8. PICK kc \in Int : kc = ex * (c2 - g2) - ey * (c1 - g1) /\ t * kc >= 0
    <3>1. t * (ex * (c2 - g2) - ey * (c1 - g1)) >= 0
      BY <1>3, <2>5
    <3>2. ex * (c2 - g2) - ey * (c1 - g1) \in Int
      OBVIOUS
    <3> QED BY <3>1, <3>2
  <2>9. PICK kd \in Int : kd = ex * (d2 - g2) - ey * (d1 - g1) /\ t * kd >= 0
    <3>1. t * (ex * (d2 - g2) - ey * (d1 - g1)) >= 0
      BY <1>3, <2>5
    <3>2. ex * (d2 - g2) - ey * (d1 - g1) \in Int
      OBVIOUS
    <3> QED BY <3>1, <3>2
  <2>10. PICK K \in Int : K = SideOf(v, k, <<x, y>>) /\ K = ex * (y - g2) - ey * (x - g1)
    BY <2>4
  <2>11. (b2 - a2) * K = (b2 - y) * ka + (y - a2) * kb + ey * U
    <3>1. (b2 - a2) * (ex * (y - g2) - ey * (x - g1))
              = (b2 - y) * (ex * (a2 - g2) - ey * (a1 - g1))
                + (y - a2) * (ex * (b2 - g2) - ey * (b1 - g1))
                + ey * ((b1 - a1) * (y - a2) - (b2 - a2) * (x - a1))
      BY AlongRising
    <3> QED BY Zenon, <1>6, <2>6, <2>7, <2>10, <3>1
  <2>12. (c2 - d2) * K = (c2 - y) * kd + (y - d2) * kc - ey * D
    <3>1. (c2 - d2) * (ex * (y - g2) - ey * (x - g1))
              = (c2 - y) * (ex * (d2 - g2) - ey * (d1 - g1))
                + (y - d2) * (ex * (c2 - g2) - ey * (c1 - g1))
                - ey * ((d1 - c1) * (y - c2) - (d2 - c2) * (x - c1))
      BY AlongFalling
    <3> QED BY Zenon, <1>7, <2>8, <2>9, <2>10, <3>1
  <2>13. ey = v[k][2] - v[Before(k, n)][2]
    BY <2>1, <2>2, <2>3
  <2> QED BY ZenonT(30), <2>6, <2>7, <2>8, <2>9, <2>10, <2>11, <2>12, <2>13
<1>9. \A f, g \in Int : f >= 0 /\ t * g >= 0 => t * (f * g) >= 0
  <2> SUFFICES ASSUME NEW f \in Int, NEW g \in Int, f >= 0, t * g >= 0 PROVE t * (f * g) >= 0
    OBVIOUS
  <2>1. (t = 1 /\ g >= 0) \/ (t = -1 /\ g <= 0)
    OBVIOUS
  <2>2. (g >= 0 => f * g >= 0) /\ (g <= 0 => f * g <= 0) /\ f * g \in Int
    BY Signs
  <2> QED BY <2>1, <2>2
<1>10. \A f, g \in Int : f > 0 /\ t * (f * g) >= 0 => t * g >= 0
  <2> SUFFICES ASSUME NEW f \in Int, NEW g \in Int, f > 0, t * (f * g) >= 0, ~ (t * g >= 0) PROVE FALSE
    OBVIOUS
  <2>1. (t = 1 /\ g < 0) \/ (t = -1 /\ g > 0)
    OBVIOUS
  <2>2. (g > 0 => f * g > 0) /\ (g < 0 => f * g < 0) /\ f * g \in Int
    BY Signs
  <2> QED BY <2>1, <2>2
<1>11. ASSUME t * U > 0, t * D > 0, NEW k \in 1..n PROVE t * SideOf(v, k, <<x, y>>) >= 0
  <2>1. PICK K \in Int, ka \in Int, kb \in Int, kc \in Int, kd \in Int, ey \in Int :
                /\ K = SideOf(v, k, <<x, y>>)
                /\ t * ka >= 0 /\ t * kb >= 0 /\ t * kc >= 0 /\ t * kd >= 0
                /\ (b2 - a2) * K = (b2 - y) * ka + (y - a2) * kb + ey * U
                /\ (c2 - d2) * K = (c2 - y) * kd + (y - d2) * kc - ey * D
                /\ ey = v[k][2] - v[Before(k, n)][2]
    BY Zenon, <1>8
  <2>4. t * ka >= 0 /\ t * kb >= 0 /\ t * kc >= 0 /\ t * kd >= 0
    BY Zenon, <2>1
  <2>5. (b2 - a2) * K = (b2 - y) * ka + (y - a2) * kb + ey * U
    BY Zenon, <2>1
  <2>6. (c2 - d2) * K = (c2 - y) * kd + (y - d2) * kc - ey * D
    BY Zenon, <2>1
  <2>7. t * U > 0 /\ t * D > 0
    BY Zenon, <1>11
  <2>2. CASE ey >= 0
    <3>1. b2 - y \in Int /\ b2 - y >= 0 /\ y - a2 \in Int /\ y - a2 >= 0 /\ b2 - a2 \in Int /\ b2 - a2 > 0
      BY <1>4
    <3>2. t * ((b2 - y) * ka) >= 0 /\ t * ((y - a2) * kb) >= 0 /\ t * (ey * U) >= 0
      BY <1>9, <2>4, <2>7, <2>2, <3>1
    <3>3. PICK p \in Int, q \in Int, r \in Int : p = (b2 - y) * ka /\ q = (y - a2) * kb /\ r = ey * U
      OBVIOUS
    <3>4. t * (p + q + r) >= 0
      BY <3>2, <3>3
    <3>5. t * ((b2 - a2) * K) >= 0
      BY <2>5, <3>3, <3>4
    <3>6. t * K >= 0
      BY <1>10, <3>1, <3>5
    <3> QED BY Zenon, <2>1, <3>6
  <2>3. CASE ey < 0
    <3>1. c2 - y \in Int /\ c2 - y >= 0 /\ y - d2 \in Int /\ y - d2 >= 0 /\ c2 - d2 \in Int /\ c2 - d2 > 0
      BY <1>5
    <3>2. t * ((c2 - y) * kd) >= 0 /\ t * ((y - d2) * kc) >= 0 /\ t * ((-ey) * D) >= 0
      <4>1. -ey \in Int /\ -ey >= 0 /\ t * D >= 0
        BY <2>7, <2>3
      <4> QED BY <1>9, <2>4, <3>1, <4>1
    <3>3. PICK p \in Int, q \in Int, r \in Int : p = (c2 - y) * kd /\ q = (y - d2) * kc /\ r = (-ey) * D
      OBVIOUS
    <3>4. t * (p + q + r) >= 0
      BY <3>2, <3>3
    <3>7. r = -(ey * D) /\ ey * D \in Int
      BY <3>3
    <3>8. (c2 - d2) * K = p + q + r
      <4>1. (c2 - d2) * K = p + q - ey * D
        BY Zenon, <2>6, <3>3
      <4> QED BY <3>7, <4>1
    <3>5. t * ((c2 - d2) * K) >= 0
      BY <3>4, <3>8
    <3>6. t * K >= 0
      BY <1>10, <3>1, <3>5
    <3> QED BY Zenon, <2>1, <3>6
  <2>8. ey >= 0 \/ ey < 0
    OBVIOUS
  <2> QED BY Zenon, <2>2, <2>3, <2>8
<1>12. ASSUME NEW s \in {-1, 1}, s * U > 0, s * D > 0, s # t PROVE FALSE
  <2>1. PICK K \in Int, ka \in Int, kb \in Int, kc \in Int, kd \in Int, ey \in Int :
                /\ K = SideOf(v, u, <<x, y>>)
                /\ t * ka >= 0 /\ t * kb >= 0 /\ t * kc >= 0 /\ t * kd >= 0
                /\ (b2 - a2) * K = (b2 - y) * ka + (y - a2) * kb + ey * U
                /\ (c2 - d2) * K = (c2 - y) * kd + (y - d2) * kc - ey * D
                /\ ey = v[u][2] - v[Before(u, n)][2]
    BY Zenon, <1>8
  <2>2. K = U /\ ey > 0
    <3>1. K = U
      BY Zenon, <1>6, <2>1
    <3>2. ey = b2 - a2
      BY Zenon, <1>1, <1>2, <2>1
    <3> QED BY <1>4, <3>1, <3>2
  <2>3. c2 - y \in Int /\ c2 - y >= 0 /\ y - d2 \in Int /\ y - d2 >= 0 /\ c2 - d2 \in Int /\ c2 - d2 > 0
    BY <1>5
  <2>4. PICK p \in Int, q \in Int, r \in Int : p = (c2 - y) * kd /\ q = (y - d2) * kc /\ r = ey * D
    OBVIOUS
  <2>5. t * p >= 0 /\ t * q >= 0
    BY <1>9, <2>1, <2>3, <2>4
  <2>6. (t = 1 /\ U < 0 /\ D < 0) \/ (t = -1 /\ U > 0 /\ D > 0)
    BY <1>12
  <2>7. (D > 0 => r > 0) /\ (D < 0 => r < 0)
    BY <2>2, <2>4, Signs
  <2>8. PICK z \in Int : z = (c2 - d2) * U /\ (U > 0 => z > 0) /\ (U < 0 => z < 0)
    BY <2>3, Signs
  <2>9. z = p + q - r
    BY <2>1, <2>2, <2>4, <2>8
  <2> QED BY <2>5, <2>6, <2>7, <2>8, <2>9
<1>13. \A s \in {-1, 1} : s * U > 0 /\ s * D > 0 => s = t
  BY Zenon, <1>12
<1>14. t * U > 0 /\ t * D > 0 => \A k \in 1..Len(v) : t * SideOf(v, k, <<x, y>>) >= 0
  BY Zenon, <1>11
<1> QED BY Zenon, <1>6, <1>7, <1>13, <1>14

\* A position between a rising and a falling edge, and on one side of both, lies
\* between coordinates of the outline.
LEMMA BetweenCorners ==
    ASSUME NEW v, Polygonal(v), NEW x \in Int, NEW y \in Int, NEW s \in {-1, 1},
           NEW u \in 1..Len(v), NEW d \in 1..Len(v), Rises(v, u, y), Falls(v, d, y),
           s * SideOf(v, u, <<x, y>>) > 0, s * SideOf(v, d, <<x, y>>) > 0
    PROVE  /\ \E i \in 1..Len(v) : v[i][1] <= x
           /\ \E i \in 1..Len(v) : x <= v[i][1]
           /\ \E i \in 1..Len(v) : v[i][2] <= y
           /\ \E i \in 1..Len(v) : y <= v[i][2]
<1>1. PICK ua \in 1..Len(v), da \in 1..Len(v) : ua = Before(u, Len(v)) /\ da = Before(d, Len(v))
  BY Vertices
<1>2. PICK a1 \in Int, a2 \in Int, b1 \in Int, b2 \in Int :
          a1 = v[ua][1] /\ a2 = v[ua][2] /\ b1 = v[u][1] /\ b2 = v[u][2]
  BY Vertices
<1>3. PICK c1 \in Int, c2 \in Int, d1 \in Int, d2 \in Int :
          c1 = v[da][1] /\ c2 = v[da][2] /\ d1 = v[d][1] /\ d2 = v[d][2]
  BY Vertices
<1>4. a2 <= y /\ y < b2 /\ d2 <= y /\ y < c2
  BY <1>1, <1>2, <1>3 DEF Rises, Falls
<1>5. s * ((b1 - a1) * (y - a2) - (b2 - a2) * (x - a1)) > 0
  <2>1. SideOf(v, u, <<x, y>>) = (v[u][1] - v[ua][1]) * (y - v[ua][2]) - (v[u][2] - v[ua][2]) * (x - v[ua][1])
    BY <1>1, Side
  <2> QED BY <1>2, <2>1
<1>6. s * ((d1 - c1) * (y - c2) - (d2 - c2) * (x - c1)) > 0
  <2>1. SideOf(v, d, <<x, y>>) = (v[d][1] - v[da][1]) * (y - v[da][2]) - (v[d][2] - v[da][2]) * (x - v[da][1])
    BY <1>1, Side
  <2> QED BY <1>3, <2>1
<1>7. a2 <= y /\ y <= b2
  BY <1>4
<1>8. (\E i \in 1..Len(v) : v[i][2] <= y) /\ (\E i \in 1..Len(v) : y <= v[i][2])
  BY Zenon, <1>2, <1>7
\* At a height that leaves m and n of an edge on either side, what is on one side
\* of the edge is on that side of one of its ends p and q.
<1>9. ASSUME NEW p \in Int, NEW q \in Int, NEW m \in Int, NEW n \in Int, m > 0, n >= 0
      PROVE  /\ m * (x - p) + n * (x - q) < 0 => x <= p \/ x <= q
             /\ m * (x - p) + n * (x - q) > 0 => p <= x \/ q <= x
  <2>1. ASSUME x > p, x > q PROVE m * (x - p) + n * (x - q) >= 0
    <3>1. x - p \in Int /\ x - p >= 0 /\ x - q \in Int /\ x - q >= 0
      BY <2>1
    <3>2. m * (x - p) >= 0 /\ n * (x - q) >= 0 /\ m * (x - p) \in Int /\ n * (x - q) \in Int
      BY <1>9, <3>1, Signs
    <3>3. PICK f \in Int, g \in Int : f = m * (x - p) /\ g = n * (x - q)
      BY Zenon, <3>2
    <3>4. f + g >= 0
      <4>1. f >= 0 /\ g >= 0
        BY Zenon, <3>2, <3>3
      <4> QED BY <4>1
    <3> QED BY Zenon, <3>3, <3>4
  <2>2. ASSUME x < p, x < q PROVE m * (x - p) + n * (x - q) <= 0
    <3>1. x - p \in Int /\ x - p <= 0 /\ x - q \in Int /\ x - q <= 0
      BY <2>2
    <3>2. m * (x - p) <= 0 /\ n * (x - q) <= 0 /\ m * (x - p) \in Int /\ n * (x - q) \in Int
      BY <1>9, <3>1, Signs
    <3>3. PICK f \in Int, g \in Int : f = m * (x - p) /\ g = n * (x - q)
      BY Zenon, <3>2
    <3>4. f + g <= 0
      <4>1. f <= 0 /\ g <= 0
        BY Zenon, <3>2, <3>3
      <4> QED BY <4>1
    <3> QED BY Zenon, <3>3, <3>4
  <2>3. m * (x - p) + n * (x - q) \in Int
    OBVIOUS
  <2> QED BY <2>1, <2>2, <2>3
<1>10. (b1 - a1) * (y - a2) - (b2 - a2) * (x - a1) = -((b2 - y) * (x - a1) + (y - a2) * (x - b1))
  OBVIOUS
<1>11. (d1 - c1) * (y - c2) - (d2 - c2) * (x - c1) = (c2 - y) * (x - d1) + (y - d2) * (x - c1)
  OBVIOUS
<1>12. b2 - y \in Int /\ b2 - y > 0 /\ y - a2 \in Int /\ y - a2 >= 0
  BY <1>4
<1>13. c2 - y \in Int /\ c2 - y > 0 /\ y - d2 \in Int /\ y - d2 >= 0
  BY <1>4
<1>14. PICK U \in Int : U = (b2 - y) * (x - a1) + (y - a2) * (x - b1)
  OBVIOUS
<1>15. PICK D \in Int : D = (c2 - y) * (x - d1) + (y - d2) * (x - c1)
  OBVIOUS
<1>16. s * (-U) > 0 /\ s * D > 0
  BY <1>5, <1>6, <1>10, <1>11, <1>14, <1>15
<1>17. (U < 0 => x <= a1 \/ x <= b1) /\ (U > 0 => a1 <= x \/ b1 <= x)
  BY <1>9, <1>12, <1>14
<1>18. (D < 0 => x <= c1 \/ x <= d1) /\ (D > 0 => c1 <= x \/ d1 <= x)
  BY <1>9, <1>13, <1>15
<1>19. (U < 0 /\ D > 0) \/ (U > 0 /\ D < 0)
  BY <1>16
<1>20. (\E i \in 1..Len(v) : v[i][1] <= x) /\ (\E i \in 1..Len(v) : x <= v[i][1])
  BY Zenon, <1>2, <1>3, <1>17, <1>18, <1>19
<1> QED BY <1>8, <1>20

\* What is assumed of the polygons that are given.
LEMMA GivenPolygon ==
    ASSUME NEW v \in Polygons
    PROVE  /\ Polygonal(v) /\ Convex(v) /\ DOMAIN v = 1..Len(v)
           /\ \E t \in {-1, 1} : Turned(v, t)
           /\ \A p \in LatticePoint, i \in 1..Len(v) : SideOf(v, i, Middle(p)) # 0
<1>1. Polygonal(v) /\ Convex(v)
  BY PolygonAssumption DEF Polygonal
<1>2. DOMAIN v = 1..Len(v)
  BY <1>1, Vertices
<1>3. \A p \in LatticePoint, i \in 1..Len(v) : SideOf(v, i, Middle(p)) # 0
  BY <1>2, PolygonAssumption
<1>4. \E t \in {-1, 1} : Turned(v, t)
  BY <1>1, <1>2 DEF Convex, Turned
<1> QED BY <1>1, <1>2, <1>3, <1>4

\* Inside are the pixels with all edges on one side; these are between a rising
\* and a falling edge.
LEMMA InsideIsBetween ==
    ASSUME NEW v \in Polygons, NEW p \in LatticePoint, NEW x \in Int, NEW y \in Int, Middle(p) = <<x, y>>
    PROVE  p \in PointsOfPolygon(v) <=>
              \E s \in {-1, 1}, u, d \in 1..Len(v) :
                 /\ Rises(v, u, y) /\ Falls(v, d, y)
                 /\ s * SideOf(v, u, <<x, y>>) > 0 /\ s * SideOf(v, d, <<x, y>>) > 0
<1>1. /\ Polygonal(v) /\ DOMAIN v = 1..Len(v)
      /\ \A i \in 1..Len(v) : SideOf(v, i, <<x, y>>) # 0 /\ SideOf(v, i, <<x, y>>) \in Int
  BY GivenPolygon, Side
<1>2. PICK t \in {-1, 1} : Turned(v, t)
  BY GivenPolygon
<1>3. ASSUME p \in PointsOfPolygon(v)
      PROVE  \E s \in {-1, 1}, u, d \in 1..Len(v) :
                 /\ Rises(v, u, y) /\ Falls(v, d, y)
                 /\ s * SideOf(v, u, <<x, y>>) > 0 /\ s * SideOf(v, d, <<x, y>>) > 0
  <2>1. \/ \A i \in 1..Len(v) : SideOf(v, i, <<x, y>>) > 0
        \/ \A i \in 1..Len(v) : SideOf(v, i, <<x, y>>) < 0
    BY <1>1, <1>3 DEF PointsOfPolygon
  <2>2. PICK s \in {-1, 1} : \A i \in 1..Len(v) : s * SideOf(v, i, <<x, y>>) > 0
    <3>1. CASE \A i \in 1..Len(v) : SideOf(v, i, <<x, y>>) > 0
      <4>1. \A i \in 1..Len(v) : 1 * SideOf(v, i, <<x, y>>) > 0
        BY <1>1, <3>1
      <4> QED BY <4>1
    <3>2. CASE \A i \in 1..Len(v) : SideOf(v, i, <<x, y>>) < 0
      <4>1. \A i \in 1..Len(v) : (-1) * SideOf(v, i, <<x, y>>) > 0
        BY SMTT(20), <1>1, <3>2
      <4> QED BY <4>1
    <3> QED BY <2>1, <3>1, <3>2
  <2>3. PICK u \in 1..Len(v), d \in 1..Len(v) : Rises(v, u, y) /\ Falls(v, d, y)
    BY <1>1, <1>2, <2>2, Turning
  <2> QED BY Zenon, <2>2, <2>3
<1>4. ASSUME NEW s \in {-1, 1}, NEW u \in 1..Len(v), NEW d \in 1..Len(v), Rises(v, u, y), Falls(v, d, y),
             s * SideOf(v, u, <<x, y>>) > 0, s * SideOf(v, d, <<x, y>>) > 0
      PROVE  p \in PointsOfPolygon(v)
  <2>1. s = t
    BY <1>1, <1>2, <1>4, Between
  <2>2. \A k \in 1..Len(v) : t * SideOf(v, k, <<x, y>>) >= 0
    BY <1>1, <1>2, <1>4, <2>1, Between
  <2>3. \/ \A k \in 1..Len(v) : SideOf(v, k, <<x, y>>) > 0
        \/ \A k \in 1..Len(v) : SideOf(v, k, <<x, y>>) < 0
    <3>1. CASE t = 1
      <4>1. \A k \in 1..Len(v) : SideOf(v, k, <<x, y>>) > 0
        BY SMTT(20), <1>1, <2>2, <3>1
      <4> QED BY <4>1
    <3>2. CASE t = -1
      <4>1. ASSUME NEW k \in 1..Len(v) PROVE SideOf(v, k, <<x, y>>) < 0
        <5>1. PICK K \in Int : K = SideOf(v, k, <<x, y>>) /\ K # 0
          BY <1>1
        <5>2. (-1) * K >= 0
          BY <2>2, <3>2, <5>1
        <5> QED BY <5>1, <5>2
      <4> QED BY <4>1
    <3> QED BY <3>1, <3>2
  <2> QED BY <1>1, <2>3 DEF PointsOfPolygon
<1> QED BY <1>3, <1>4

\* The ray from the middle of a pixel crosses one edge when the pixel is inside,
\* and none or two when it is not.
LEMMA RayCasting ==
    ASSUME NEW v \in Polygons, NEW p \in LatticePoint, NEW x \in Int, NEW y \in Int, Middle(p) = <<x, y>>,
           NEW N, N = {i \in DOMAIN v : Crosses(v[i], v[Before(i, Len(v))], x, y)}
    PROVE  Cardinality(N) % 2 = 1 <=> p \in PointsOfPolygon(v)
<1>1. /\ Polygonal(v) /\ Convex(v) /\ DOMAIN v = 1..Len(v)
      /\ \A i \in 1..Len(v) : SideOf(v, i, <<x, y>>) # 0 /\ SideOf(v, i, <<x, y>>) \in Int
  BY GivenPolygon, Side
<1>2. /\ N \subseteq 1..Len(v)
      /\ \A i \in 1..Len(v) : i \in N <=> \/ Rises(v, i, y) /\ SideOf(v, i, <<x, y>>) > 0
                                          \/ Falls(v, i, y) /\ SideOf(v, i, <<x, y>>) < 0
  BY <1>1, EdgeCrossed
<1>3. p \in PointsOfPolygon(v) <=>
              \E s \in {-1, 1}, u, d \in 1..Len(v) :
                 /\ Rises(v, u, y) /\ Falls(v, d, y)
                 /\ s * SideOf(v, u, <<x, y>>) > 0 /\ s * SideOf(v, d, <<x, y>>) > 0
  BY InsideIsBetween
<1>4. \A i \in 1..Len(v) : ~(Rises(v, i, y) /\ Falls(v, i, y))
  <2> TAKE i \in 1..Len(v)
  <2>1. v[i][2] \in Int
    BY <1>1, Vertices
  <2> QED BY <2>1 DEF Rises, Falls
<1>5. CASE \E u, d \in 1..Len(v) : Rises(v, u, y) /\ Falls(v, d, y)
  <2>1. PICK u \in 1..Len(v), d \in 1..Len(v) : Rises(v, u, y) /\ Falls(v, d, y)
    BY <1>5
  <2>2. u # d /\ \A i \in 1..Len(v) : (Rises(v, i, y) => i = u) /\ (Falls(v, i, y) => i = d)
    BY <1>1, <1>4, <2>1, OncePassed
  <2>3. PICK U \in Int, D \in Int : U = SideOf(v, u, <<x, y>>) /\ D = SideOf(v, d, <<x, y>>)
    BY <1>1
  <2>4. U # 0 /\ D # 0
    BY <1>1, <2>3
  <2>5. (u \in N <=> U > 0) /\ (d \in N <=> D < 0) /\ N \subseteq {u, d}
    BY <1>2, <1>4, <2>1, <2>2, <2>3
  <2>6. p \in PointsOfPolygon(v) <=> (U > 0 /\ D > 0) \/ (U < 0 /\ D < 0)
    <3>1. ASSUME p \in PointsOfPolygon(v) PROVE (U > 0 /\ D > 0) \/ (U < 0 /\ D < 0)
      <4>1. PICK s \in {-1, 1} : s * U > 0 /\ s * D > 0
        BY Zenon, <1>3, <2>2, <2>3, <3>1
      <4> QED BY <4>1
    <3>2. ASSUME (U > 0 /\ D > 0) \/ (U < 0 /\ D < 0) PROVE p \in PointsOfPolygon(v)
      <4>1. (1 * U > 0 /\ 1 * D > 0) \/ ((-1) * U > 0 /\ (-1) * D > 0)
        BY <3>2
      <4>2. \E s \in {-1, 1} : s * U > 0 /\ s * D > 0
        BY <4>1
      <4> QED BY Zenon, <1>3, <2>1, <2>3, <4>2
    <3> QED BY <3>1, <3>2
  <2>7. /\ Cardinality({}) = 0
        /\ \A i : Cardinality({i}) = 1
        /\ Cardinality({u, d}) = 2
    <3>1. Cardinality({u}) = 1 /\ IsFiniteSet({u})
      BY FS_Singleton
    <3>2. Cardinality({u} \cup {d}) = Cardinality({u}) + 1
      BY <2>2, <3>1, FS_AddElement
    <3>3. {u} \cup {d} = {u, d}
      OBVIOUS
    <3>4. Cardinality({u, d}) = 2
      BY <3>1, <3>2, <3>3
    <3> QED BY <3>4, FS_EmptySet, FS_Singleton
  <2>8. CASE U > 0 /\ D > 0
    <3>1. N = {u}
      BY <2>5, <2>8
    <3>2. Cardinality(N) = 1
      BY <2>7, <3>1
    <3> QED BY <2>6, <2>8, <3>2
  <2>9. CASE U > 0 /\ D < 0
    <3>1. N = {u, d}
      BY <2>5, <2>9
    <3>2. Cardinality(N) = 2
      BY <2>7, <3>1
    <3> QED BY <2>6, <2>9, <3>2
  <2>10. CASE U < 0 /\ D > 0
    <3>1. N = {}
      BY <2>5, <2>10
    <3>2. Cardinality(N) = 0
      BY <2>7, <3>1
    <3> QED BY <2>6, <2>10, <3>2
  <2>11. CASE U < 0 /\ D < 0
    <3>1. N = {d}
      BY <2>5, <2>11
    <3>2. Cardinality(N) = 1
      BY <2>7, <3>1
    <3> QED BY <2>6, <2>11, <3>2
  <2> QED BY <2>4, <2>8, <2>9, <2>10, <2>11
<1>6. CASE ~ \E u, d \in 1..Len(v) : Rises(v, u, y) /\ Falls(v, d, y)
  <2>1. \A i \in 1..Len(v) : ~Rises(v, i, y) /\ ~Falls(v, i, y)
    BY <1>1, <1>6, RisesAndFalls
  <2>2. N = {}
    BY <1>2, <2>1
  <2>3. Cardinality(N) = 0
    BY <2>2, FS_EmptySet
  <2>4. p \notin PointsOfPolygon(v)
    BY Zenon, <1>3, <1>6
  <2> QED BY <2>3, <2>4
<1> QED BY <1>5, <1>6

\* Middles of pixels and halves of a pixel rounded outwards.
LEMMA RoundingMiddles ==
    \A low, high, x \in Int : /\ low <= 2 * x + 1 => low \div 2 <= x
                              /\ 2 * x + 1 <= high => x <= -((-high) \div 2)
OBVIOUS

\* Ray casting over the rounded box is right for the polygons that are given.
LEMMA PolygonPixels ==
    ASSUME NEW v \in Polygons
    PROVE  LcPolygon(v) \in RegionRecord /\ PixelsOf(LcPolygon(v)) = PointsOfPolygon(v)
<1> DEFINE Coord(d) == {v[i][d] : i \in DOMAIN v}
           Ray(p) == {i \in DOMAIN v : Crosses(v[i], v[Before(i, Len(v))], 2 * p[1] + 1, 2 * p[2] + 1)}
<1>1. PICK low1 \in Int, high1 \in Int, low2 \in Int, high2 \in Int :
        /\ low1 = Min(Coord(1)) /\ high1 = Max(Coord(1)) /\ low2 = Min(Coord(2)) /\ high2 = Max(Coord(2))
        /\ \A i \in 1..Len(v) : /\ low1 <= v[i][1] /\ v[i][1] <= high1
                                /\ low2 <= v[i][2] /\ v[i][2] <= high2
  <2>1. Polygonal(v) /\ 1 \in Axis /\ 2 \in Axis
    BY GivenPolygon DEF Axis
  <2>2. Min(Coord(1)) \in Int /\ Max(Coord(1)) \in Int /\ \A i \in 1..Len(v) : Min(Coord(1)) <= v[i][1] /\ v[i][1] <= Max(Coord(1))
    BY Zenon, <2>1, Corners
  <2>3. Min(Coord(2)) \in Int /\ Max(Coord(2)) \in Int /\ \A i \in 1..Len(v) : Min(Coord(2)) <= v[i][2] /\ v[i][2] <= Max(Coord(2))
    BY Zenon, <2>1, Corners
  <2> HIDE DEF Coord
  <2> QED BY <2>2, <2>3
<1> DEFINE blc(low, d) == Greater(0, low \div 2)
           trc(high, d) == Lesser(LatticeShape[d] - 1, -((-high) \div 2))
           B == <<blc(low1, 1), blc(low2, 2)>>
           T == <<trc(high1, 1), trc(high2, 2)>>
<1>2. PICK box : box = LcBox(B, T)
  OBVIOUS
<1>3. PICK mask : mask = {p \in Positions(box.len) : Cardinality(Ray(ToLattice(box.blc, p))) % 2 = 1}
  OBVIOUS
<1>4. LcPolygon(v) = LcRegion(box.blc, box.len, mask)
  <2>1. RoundedBox(<<low1, low2>>, <<high1, high2>>) = box
    <3>1. Both([d \in Axis |-> Greater(0, <<low1, low2>>[d] \div 2)]) = B
      BY DEF Axis, Both
    <3>2. Both([d \in Axis |-> Lesser(LatticeShape[d] - 1, -((-<<high1, high2>>[d]) \div 2))]) = T
      BY DEF Axis, Both
    <3> HIDE DEF B, T
    <3> QED BY ONLY <1>2, <3>1, <3>2 DEF RoundedBox
  <2>2. RoundedBox(<<Min(Coord(1)), Min(Coord(2))>>, <<Max(Coord(1)), Max(Coord(2))>>) = box
    BY Zenon, <1>1, <2>1
  <2> QED BY Zenon, <1>3, <2>2 DEF LcPolygon
<1>5. /\ blc(low1, 1) \in Int /\ blc(low2, 2) \in Int /\ trc(high1, 1) \in Int /\ trc(high2, 2) \in Int
      /\ LatticeShape[1] \in Int /\ LatticeShape[2] \in Int
  BY LatticePoints, Rounding DEF Lesser, Greater
<1>6. B \in Int \X Int /\ T \in Int \X Int
  BY <1>5
<1>7. box \in RegionRecord /\ box.blc = B /\ box.len = <<T[1] - B[1] + 1, T[2] - B[2] + 1>>
  <2> HIDE DEF B, T
  <2> QED BY <1>2, <1>6, BoxPixels
<1>8. \A p \in LatticePoint : p[1] \in Int /\ p[2] \in Int /\ 2 * p[1] + 1 \in Int /\ 2 * p[2] + 1 \in Int
                              /\ 0 <= p[1] /\ p[1] <= LatticeShape[1] - 1
                              /\ 0 <= p[2] /\ p[2] <= LatticeShape[2] - 1
  BY <1>5, LatticePoints DEF Axis
<1>9. ASSUME NEW p \in LatticePoint, p \in PointsOfPolygon(v) PROVE Within(box, p)
  <2>1. PICK x \in Int, y \in Int : x = 2 * p[1] + 1 /\ y = 2 * p[2] + 1
    BY <1>8
  <2>2. Middle(p) = <<x, y>>
    BY <2>1 DEF Middle
  <2>3. PICK s \in {-1, 1}, u \in 1..Len(v), d \in 1..Len(v) :
                 /\ Rises(v, u, y) /\ Falls(v, d, y)
                 /\ s * SideOf(v, u, <<x, y>>) > 0 /\ s * SideOf(v, d, <<x, y>>) > 0
    BY <1>9, <2>2, InsideIsBetween
  <2>4. low1 <= x /\ x <= high1 /\ low2 <= y /\ y <= high2
    <3>1. Polygonal(v)
      BY GivenPolygon
    <3>2. \A i \in 1..Len(v) : /\ low1 <= v[i][1] /\ v[i][1] <= high1
                               /\ low2 <= v[i][2] /\ v[i][2] <= high2
      BY Zenon, <1>1
    <3> HIDE DEF Coord, Ray, blc, trc, B, T
    <3>3. Rises(v, u, y) /\ Falls(v, d, y)
      BY <2>3
    <3>4. s * SideOf(v, u, <<x, y>>) > 0 /\ s * SideOf(v, d, <<x, y>>) > 0
      BY <2>3
    <3>5. /\ \E i \in 1..Len(v) : v[i][1] <= x
          /\ \E i \in 1..Len(v) : x <= v[i][1]
          /\ \E i \in 1..Len(v) : v[i][2] <= y
          /\ \E i \in 1..Len(v) : y <= v[i][2]
      BY <3>1, <3>3, <3>4, BetweenCorners
    <3>6. \A i \in 1..Len(v) : v[i][1] \in Int /\ v[i][2] \in Int
      BY <3>1, Vertices
    <3>7. PICK i \in 1..Len(v), j \in 1..Len(v), k \in 1..Len(v), m \in 1..Len(v) :
              v[i][1] <= x /\ x <= v[j][1] /\ v[k][2] <= y /\ y <= v[m][2]
      BY Zenon, <3>5
    <3>8. low1 <= v[i][1] /\ v[j][1] <= high1 /\ low2 <= v[k][2] /\ v[m][2] <= high2
      BY Zenon, <3>2
    <3>9. v[i][1] \in Int /\ v[j][1] \in Int /\ v[k][2] \in Int /\ v[m][2] \in Int
      BY Zenon, <3>6
    <3>10. PICK e \in Int, f \in Int, g \in Int, h \in Int :
               e = v[i][1] /\ f = v[j][1] /\ g = v[k][2] /\ h = v[m][2]
      BY Zenon, <3>9
    <3>11. e <= x /\ x <= f /\ g <= y /\ y <= h /\ low1 <= e /\ f <= high1 /\ low2 <= g /\ h <= high2
      BY Zenon, <3>7, <3>8, <3>10
    <3>12. \A q, r, z \in Int : q <= r /\ r <= z => q <= z
      OBVIOUS
    <3> QED BY Zenon, <3>11, <3>12
  <2>5. blc(low1, 1) <= p[1] /\ blc(low2, 2) <= p[2]
    <3>1. low1 \div 2 <= p[1] /\ low2 \div 2 <= p[2]
      BY <1>8, <2>1, <2>4, RoundingMiddles
    <3>2. low1 \div 2 \in Int /\ low2 \div 2 \in Int
      OBVIOUS
    <3> QED BY <1>8, <3>1, <3>2 DEF Greater
  <2>6. p[1] <= trc(high1, 1) /\ p[2] <= trc(high2, 2)
    <3>1. p[1] <= -((-high1) \div 2) /\ p[2] <= -((-high2) \div 2)
      BY <1>8, <2>1, <2>4, RoundingMiddles
    <3>2. -((-high1) \div 2) \in Int /\ -((-high2) \div 2) \in Int
      OBVIOUS
    <3> QED BY <1>5, <1>8, <3>1, <3>2 DEF Lesser
  <2> HIDE DEF blc, trc
  <2>7. /\ box.blc[1] = blc(low1, 1) /\ box.len[1] = trc(high1, 1) - blc(low1, 1) + 1
        /\ box.blc[2] = blc(low2, 2) /\ box.len[2] = trc(high2, 2) - blc(low2, 2) + 1
    BY <1>5, <1>7
  <2> HIDE DEF B, T, Ray, Coord
  <2>8. PICK f1 \in Int, f2 \in Int, g1 \in Int, g2 \in Int :
            f1 = blc(low1, 1) /\ f2 = blc(low2, 2) /\ g1 = trc(high1, 1) /\ g2 = trc(high2, 2)
    BY Zenon, <1>5
  <2>9. /\ p[1] >= box.blc[1] /\ p[1] < box.blc[1] + box.len[1]
        /\ p[2] >= box.blc[2] /\ p[2] < box.blc[2] + box.len[2]
    <3>1. /\ box.blc[1] = f1 /\ box.len[1] = g1 - f1 + 1
          /\ box.blc[2] = f2 /\ box.len[2] = g2 - f2 + 1
      BY Zenon, <2>7, <2>8
    <3>2. f1 <= p[1] /\ f2 <= p[2] /\ p[1] <= g1 /\ p[2] <= g2 /\ p[1] \in Int /\ p[2] \in Int
      BY Zenon, <1>8, <2>5, <2>6, <2>8
    <3> QED BY <3>1, <3>2
  <2> QED BY <2>9 DEF Within, Axis
<1>10. ASSUME NEW p \in LatticePoint PROVE Cardinality(Ray(p)) % 2 = 1 <=> p \in PointsOfPolygon(v)
  <2>1. PICK x \in Int, y \in Int : x = 2 * p[1] + 1 /\ y = 2 * p[2] + 1
    BY <1>8
  <2>2. Middle(p) = <<x, y>>
    BY <2>1 DEF Middle
  <2>3. PICK N : N = Ray(p)
    OBVIOUS
  <2>4. N = {i \in DOMAIN v : Crosses(v[i], v[Before(i, Len(v))], x, y)}
    BY Zenon, <2>1, <2>3
  <2>5. Cardinality(N) % 2 = 1 <=> p \in PointsOfPolygon(v)
    BY <2>2, <2>4, RayCasting
  <2> QED BY Zenon, <2>3, <2>5
<1> HIDE DEF B, T, Ray
<1>11. PointsOfPolygon(v) \in SUBSET LatticePoint /\ mask \in SUBSET Positions(box.len)
  BY <1>3 DEF PointsOfPolygon
<1>12. \A p \in PointsOfPolygon(v) : Within(box, p)
  BY <1>9, <1>11
<1>13. \A p \in LatticePoint :
              Within(box, p) /\ ToLocal(box, p) \in Positions(box.len)
                             /\ ToLattice(box.blc, ToLocal(box, p)) = p
                => (ToLocal(box, p) \in mask <=> p \in PointsOfPolygon(v))
  BY <1>3, <1>10
<1>14. PICK S \in SUBSET LatticePoint : S = PointsOfPolygon(v)
  BY <1>11
<1>15. /\ \A p \in S : Within(box, p)
       /\ \A p \in LatticePoint :
              Within(box, p) /\ ToLocal(box, p) \in Positions(box.len)
                             /\ ToLattice(box.blc, ToLocal(box, p)) = p
                => (ToLocal(box, p) \in mask <=> p \in S)
  BY Zenon, <1>12, <1>13, <1>14
<1>16. LcRegion(box.blc, box.len, mask) \in RegionRecord /\ PixelsOf(LcRegion(box.blc, box.len, mask)) = S
  BY <1>7, <1>11, <1>15, Masking
<1> QED BY Zenon, <1>4, <1>14, <1>16

----------------------------------------------------------------------------
(* Compound regions.                                                       *)

\* A pixel of a region lies in its box.
LEMMA InBox ==
    ASSUME NEW r \in RegionRecord
    PROVE  /\ Trc(r) = <<r.blc[1] + r.len[1] - 1, r.blc[2] + r.len[2] - 1>>
           /\ r.blc[1] \in Int /\ r.blc[2] \in Int /\ Trc(r)[1] \in Int /\ Trc(r)[2] \in Int
           /\ PixelsOf(r) \subseteq LatticePoint
           /\ \A p \in PixelsOf(r), d \in Axis : r.blc[d] <= p[d] /\ p[d] <= Trc(r)[d]
<1>1. r.blc \in Int \X Int /\ r.len \in Int \X Int
  BY DEF RegionRecord
<1>2. Trc(r) = <<r.blc[1] + r.len[1] - 1, r.blc[2] + r.len[2] - 1>>
  BY DEF Trc, Axis, Both
<1>3. \A p \in PixelsOf(r), d \in Axis : r.blc[d] <= p[d] /\ p[d] <= Trc(r)[d]
  BY <1>1, <1>2, LatticePoints DEF PixelsOf, pixel_in_region, Axis, Both
<1> QED BY <1>1, <1>2, <1>3 DEF PixelsOf

LEMMA UnionPixels ==
    ASSUME NEW r \in RegionRecord, NEW s \in RegionRecord
    PROVE  LcUnion(r, s) \in RegionRecord /\ PixelsOf(LcUnion(r, s)) = PixelsOf(r) \cup PixelsOf(s)
<1>2. PICK S : S = PixelsOf(r) \cup PixelsOf(s)
  OBVIOUS
<1>3. PICK box : box = compute_union_bb(r, s)
  OBVIOUS
<1> DEFINE blc == <<Lesser(r.blc[1], s.blc[1]), Lesser(r.blc[2], s.blc[2])>>
           trc == <<Greater(0, Greater(Trc(r)[1], Trc(s)[1])), Greater(0, Greater(Trc(r)[2], Trc(s)[2]))>>
<1>4. box = LcBox(blc, trc) /\ blc \in Int \X Int /\ trc \in Int \X Int
  <2>1. blc \in Int \X Int /\ trc \in Int \X Int
    BY InBox DEF Lesser, Greater
  <2> QED BY <1>3, <2>1 DEF compute_union_bb, Axis, Both
<1>5. \A p \in S, d \in Axis : blc[d] <= p[d] /\ p[d] <= trc[d] /\ p[d] \in Int
  <2> SUFFICES ASSUME NEW p \in S, NEW d \in Axis PROVE blc[d] <= p[d] /\ p[d] <= trc[d] /\ p[d] \in Int
    OBVIOUS
  <2>1. p \in LatticePoint
    BY <1>2 DEF PixelsOf
  <2>2. p[d] \in Int /\ p[d] >= 0
    BY <2>1, LatticePoints DEF Axis
  <2>3. \/ r.blc[d] <= p[d] /\ p[d] <= Trc(r)[d]
        \/ s.blc[d] <= p[d] /\ p[d] <= Trc(s)[d]
    BY <1>2, InBox
  <2>4. r.blc[d] \in Int /\ s.blc[d] \in Int /\ Trc(r)[d] \in Int /\ Trc(s)[d] \in Int
    BY InBox DEF Axis
  <2>5. Lesser(r.blc[d], s.blc[d]) <= p[d] /\ p[d] <= Greater(0, Greater(Trc(r)[d], Trc(s)[d]))
    BY <2>2, <2>3, <2>4 DEF Lesser, Greater
  <2> QED BY <2>2, <2>5 DEF Axis
<1> HIDE DEF blc, trc
<1>6. box \in RegionRecord
  BY <1>4, BoxPixels
<1>7. \A p \in S : Within(box, p)
  BY <1>4, <1>5, BoxPixels DEF Within, Axis
<1>8. PICK mask : mask = {p \in Positions(box.len) : \/ pixel_in_region(r, ToLattice(box.blc, p))
                                                     \/ pixel_in_region(s, ToLattice(box.blc, p))}
  OBVIOUS
<1>9. LcUnion(r, s) = LcRegion(box.blc, box.len, mask)
  BY <1>3, <1>8 DEF LcUnion
<1>10. S \in SUBSET LatticePoint /\ mask \in SUBSET Positions(box.len)
  BY <1>2, <1>8 DEF PixelsOf
<1>11. \A p \in LatticePoint :
          ToLocal(box, p) \in Positions(box.len) /\ ToLattice(box.blc, ToLocal(box, p)) = p
            => (ToLocal(box, p) \in mask <=> p \in S)
  BY <1>2, <1>8 DEF PixelsOf
<1>12. LcRegion(box.blc, box.len, mask) \in RegionRecord /\ PixelsOf(LcRegion(box.blc, box.len, mask)) = S
  BY <1>6, <1>7, <1>10, <1>11, Masking
<1> QED BY <1>2, <1>9, <1>12

LEMMA IntersectionPixels ==
    ASSUME NEW r \in RegionRecord, NEW s \in RegionRecord
    PROVE  /\ LcIntersection(r, s) \in RegionRecord
           /\ PixelsOf(LcIntersection(r, s)) = PixelsOf(r) \cap PixelsOf(s)
<1>2. PICK S : S = PixelsOf(r) \cap PixelsOf(s)
  OBVIOUS
<1>3. PICK box : box = compute_intersection_bb(r, s)
  OBVIOUS
<1> DEFINE blc(d) == Greater(0, Greater(r.blc[d], s.blc[d]))
           trc(d) == Lesser(LatticeShape[d] - 1, Lesser(Trc(r)[d], Trc(s)[d]))
           len(d) == Greater(0, trc(d) - blc(d) + 1)
<1>4. \A d \in Axis : blc(d) \in Int /\ trc(d) \in Int /\ len(d) \in Int
  <2>1. \A d \in Axis : /\ r.blc[d] \in Int /\ s.blc[d] \in Int
                       /\ Trc(r)[d] \in Int /\ Trc(s)[d] \in Int /\ LatticeShape[d] \in Int
    BY InBox, LatticePoints DEF Axis
  <2> QED BY <2>1 DEF Lesser, Greater
<1> DEFINE B == <<blc(1), blc(2)>>
           U == <<trc(1), trc(2)>>
<1>5. box = [LcBox(B, U) EXCEPT !.len = <<len(1), len(2)>>]
  BY <1>3 DEF compute_intersection_bb, Axis, Both
<1>55. LcBox(B, U) \in RegionRecord /\ LcBox(B, U).blc = B
  <2>1. B \in Int \X Int /\ U \in Int \X Int
    BY <1>4 DEF Axis
  <2> HIDE DEF B, U
  <2> QED BY <2>1, BoxPixels
<1>6. \A p \in S, d \in Axis : blc(d) <= p[d] /\ p[d] <= trc(d) /\ p[d] \in Int
  <2> SUFFICES ASSUME NEW p \in S, NEW d \in Axis PROVE blc(d) <= p[d] /\ p[d] <= trc(d) /\ p[d] \in Int
    OBVIOUS
  <2>1. p \in LatticePoint
    BY <1>2 DEF PixelsOf
  <2>2. p[d] \in Int /\ p[d] >= 0 /\ p[d] <= LatticeShape[d] - 1 /\ LatticeShape[d] \in Int
    BY <2>1, LatticePoints DEF Axis
  <2>3. /\ r.blc[d] <= p[d] /\ p[d] <= Trc(r)[d]
        /\ s.blc[d] <= p[d] /\ p[d] <= Trc(s)[d]
    BY <1>2, InBox
  <2>4. r.blc[d] \in Int /\ s.blc[d] \in Int /\ Trc(r)[d] \in Int /\ Trc(s)[d] \in Int
    BY InBox DEF Axis
  <2> QED BY <2>2, <2>3, <2>4 DEF Lesser, Greater
<1>7. box \in RegionRecord
  <2>1. <<len(1), len(2)>> \in Int \X Int
    BY <1>4 DEF Axis
  <2> HIDE DEF B, U, len
  <2> QED BY <1>5, <1>55, <2>1 DEF RegionRecord
<1>8. \A p \in S : Within(box, p)
  <2>1. \A d \in Axis : box.blc[d] = blc(d) /\ box.len[d] = len(d)
    <3>1. box.blc = B /\ box.len = <<len(1), len(2)>>
      <4> HIDE DEF B, U, len
      <4> QED BY <1>5, <1>55 DEF RegionRecord
    <3> HIDE DEF blc, len
    <3> QED BY <3>1 DEF Axis
  <2>2. \A d \in Axis : len(d) >= trc(d) - blc(d) + 1
    <3> HIDE DEF blc, trc
    <3> QED BY <1>4 DEF Greater
  <2> HIDE DEF blc, trc, len
  <2> QED BY <1>4, <1>6, <2>1, <2>2 DEF Within
<1>9. PICK mask : mask = {p \in Positions(box.len) : /\ pixel_in_region(r, ToLattice(box.blc, p))
                                                     /\ pixel_in_region(s, ToLattice(box.blc, p))}
  OBVIOUS
<1>10. LcIntersection(r, s) = LcRegion(box.blc, box.len, mask)
  BY <1>3, <1>9 DEF LcIntersection
<1>11. S \in SUBSET LatticePoint /\ mask \in SUBSET Positions(box.len)
  BY <1>2, <1>9 DEF PixelsOf
<1>12. \A p \in LatticePoint :
          ToLocal(box, p) \in Positions(box.len) /\ ToLattice(box.blc, ToLocal(box, p)) = p
            => (ToLocal(box, p) \in mask <=> p \in S)
  BY <1>2, <1>9 DEF PixelsOf
<1>13. LcRegion(box.blc, box.len, mask) \in RegionRecord /\ PixelsOf(LcRegion(box.blc, box.len, mask)) = S
  BY <1>7, <1>8, <1>11, <1>12, Masking
<1> QED BY <1>2, <1>10, <1>13

LEMMA DifferencePixels ==
    ASSUME NEW r \in RegionRecord, NEW s \in RegionRecord
    PROVE  LcDifference(r, s) \in RegionRecord /\ PixelsOf(LcDifference(r, s)) = PixelsOf(r) \ PixelsOf(s)
<1>1. PICK mask : mask = {p \in Positions(r.len) : /\ pixel_in_region(r, ToLattice(r.blc, p))
                                                   /\ ~pixel_in_region(s, ToLattice(r.blc, p))}
  OBVIOUS
<1>2. PICK S : S = PixelsOf(r) \ PixelsOf(s)
  OBVIOUS
<1>3. \A p \in S : Within(r, p)
  BY <1>2 DEF PixelsOf, pixel_in_region, Within
<1>4. LcDifference(r, s) = LcRegion(r.blc, r.len, mask)
  BY <1>1 DEF LcDifference
<1>5. S \in SUBSET LatticePoint /\ mask \in SUBSET Positions(r.len)
  BY <1>1, <1>2 DEF PixelsOf
<1>6. \A p \in LatticePoint :
          ToLocal(r, p) \in Positions(r.len) /\ ToLattice(r.blc, ToLocal(r, p)) = p
            => (ToLocal(r, p) \in mask <=> p \in S)
  BY <1>1, <1>2 DEF PixelsOf
<1>7. LcRegion(r.blc, r.len, mask) \in RegionRecord /\ PixelsOf(LcRegion(r.blc, r.len, mask)) = S
  BY <1>3, <1>5, <1>6, Masking
<1> QED BY Zenon, <1>2, <1>4, <1>7

LEMMA ComplementPixels ==
    ASSUME NEW r \in RegionRecord
    PROVE  LcComplement(r) \in RegionRecord /\ PixelsOf(LcComplement(r)) = LatticePoint \ PixelsOf(r)
<1>1. {p \in LatticePoint : ~pixel_in_region(r, p)} = LatticePoint \ PixelsOf(r)
  BY DEF PixelsOf
<1>2. LatticePoint \ PixelsOf(r) \in SUBSET LatticePoint
  OBVIOUS
<1> QED BY <1>1, <1>2, WholePixels DEF LcComplement

\* Without a mask an extended region is the whole lattice.
LEMMA ExtensionPixels ==
    ASSUME NEW r \in RegionRecord
    PROVE  /\ LcExtension(r) \in RegionRecord
           /\ PixelsOf(LcExtension(r)) = IF r.has_mask THEN PixelsOf(r) ELSE LatticePoint
<1>1. PICK whole : whole = LcRegion(Origin, LatticeShape, PixelsOf(r))
  OBVIOUS
<1>2. whole \in RegionRecord /\ PixelsOf(whole) = PixelsOf(r)
  <2>1. PixelsOf(r) \in SUBSET LatticePoint
    BY DEF PixelsOf
  <2> QED BY <1>1, <2>1, WholePixels
<1>3. LcExtension(r) = [whole EXCEPT !.has_mask = r.has_mask]
  BY <1>1 DEF LcExtension, PixelsOf
<1>4. whole.blc = Origin /\ whole.len = LatticeShape /\ whole.has_mask
  BY <1>1 DEF LcRegion
<1>5. r.has_mask \in BOOLEAN
  BY DEF RegionRecord
<1>6. LcExtension(r) \in RegionRecord
  BY <1>2, <1>3, <1>5 DEF RegionRecord
<1>7. CASE r.has_mask
  <2>1. LcExtension(r) = whole
    BY <1>2, <1>3, <1>4, <1>5, <1>7 DEF RegionRecord
  <2> QED BY <1>2, <1>7, <2>1
<1>8. CASE ~r.has_mask
  <2>1. LcExtension(r).blc = Origin /\ LcExtension(r).len = LatticeShape /\ ~LcExtension(r).has_mask
    BY <1>2, <1>3, <1>4, <1>8 DEF RegionRecord
  <2>2. \A p \in LatticePoint : pixel_in_region(LcExtension(r), p)
    BY <2>1, LatticePoints DEF pixel_in_region, Origin, Axis
  <2> QED BY <1>6, <1>8, <2>2 DEF PixelsOf
<1> QED BY <1>6, <1>7, <1>8

----------------------------------------------------------------------------
(* What a program makes.                                                   *)

\* The pixels of a region are its set, but for the doubtful ones.
IsSetBut(r, points, doubts) == \A p \in LatticePoint \ doubts : p \in PixelsOf(r) <=> p \in points

RegionsInv ==
    /\ region \in Seq(RegionRecord)
    /\ stands \in Seq(SUBSET LatticePoint) /\ doubtful \in Seq(SUBSET LatticePoint)
    /\ Len(region) \in 0..2 /\ Len(stands) = Len(region) /\ Len(doubtful) = Len(region)
    /\ \A i \in 1..Len(region) : IsSetBut(region[i], stands[i], doubtful[i])

LEMMA MakeRegionInv ==
    ASSUME RegionsInv, NEW r \in RegionRecord,
           NEW points \in SUBSET LatticePoint, NEW doubts \in SUBSET LatticePoint,
           IsSetBut(r, points, doubts), MakeRegion(r, points, doubts)
    PROVE  RegionsInv'
<1>1. CASE Len(region) < 2
  <2>1. /\ region' = Append(region, r)
        /\ stands' = Append(stands, points)
        /\ doubtful' = Append(doubtful, doubts)
    BY <1>1 DEF MakeRegion, Keep, RegionsInv
  <2>2. Len(region) \in {0, 1}
    BY <1>1 DEF RegionsInv
  <2>3. /\ region' \in Seq(RegionRecord)
        /\ stands' \in Seq(SUBSET LatticePoint) /\ doubtful' \in Seq(SUBSET LatticePoint)
        /\ Len(region') \in 0..2 /\ Len(stands') = Len(region') /\ Len(doubtful') = Len(region')
    <3>1. /\ region \in Seq(RegionRecord)
          /\ stands \in Seq(SUBSET LatticePoint) /\ doubtful \in Seq(SUBSET LatticePoint)
          /\ Len(stands) = Len(region) /\ Len(doubtful) = Len(region)
      BY DEF RegionsInv
    <3> QED BY <2>1, <2>2, <3>1
  <2>4. \A i \in 1..Len(region') : IsSetBut(region'[i], stands'[i], doubtful'[i])
    BY <2>1, <2>2 DEF RegionsInv
  <2> QED BY <2>3, <2>4 DEF RegionsInv, IsSetBut, PixelsOf, pixel_in_region
<1>2. CASE ~(Len(region) < 2)
  <2>1. /\ region' = <<region[2], r>>
        /\ stands' = <<stands[2], points>>
        /\ doubtful' = <<doubtful[2], doubts>>
    BY <1>2 DEF MakeRegion, Keep, RegionsInv
  <2>2. /\ Len(region) = 2 /\ region[2] \in RegionRecord
        /\ stands[2] \in SUBSET LatticePoint /\ doubtful[2] \in SUBSET LatticePoint
        /\ IsSetBut(region[2], stands[2], doubtful[2])
    BY <1>2 DEF RegionsInv
  <2>3. /\ region' \in Seq(RegionRecord)
        /\ stands' \in Seq(SUBSET LatticePoint) /\ doubtful' \in Seq(SUBSET LatticePoint)
        /\ Len(region') = 2 /\ Len(stands') = 2 /\ Len(doubtful') = 2
    BY <2>1, <2>2
  <2>4. \A i \in 1..2 : IsSetBut(region'[i], stands'[i], doubtful'[i])
    BY <2>1, <2>2
  <2> QED BY <2>3, <2>4 DEF RegionsInv, IsSetBut, PixelsOf, pixel_in_region
<1> QED BY <1>1, <1>2

\* A region whose pixels are known keeps nothing doubtful.
LEMMA MakeExactInv ==
    ASSUME RegionsInv, NEW r \in RegionRecord, NEW points, PixelsOf(r) = points,
           MakeRegion(r, points, {})
    PROVE  RegionsInv'
<1>1. points \in SUBSET LatticePoint
  BY DEF PixelsOf
<1>2. IsSetBut(r, points, {})
  BY DEF IsSetBut
<1> QED BY <1>1, <1>2, MakeRegionInv

LEMMA MakeSimpleInv == RegionsInv /\ MakeSimple => RegionsInv'
<1> SUFFICES ASSUME RegionsInv, MakeSimple PROVE RegionsInv'
  OBVIOUS
<1>1. ASSUME NEW blc \in BoxCorners, NEW trc \in BoxCorners, MakeBox(blc, trc) PROVE RegionsInv'
  BY <1>1, RegionAssumption, BoxPixels, MakeExactInv DEF MakeBox
<1>2. ASSUME NEW s \in PixelSets, MakePixelSet(s) PROVE RegionsInv'
  BY <1>2, PixelSetPixels, MakeExactInv DEF MakePixelSet
<1>3. ASSUME NEW s \in PixelSets, MakeMask(s.mask \cap LatticePoint) PROVE RegionsInv'
  <2>1. s.mask \cap LatticePoint \in SUBSET LatticePoint
    OBVIOUS
  <2> QED BY <1>3, <2>1, WholePixels, MakeExactInv DEF MakeMask
<1>4. ASSUME NEW e \in Ellipses, MakeRegion(LcEllipsoid(e), PointsOfEllipse(e), {}) PROVE RegionsInv'
  BY <1>4, EllipsePixels, MakeExactInv
<1>5. ASSUME NEW v \in Polygons, MakeRegion(LcPolygon(v), PointsOfPolygon(v), {}) PROVE RegionsInv'
  BY <1>5, PolygonPixels, MakeExactInv
<1> QED BY <1>1, <1>2, <1>3, <1>4, <1>5 DEF MakeSimple

LEMMA CombineInv == RegionsInv /\ Combine => RegionsInv'
<1> SUFFICES ASSUME RegionsInv, Combine PROVE RegionsInv'
  OBVIOUS
<1>1. PICK i \in 1..2, j \in 1..2 :
        LET either == doubtful[i] \cup doubtful[j]
        IN  \/ MakeRegion(LcUnion(region[i], region[j]), stands[i] \cup stands[j], either)
            \/ MakeRegion(LcIntersection(region[i], region[j]), stands[i] \cap stands[j], either)
            \/ MakeRegion(LcDifference(region[i], region[j]), stands[i] \ stands[j], either)
            \/ MakeRegion(LcComplement(region[i]), LatticePoint \ stands[i], either)
            \/ i = j /\ MakeRegion(LcExtension(region[i]), stands[i],
                                  IF region[i].has_mask THEN either ELSE LatticePoint \ stands[i])
  BY DEF Combine
<1> DEFINE either == doubtful[i] \cup doubtful[j]
<1>2. /\ region[i] \in RegionRecord /\ IsSetBut(region[i], stands[i], doubtful[i])
      /\ region[j] \in RegionRecord /\ IsSetBut(region[j], stands[j], doubtful[j])
  <2>1. Len(region) = 2 /\ region \in Seq(RegionRecord)
    BY DEF Combine, RegionsInv
  <2>2. \A m \in 1..2 : region[m] \in RegionRecord
    BY <2>1
  <2>3. \A m \in 1..2 : IsSetBut(region[m], stands[m], doubtful[m])
    BY <2>1 DEF RegionsInv
  <2> QED BY <2>2, <2>3
<1>3. /\ stands[i] \in SUBSET LatticePoint /\ stands[j] \in SUBSET LatticePoint
      /\ doubtful[i] \in SUBSET LatticePoint /\ doubtful[j] \in SUBSET LatticePoint
      /\ either \in SUBSET LatticePoint
  <2>1. Len(region) = 2 /\ Len(stands) = 2 /\ Len(doubtful) = 2
    BY DEF Combine, RegionsInv
  <2>2. stands \in Seq(SUBSET LatticePoint) /\ doubtful \in Seq(SUBSET LatticePoint)
    BY DEF RegionsInv
  <2>3. \A m \in 1..2 : stands[m] \in SUBSET LatticePoint /\ doubtful[m] \in SUBSET LatticePoint
    BY <2>1, <2>2
  <2> QED BY <2>3
<1>4. CASE MakeRegion(LcUnion(region[i], region[j]), stands[i] \cup stands[j], either)
  <2>1. IsSetBut(LcUnion(region[i], region[j]), stands[i] \cup stands[j], either)
    BY <1>2, UnionPixels DEF IsSetBut
  <2>2. stands[i] \cup stands[j] \in SUBSET LatticePoint
    BY <1>3
  <2> QED BY <1>2, <1>3, <1>4, <2>1, <2>2, UnionPixels, MakeRegionInv
<1>5. CASE MakeRegion(LcIntersection(region[i], region[j]), stands[i] \cap stands[j], either)
  <2>1. IsSetBut(LcIntersection(region[i], region[j]), stands[i] \cap stands[j], either)
    BY <1>2, IntersectionPixels DEF IsSetBut
  <2>2. stands[i] \cap stands[j] \in SUBSET LatticePoint
    BY <1>3
  <2> QED BY <1>2, <1>3, <1>5, <2>1, <2>2, IntersectionPixels, MakeRegionInv
<1>6. CASE MakeRegion(LcDifference(region[i], region[j]), stands[i] \ stands[j], either)
  <2>1. IsSetBut(LcDifference(region[i], region[j]), stands[i] \ stands[j], either)
    BY <1>2, DifferencePixels DEF IsSetBut
  <2>2. stands[i] \ stands[j] \in SUBSET LatticePoint
    BY <1>3
  <2> QED BY <1>2, <1>3, <1>6, <2>1, <2>2, DifferencePixels, MakeRegionInv
<1>7. CASE MakeRegion(LcComplement(region[i]), LatticePoint \ stands[i], either)
  <2>1. IsSetBut(LcComplement(region[i]), LatticePoint \ stands[i], either)
    BY <1>2, ComplementPixels DEF IsSetBut
  <2>2. LatticePoint \ stands[i] \in SUBSET LatticePoint
    OBVIOUS
  <2> QED BY <1>2, <1>3, <1>7, <2>1, <2>2, ComplementPixels, MakeRegionInv
<1>8. CASE i = j /\ MakeRegion(LcExtension(region[i]), stands[i],
                              IF region[i].has_mask THEN either ELSE LatticePoint \ stands[i])
  <2>1. CASE region[i].has_mask
    <3>1. IsSetBut(LcExtension(region[i]), stands[i], either)
      BY <1>2, <2>1, ExtensionPixels DEF IsSetBut
    <3> QED BY <1>2, <1>3, <1>8, <2>1, <3>1, ExtensionPixels, MakeRegionInv
  <2>2. CASE ~region[i].has_mask
    <3>1. IsSetBut(LcExtension(region[i]), stands[i], LatticePoint \ stands[i])
      BY <1>2, <2>2, ExtensionPixels DEF IsSetBut
    <3>2. LatticePoint \ stands[i] \in SUBSET LatticePoint
      OBVIOUS
    <3> QED BY <1>2, <1>3, <1>8, <2>2, <3>1, <3>2, ExtensionPixels, MakeRegionInv
  <2> QED BY <2>1, <2>2
<1> QED BY <1>1, <1>4, <1>5, <1>6, <1>7, <1>8

LEMMA RegionsAlways == RegionSpec => []RegionsInv
<1>1. RegionInit => RegionsInv
  BY DEF RegionInit, RegionsInv
<1>2. RegionsInv /\ [RegionNext]_regionVars => RegionsInv'
  <2> SUFFICES ASSUME RegionsInv, [RegionNext]_regionVars PROVE RegionsInv'
    OBVIOUS
  <2>1. CASE UNCHANGED regionVars
    BY <2>1 DEF regionVars, RegionsInv, IsSetBut, PixelsOf, pixel_in_region
  <2> QED BY <2>1, MakeSimpleInv, CombineInv DEF RegionNext
<1> QED BY <1>1, <1>2, PTL DEF RegionSpec

\* Whatever simple regions are made and combined, a pixel of the lattice is in a
\* region exactly when it is in the set the combination stands for, but for
\* pixels outside a rectangle that was extended.
THEOREM RegionsAlwaysTheirSets == RegionSpec => []RegionIsItsSet
<1>1. RegionsInv => RegionIsItsSet
  BY DEF RegionsInv, RegionIsItsSet, IsSetBut, PixelsOf
<1> QED BY <1>1, RegionsAlways, PTL

----------------------------------------------------------------------------
(* LatticeViews: numbers.                                                  *)

\* Division and remainder.
LEMMA Divided ==
    ASSUME NEW r \in Nat, NEW w \in Nat \ {0}
    PROVE  /\ r \div w \in Nat /\ r % w \in 0..(w - 1)
           /\ r = (r \div w) * w + (r % w)
OBVIOUS

\* Products grow with their factors.
LEMMA Products ==
    ASSUME NEW x \in Nat, NEW y \in Nat, NEW w \in Nat
    PROVE  /\ x * w \in Nat
           /\ x < y => x * w + w <= y * w
           /\ x <= y => x * w <= y * w
<1>1. x * w \in Nat
    OBVIOUS
<1>2. ASSUME x <= y PROVE x * w <= y * w
    <2> DEFINE d == y - x
    <2>1. d \in Nat /\ y = x + d
        BY <1>2
    <2>2. y * w = x * w + d * w /\ d * w \in Nat
        BY <2>1
    <2> QED BY <1>1, <2>2
<1>3. ASSUME x < y PROVE x * w + w <= y * w
    <2> DEFINE d == y - (x + 1)
    <2>1. d \in Nat /\ y = x + 1 + d
        BY <1>3
    <2>2. y * w = x * w + w + d * w /\ d * w \in Nat
        BY <2>1
    <2> QED BY <1>1, <2>2
<1> QED BY <1>1, <1>2, <1>3

\* A quotient and a remainder are the only ones.
LEMMA DividedOnce ==
    ASSUME NEW q \in Nat, NEW w \in Nat \ {0}, NEW k \in 0..(w - 1)
    PROVE  (q * w + k) \div w = q /\ (q * w + k) % w = k
<1>1. PICK n \in Nat : n = q * w + k
    BY Products
<1>2. PICK a \in Nat, b \in 0..(w - 1) : a = n \div w /\ b = n % w /\ n = a * w + b
    BY Divided
<1>3. a * w \in Nat /\ q * w \in Nat /\ k \in Nat
    BY Products
<1>4. ~(a < q) /\ ~(q < a)
    <2>1. a < q => a * w + w <= q * w
        BY Products
    <2>2. q < a => q * w + w <= a * w
        BY Products
    <2> QED BY <1>1, <1>2, <1>3, <2>1, <2>2
<1> QED BY <1>1, <1>2, <1>3, <1>4


----------------------------------------------------------------------------
(* LatticeViews: Fortran order, and the slices in it.                      *)

\* An element of a slice, in the array.
PointOf(s, q) == <<s.start[1] + q[1] * s.stride[1], s.start[2] + q[2] * s.stride[2]>>

Slicer == [start : Int \X Int, length : Positive, stride : Positive]

LEMMA IndexIs ==
    ASSUME NEW shape \in Positive, NEW p \in Int \X Int
    PROVE  linear_index(p, fortran_strides(shape)) = p[1] + p[2] * shape[1]
BY DEF linear_index, fortran_strides, Positive

LEMMA SizeIs ==
    ASSUME NEW shape \in Positive
    PROVE  /\ shape[1] \in Nat \ {0} /\ shape[2] \in Nat \ {0}
           /\ Size(shape) \in Nat \ {0} /\ Size(shape) = shape[2] * shape[1]
<1>1. PICK a \in Nat \ {0}, b \in Nat \ {0} : a = shape[1] /\ b = shape[2]
    BY DEF Positive
<1>2. b * a \in Nat /\ b * a = a * b /\ b * a # 0
    OBVIOUS
<1> QED BY <1>1, <1>2 DEF Size

\* Fortran order counts the pixels of a grid.
LEMMA GridCounts ==
    ASSUME NEW shape \in Positive
    PROVE  /\ \A p \in Grid(shape) :
                /\ linear_index(p, fortran_strides(shape)) \in 0..Size(shape) - 1
                /\ delinearize(linear_index(p, fortran_strides(shape)), shape) = p
           /\ \A i \in 0..Size(shape) - 1 :
                /\ delinearize(i, shape) \in Grid(shape)
                /\ delinearize(i, shape) = <<i % shape[1], i \div shape[1]>>
                /\ linear_index(delinearize(i, shape), fortran_strides(shape)) = i
<1>1. PICK a \in Nat \ {0}, b \in Nat \ {0}, n \in Nat \ {0} :
        a = shape[1] /\ b = shape[2] /\ n = b * a /\ Size(shape) = n
    BY SizeIs
<1>2. Grid(shape) = (0..a - 1) \X (0..b - 1)
    BY <1>1 DEF Grid
<1>3. \A x, y \in Int : linear_index(<<x, y>>, fortran_strides(shape)) = x + y * a
    <2> TAKE x, y \in Int
    <2>1. <<x, y>> \in Int \X Int
        OBVIOUS
    <2> QED BY <1>1, <2>1, IndexIs
<1>4. \A i : delinearize(i, shape) = <<i % a, (i \div a) % b>>
    BY <1>1 DEF delinearize
<1>5. \A y \in 0..b - 1 : y % b = y
    OBVIOUS
<1>6. ASSUME NEW p \in Grid(shape)
      PROVE  /\ linear_index(p, fortran_strides(shape)) \in 0..Size(shape) - 1
             /\ delinearize(linear_index(p, fortran_strides(shape)), shape) = p
    <2>1. PICK x \in 0..a - 1, y \in 0..b - 1 : p = <<x, y>>
        BY <1>2
    <2>2. linear_index(p, fortran_strides(shape)) = y * a + x
        <3>1. y * a \in Nat /\ x + y * a = y * a + x
            OBVIOUS
        <3> QED BY <1>3, <2>1, <3>1
    <2>3. y * a + a <= b * a /\ y * a \in Nat
        BY Products
    <2>4. (y * a + x) \div a = y /\ (y * a + x) % a = x
        BY DividedOnce
    <2>5. PICK i : i = linear_index(p, fortran_strides(shape))
        OBVIOUS
    <2>6. i \in 0..n - 1
        BY <1>1, <2>2, <2>3, <2>5
    <2>7. delinearize(i, shape) = <<x, y>>
        BY <1>4, <1>5, <2>2, <2>4, <2>5
    <2> QED BY <1>1, <2>1, <2>5, <2>6, <2>7
<1>7. ASSUME NEW i \in 0..Size(shape) - 1
      PROVE  /\ delinearize(i, shape) \in Grid(shape)
             /\ delinearize(i, shape) = <<i % shape[1], i \div shape[1]>>
             /\ linear_index(delinearize(i, shape), fortran_strides(shape)) = i
    <2>1. i \in Nat /\ i < n
        BY <1>1
    <2>2. PICK x \in 0..a - 1, y \in Nat : x = i % a /\ y = i \div a /\ i = y * a + x
        BY <2>1, Divided
    <2>3. y < b
        <3>1. ~(y < b) => b * a <= y * a
            BY Products
        <3>2. y * a \in Nat
            BY Products
        <3> QED BY <1>1, <2>1, <2>2, <3>1, <3>2
    <2>4. delinearize(i, shape) = <<x, y>>
        BY <1>4, <1>5, <2>2, <2>3
    <2>5. linear_index(<<x, y>>, fortran_strides(shape)) = i
        <3>1. y * a \in Nat /\ x + y * a = y * a + x
            OBVIOUS
        <3>2. x \in Int /\ y \in Int
            OBVIOUS
        <3> QED BY <1>3, <2>2, <3>1, <3>2
    <2>6. <<x, y>> \in Grid(shape)
        BY <1>2, <2>3
    <2> QED BY <1>1, <2>2, <2>4, <2>5, <2>6
<1> QED BY <1>6, <1>7

\* The elements of a slice lie in the array, and apart.
LEMMA SliceLies ==
    ASSUME NEW shape \in Positive, NEW s \in Slicer, validate_slicer(s, shape)
    PROVE  /\ \A q \in Grid(s.length) : PointOf(s, q) \in Grid(shape)
           /\ \A q, r \in Grid(s.length) : PointOf(s, q) = PointOf(s, r) => q = r
<1>1. PICK a \in Nat \ {0}, b \in Nat \ {0}, l \in Nat \ {0}, m \in Nat \ {0},
           x \in Int, y \in Int, d \in Nat \ {0}, e \in Nat \ {0} :
        /\ shape = <<a, b>> /\ s.length = <<l, m>> /\ s.start = <<x, y>> /\ s.stride = <<d, e>>
    <2>1. PICK a \in Nat \ {0}, b \in Nat \ {0} : shape = <<a, b>>
        BY DEF Positive
    <2>2. s.start \in Int \X Int /\ s.length \in Positive /\ s.stride \in Positive
        BY DEF Slicer
    <2>3. PICK x \in Int, y \in Int : s.start = <<x, y>>
        BY <2>2
    <2>4. PICK l \in Nat \ {0}, m \in Nat \ {0} : s.length = <<l, m>>
        BY <2>2 DEF Positive
    <2>5. PICK d \in Nat \ {0}, e \in Nat \ {0} : s.stride = <<d, e>>
        BY <2>2 DEF Positive
    <2> QED BY <2>1, <2>3, <2>4, <2>5
<1>2. x >= 0 /\ x + (l - 1) * d < a /\ y >= 0 /\ y + (m - 1) * e < b
    <2>1. 1 \in Dim /\ 2 \in Dim
        BY DEF Dim
    <2> QED BY <1>1, <2>1 DEF validate_slicer
<1>3. Grid(shape) = (0..a - 1) \X (0..b - 1) /\ Grid(s.length) = (0..l - 1) \X (0..m - 1)
    BY <1>1 DEF Grid
<1>4. \A i, j : PointOf(s, <<i, j>>) = <<x + i * d, y + j * e>>
    BY <1>1 DEF PointOf
<1>5. \A i \in 0..l - 1 : i * d \in Nat /\ i * d <= (l - 1) * d /\ (l - 1) * d \in Nat
    <2> TAKE i \in 0..l - 1
    <2>1. i \in Nat /\ l - 1 \in Nat /\ i <= l - 1
        OBVIOUS
    <2> QED BY <2>1, Products
<1>6. \A j \in 0..m - 1 : j * e \in Nat /\ j * e <= (m - 1) * e /\ (m - 1) * e \in Nat
    <2> TAKE j \in 0..m - 1
    <2>1. j \in Nat /\ m - 1 \in Nat /\ j <= m - 1
        OBVIOUS
    <2> QED BY <2>1, Products
<1>7. \A i, j \in Nat : (i * d = j * d => i = j) /\ (i * e = j * e => i = j)
    <2> TAKE i, j \in Nat
    <2>1. /\ i < j => i * d + d <= j * d /\ i * e + e <= j * e
          /\ j < i => j * d + d <= i * d /\ j * e + e <= i * e
          /\ i * d \in Nat /\ j * d \in Nat /\ i * e \in Nat /\ j * e \in Nat
        BY Products
    <2> QED BY <2>1
<1>8. ASSUME NEW q \in Grid(s.length) PROVE PointOf(s, q) \in Grid(shape)
    <2>1. PICK i \in 0..l - 1, j \in 0..m - 1 : q = <<i, j>>
        BY <1>3
    <2>2. x + i * d \in 0..a - 1
        <3>1. PICK u \in Nat, v \in Nat : u = i * d /\ v = (l - 1) * d /\ u <= v
            BY <1>5
        <3> QED BY <1>2, <3>1
    <2>3. y + j * e \in 0..b - 1
        <3>1. PICK u \in Nat, v \in Nat : u = j * e /\ v = (m - 1) * e /\ u <= v
            BY <1>6
        <3> QED BY <1>2, <3>1
    <2> QED BY <1>3, <1>4, <2>1, <2>2, <2>3
<1>9. ASSUME NEW q \in Grid(s.length), NEW r \in Grid(s.length), PointOf(s, q) = PointOf(s, r)
      PROVE  q = r
    <2>1. PICK i \in 0..l - 1, j \in 0..m - 1, g \in 0..l - 1, h \in 0..m - 1 : q = <<i, j>> /\ r = <<g, h>>
        BY <1>3
    <2>2. x + i * d = x + g * d /\ y + j * e = y + h * e
        <3>1. PointOf(s, q) = <<x + i * d, y + j * e>> /\ PointOf(s, r) = <<x + g * d, y + h * e>>
            BY <1>4, <2>1
        <3>2. PICK t, u, v, w : t = x + i * d /\ u = y + j * e /\ v = x + g * d /\ w = y + h * e
            OBVIOUS
        <3>3. <<t, u>> = <<v, w>>
            BY <1>9, <3>1, <3>2
        <3>4. t = v /\ u = w
            BY <3>3
        <3> QED BY <3>2, <3>4
    <2>3. i * d = g * d /\ j * e = h * e
        <3>1. i * d \in Nat /\ g * d \in Nat /\ j * e \in Nat /\ h * e \in Nat
            BY <1>5, <1>6
        <3> QED BY <2>2, <3>1
    <2>4. i \in Nat /\ g \in Nat /\ j \in Nat /\ h \in Nat
        OBVIOUS
    <2> QED BY <1>7, <2>1, <2>3, <2>4
<1> QED BY <1>8, <1>9

\* One step along a slice, in the array it is of.
LEMMA SliceStep ==
    ASSUME NEW a \in Int, NEW l \in Int, NEW x \in Int, NEW y \in Int, NEW d \in Int, NEW e \in Int,
           NEW i \in Int, NEW j \in Int
    PROVE  /\ (x + (i + 1) * d) + (y + j * e) * a = (x + i * d) + (y + j * e) * a + d
           /\ x + (y + (j + 1) * e) * a = (x + (l - 1) * d) + (y + j * e) * a + d + (e * a - l * d)
<1>1. (i + 1) * d = i * d + d
    OBVIOUS
<1>2. PICK u \in Int, v \in Int, k \in Int : u = i * d /\ v = y + j * e /\ k = v * a
    OBVIOUS
<1>3. (l - 1) * d = l * d - d
    OBVIOUS
<1>4. y + (j + 1) * e = v + e /\ (v + e) * a = k + e * a
    BY <1>2
<1> QED BY <1>1, <1>2, <1>3, <1>4

\* The elements of a slice in Fortran order: the running offsets are theirs.
LEMMA OffsetsOfSlice ==
    ASSUME NEW shape \in Positive, NEW s \in Slicer
    PROVE  /\ DOMAIN StridedOffsets(s, shape) = 0..Size(s.length) - 1
           /\ \A n \in 0..Size(s.length) - 1 :
                StridedOffsets(s, shape)[n] =
                    linear_index(PointOf(s, delinearize(n, s.length)), fortran_strides(shape))
<1>1. PICK a \in Nat \ {0}, b \in Nat \ {0}, l \in Nat \ {0}, m \in Nat \ {0},
           x \in Int, y \in Int, d \in Nat \ {0}, e \in Nat \ {0} :
        /\ shape = <<a, b>> /\ s.length = <<l, m>> /\ s.start = <<x, y>> /\ s.stride = <<d, e>>
    <2>1. PICK a \in Nat \ {0}, b \in Nat \ {0} : shape = <<a, b>>
        BY DEF Positive
    <2>2. s.start \in Int \X Int /\ s.length \in Positive /\ s.stride \in Positive
        BY DEF Slicer
    <2>3. PICK x \in Int, y \in Int : s.start = <<x, y>>
        BY <2>2
    <2>4. PICK l \in Nat \ {0}, m \in Nat \ {0} : s.length = <<l, m>>
        BY <2>2 DEF Positive
    <2>5. PICK d \in Nat \ {0}, e \in Nat \ {0} : s.stride = <<d, e>>
        BY <2>2 DEF Positive
    <2> QED BY <2>1, <2>3, <2>4, <2>5
<1>2. s.length \in Positive
    BY DEF Slicer
<1>3. PICK size \in Nat \ {0} : size = Size(s.length)
    BY <1>2, SizeIs
<1> DEFINE F(n) == (x + (n % l) * d) + (y + (n \div l) * e) * a
<1>4. ASSUME NEW n \in 0..size - 1
      PROVE  linear_index(PointOf(s, delinearize(n, s.length)), fortran_strides(shape)) = F(n)
    <2>1. delinearize(n, s.length) = <<n % l, n \div l>>
        BY <1>1, <1>2, <1>3, GridCounts
    <2>2. n % l \in Int /\ n \div l \in Int
        BY Divided
    <2>3. PICK u \in Int, v \in Int : u = x + (n % l) * d /\ v = y + (n \div l) * e
        <3>1. PICK g \in Int, h \in Int : g = n % l /\ h = n \div l
            BY <2>2
        <3>2. g * d \in Int /\ h * e \in Int
            OBVIOUS
        <3> QED BY <3>1, <3>2
    <2>4. PointOf(s, <<n % l, n \div l>>) = <<u, v>>
        BY <1>1, <2>3 DEF PointOf
    <2>5. <<u, v>> \in Int \X Int
        OBVIOUS
    <2>6. linear_index(<<u, v>>, fortran_strides(shape)) = u + v * a
        BY <1>1, <2>5, IndexIs
    <2> QED BY <2>1, <2>3, <2>4, <2>6
<1>5. F(0) = x + y * a
    <2>1. 0 % l = 0 /\ 0 \div l = 0
        OBVIOUS
    <2>2. 0 * d = 0 /\ 0 * e = 0
        OBVIOUS
    <2>3. F(0) = (x + 0) + (y + 0) * a
        BY <2>1, <2>2
    <2>4. x + 0 = x /\ y + 0 = y
        OBVIOUS
    <2> QED BY <2>3, <2>4
<1>6. ASSUME NEW n \in 1..size - 1
      PROVE  F(n) = F(n - 1) + d + (IF n % l = 0 THEN e * a - l * d ELSE 0)
    <2>1. n \in Nat /\ n - 1 \in Nat
        OBVIOUS
    <2>2. PICK i \in 0..(l - 1), j \in Nat : i = (n - 1) % l /\ j = (n - 1) \div l /\ n - 1 = j * l + i
        BY <2>1, Divided
    <2>3. CASE i + 1 < l
        <3>1. n = j * l + (i + 1) /\ i + 1 \in 0..(l - 1)
            BY <2>2, <2>3
        <3>2. n \div l = j /\ n % l = i + 1
            BY <3>1, DividedOnce
        <3>3. F(n) = (x + (i + 1) * d) + (y + j * e) * a
            BY <3>2
        <3>4. F(n - 1) = (x + i * d) + (y + j * e) * a
            BY <2>2
        <3>5. F(n) = F(n - 1) + d
            <4> HIDE DEF F
            <4> QED BY <3>3, <3>4, SliceStep
        <3>6. i + 1 # 0 /\ F(n - 1) + d \in Int
            <4>1. (x + i * d) + (y + j * e) * a + d \in Int
                OBVIOUS
            <4> HIDE DEF F
            <4> QED BY <3>4, <4>1
        <3> HIDE DEF F
        <3> QED BY <3>2, <3>5, <3>6
    <2>4. CASE ~(i + 1 < l)
        <3>1. n = (j + 1) * l + 0 /\ 0 \in 0..(l - 1) /\ j + 1 \in Nat /\ i = l - 1
            <4>1. (j + 1) * l = j * l + l
                OBVIOUS
            <4>2. i = l - 1
                BY <2>4
            <4> QED BY <2>2, <4>1, <4>2
        <3>2. n \div l = j + 1 /\ n % l = 0
            BY <3>1, DividedOnce
        <3>3. F(n) = (x + 0 * d) + (y + (j + 1) * e) * a
            BY <3>2
        <3>4. F(n - 1) = (x + (l - 1) * d) + (y + j * e) * a
            BY <2>2, <3>1
        <3>5. x + 0 * d = x
            OBVIOUS
        <3>6. x + (y + (j + 1) * e) * a = (x + (l - 1) * d) + (y + j * e) * a + d + (e * a - l * d)
            BY SliceStep
        <3> HIDE DEF F
        <3> QED BY <3>2, <3>3, <3>4, <3>5, <3>6
    <2> QED BY <2>3, <2>4
<1>12. PICK z \in Int, g \in Int : z = x + y * a /\ g = e * a - l * d
    OBVIOUS
<1> DEFINE step == PerAxis([c \in Dim |-> s.stride[c] * fortran_strides(shape)[c]])
           Steps(o) == [n \in 0..Size(s.length) - 1 |->
                IF n = 0 THEN linear_index(s.start, fortran_strides(shape))
                ELSE o[n - 1] + step[1]
                     + (IF n % s.length[1] = 0 THEN step[2] - s.length[1] * step[1] ELSE 0)]
<1>7. StridedOffsets(s, shape) = CHOOSE o : o = Steps(o)
    BY Zenon DEF StridedOffsets
<1>13. /\ step[1] = d /\ step[2] = e * a /\ s.length[1] = l
       /\ linear_index(s.start, fortran_strides(shape)) = z
    <2>1. 1 \in Dim /\ 2 \in Dim
        BY DEF Dim
    <2>2. fortran_strides(shape)[1] = 1 /\ fortran_strides(shape)[2] = a
        BY <1>1 DEF fortran_strides
    <2>3. step = <<s.stride[1] * 1, s.stride[2] * a>>
        BY <2>1, <2>2 DEF PerAxis
    <2>4. s.stride[1] = d /\ s.stride[2] = e /\ d * 1 = d
        BY <1>1
    <2>5. s.start \in Int \X Int
        BY DEF Slicer
    <2>6. linear_index(s.start, fortran_strides(shape)) = x + y * a
        BY <1>1, <2>5, IndexIs
    <2> QED BY <1>1, <1>12, <2>3, <2>4, <2>6
<1>14. \A o : Steps(o) = [n \in 0..size - 1 |->
                IF n = 0 THEN z ELSE o[n - 1] + d + (IF n % l = 0 THEN g ELSE 0)]
    <2> HIDE DEF step
    <2>1. s.length[1] * step[1] = l * d
        BY <1>13
    <2>2. step[2] - s.length[1] * step[1] = g
        BY <1>12, <1>13, <2>1
    <2> QED BY <1>3, <1>13, <2>2
<1>8. \E o : o = [n \in 0..size - 1 |->
                    IF n = 0 THEN z ELSE o[n - 1] + d + (IF n % l = 0 THEN g ELSE 0)]
    <2>1. PICK o : o = [n \in 0..size - 1 |-> F(n)]
        OBVIOUS
    <2>2. \A n \in 0..size - 1 : o[n] = F(n)
        <3> HIDE DEF F
        <3> QED BY <2>1
    <2>3. ASSUME NEW n \in 0..size - 1
          PROVE  o[n] = IF n = 0 THEN z ELSE o[n - 1] + d + (IF n % l = 0 THEN g ELSE 0)
        <3>1. CASE n = 0
            <4> HIDE DEF F
            <4> QED BY <1>5, <1>12, <2>2, <3>1
        <3>2. CASE n # 0
            <4>1. n \in 1..size - 1 /\ n - 1 \in 0..size - 1
                BY <3>2
            <4> HIDE DEF F
            <4> QED BY <1>6, <1>12, <2>2, <3>2, <4>1
        <3> QED BY <3>1, <3>2
    <2>4. o = [n \in 0..size - 1 |-> o[n]]
        <3> HIDE DEF F
        <3> QED BY <2>1
    <2> QED BY <2>3, <2>4
<1>15. \E o : o = Steps(o)
    <2> HIDE DEF Steps
    <2> QED BY <1>8, <1>14
<1>16. PICK o : o = StridedOffsets(s, shape) /\ o = Steps(o)
    <2> HIDE DEF Steps
    <2> QED BY <1>7, <1>15, Zenon
<1>9. o = [n \in 0..size - 1 |-> IF n = 0 THEN z ELSE o[n - 1] + d + (IF n % l = 0 THEN g ELSE 0)]
    <2> HIDE DEF Steps
    <2> QED BY <1>14, <1>16, Zenon
<1>10. /\ DOMAIN o = 0..size - 1 /\ o[0] = z
       /\ \A n \in 1..size - 1 : o[n] = o[n - 1] + d + (IF n % l = 0 THEN g ELSE 0)
    BY <1>9
<1>11. \A n \in 0..size - 1 : o[n] = F(n)
    <2> DEFINE T == {n \in 0..size - 1 : o[n] # F(n)}
    <2> HIDE DEF F
    <2>1. SUFFICES ASSUME T # {} PROVE FALSE
        OBVIOUS
    <2>2. T \subseteq Nat
        OBVIOUS
    <2>3. PICK n \in T : \A k \in T : n <= k
        BY <2>1, <2>2, LeastNat
    <2>4. n # 0
        BY <1>5, <1>10, <1>12, <2>3
    <2>5. n \in 1..size - 1 /\ n - 1 \in 0..size - 1 /\ n - 1 \notin T
        BY <2>3, <2>4
    <2> QED BY <1>6, <1>10, <1>12, <2>3, <2>5
<1> HIDE DEF F, Steps
<1> QED BY <1>3, <1>4, <1>16, <1>10, <1>11

LEMMA SlicerIs == Slicers \subseteq Slicer
BY ViewAssumption DEF Slicer

\* The values of an array of a shape.
Values(flat, shape, V) == flat \in [1..Size(shape) -> V]

\* get_slice: the elements of the slice.
LEMMA GetSliceIs ==
    ASSUME NEW shape \in Positive, NEW s \in Slicer, validate_slicer(s, shape),
           NEW V, NEW flat, Values(flat, shape, V),
           NEW g, g = GetSlice(LatticeArray(shape, flat), s)
    PROVE  /\ g.shape = s.length /\ Values(g.flat, s.length, V)
           /\ \A q \in Grid(s.length) :
                At(g, q) = flat[linear_index(PointOf(s, q), fortran_strides(shape)) + 1]
<1>1. s.length \in Positive
    BY DEF Slicer
<1>2. PICK n \in Nat \ {0}, m \in Nat \ {0} : n = Size(shape) /\ m = Size(s.length)
    BY <1>1, SizeIs
<1>0. flat \in [1..n -> V]
    BY <1>2 DEF Values
<1>3. PICK a : a = LatticeArray(shape, flat) /\ a.shape = shape /\ a.flat = flat
    <2>1. LatticeArray(shape, flat) = [shape |-> shape, flat |-> flat]
        BY DEF LatticeArray
    <2> QED BY <2>1
<1>4. PICK o : o = StridedOffsets(s, shape)
    OBVIOUS
<1>6. g.shape = s.length /\ g.flat = [i \in 1..m |-> flat[o[i - 1] + 1]]
    <2>1. g = LatticeArray(s.length, [i \in 1..m |-> flat[o[i - 1] + 1]])
        BY <1>2, <1>3, <1>4 DEF GetSlice
    <2>2. g = [shape |-> s.length, flat |-> [i \in 1..m |-> flat[o[i - 1] + 1]]]
        BY <2>1 DEF LatticeArray
    <2> QED BY <2>2
<1>7. \A k \in 0..m - 1 : o[k] = linear_index(PointOf(s, delinearize(k, s.length)), fortran_strides(shape))
    BY <1>2, <1>4, OffsetsOfSlice
<1>8. ASSUME NEW k \in 0..m - 1 PROVE o[k] \in 0..n - 1
    <2>1. delinearize(k, s.length) \in Grid(s.length)
        BY <1>1, <1>2, GridCounts
    <2>2. PointOf(s, delinearize(k, s.length)) \in Grid(shape)
        BY <2>1, SliceLies
    <2> QED BY <1>2, <1>7, <2>2, GridCounts
<1>9. g.flat \in [1..m -> V]
    <2>1. \A i \in 1..m : i - 1 \in 0..m - 1
        OBVIOUS
    <2>2. \A i \in 1..m : o[i - 1] + 1 \in 1..n
        BY <1>8, <2>1
    <2>3. \A i \in 1..m : flat[o[i - 1] + 1] \in V
        BY <1>0, <2>2
    <2> QED BY <1>6, <2>3
<1>10. ASSUME NEW q \in Grid(s.length) 
       PROVE  At(g, q) = flat[linear_index(PointOf(s, q), fortran_strides(shape)) + 1]
    <2>1. PICK k \in 0..m - 1 : k = linear_index(q, fortran_strides(s.length)) /\ delinearize(k, s.length) = q
        BY <1>1, <1>2, GridCounts
    <2>2. At(g, q) = flat[o[k] + 1]
        <3>1. k + 1 \in 1..m /\ (k + 1) - 1 = k
            OBVIOUS
        <3>2. g.flat[k + 1] = flat[o[k] + 1]
            BY <1>6, <3>1
        <3> QED BY <1>6, <2>1, <3>2 DEF At
    <2> QED BY <1>7, <2>1, <2>2
<1> QED BY <1>2, <1>6, <1>9, <1>10 DEF Values

\* The largest of some numbers.
LEMMA LargestIn ==
    ASSUME NEW n \in Nat, NEW T \in SUBSET (0..n), T # {}
    PROVE  Max(T) \in T
<1> DEFINE U == {n - t : t \in T}
<1>2. \A t \in T : n - t \in U
    OBVIOUS
<1>1. U \subseteq Nat /\ U # {}
    <2>1. \A t \in T : n - t \in Nat
        OBVIOUS
    <2>2. U \subseteq Nat
        BY <2>1
    <2>3. PICK t \in T : TRUE
        OBVIOUS
    <2> QED BY <1>2, <2>2, <2>3
<1>3. \A u \in U : \E t \in T : u = n - t
    OBVIOUS
<1> HIDE DEF U
<1>4. PICK u \in U : \A v \in U : u <= v
    BY <1>1, LeastNat
<1>5. PICK t \in T : u = n - t
    BY <1>3
<1>6. \A y \in T : t >= y
    <2> TAKE y \in T
    <2>1. n - t <= n - y
        BY <1>2, <1>4, <1>5
    <2>2. t \in 0..n /\ y \in 0..n
        OBVIOUS
    <2> QED BY <2>1, <2>2
<1> QED BY <1>6, Zenon DEF Max

\* put_slice: the elements of the slice are those of the source, the others stay.
LEMMA PutSliceIs ==
    ASSUME NEW shape \in Positive, NEW s \in Slicer, validate_slicer(s, shape),
           NEW V, NEW flat, Values(flat, shape, V),
           NEW source, source.shape = s.length, Values(source.flat, s.length, V),
           NEW new, new = PutSlice(flat, shape, source, s)
    PROVE  /\ Values(new, shape, V)
           /\ \A q \in Grid(s.length) :
                new[linear_index(PointOf(s, q), fortran_strides(shape)) + 1] = At(source, q)
           /\ \A p \in Grid(shape) : (\A q \in Grid(s.length) : p # PointOf(s, q)) =>
                new[linear_index(p, fortran_strides(shape)) + 1]
                    = flat[linear_index(p, fortran_strides(shape)) + 1]
<1>1. s.length \in Positive
    BY DEF Slicer
<1>2. PICK n \in Nat \ {0}, m \in Nat \ {0} : n = Size(shape) /\ m = Size(s.length)
    BY <1>1, SizeIs
<1>0. flat \in [1..n -> V] /\ source.flat \in [1..m -> V]
    BY <1>2 DEF Values
<1>3. PICK o : o = StridedOffsets(s, shape)
    OBVIOUS
<1> DEFINE From(i) == {k \in DOMAIN o : o[k] = i - 1}
<1>5. new = [i \in 1..n |-> IF From(i) = {} THEN flat[i] ELSE source.flat[Max(From(i)) + 1]]
    <2>1. DOMAIN flat = 1..n
        BY <1>0
    <2> QED BY <1>3, <2>1, Zenon DEF PutSlice
<1>6. /\ DOMAIN o = 0..m - 1
      /\ \A k \in 0..m - 1 : o[k] = linear_index(PointOf(s, delinearize(k, s.length)), fortran_strides(shape))
    BY <1>2, <1>3, OffsetsOfSlice
<1>7. ASSUME NEW p \in Grid(shape), NEW k \in 0..m - 1
      PROVE  o[k] = linear_index(p, fortran_strides(shape)) <=> PointOf(s, delinearize(k, s.length)) = p
    <2>1. delinearize(k, s.length) \in Grid(s.length)
        BY <1>1, <1>2, GridCounts
    <2>2. PointOf(s, delinearize(k, s.length)) \in Grid(shape)
        BY <2>1, SliceLies
    <2>3. PICK r \in Grid(shape) : r = PointOf(s, delinearize(k, s.length))
        BY <2>2
    <2>4. o[k] = linear_index(r, fortran_strides(shape))
        BY <1>6, <2>3
    <2>5. /\ delinearize(linear_index(p, fortran_strides(shape)), shape) = p
          /\ delinearize(linear_index(r, fortran_strides(shape)), shape) = r
        BY GridCounts
    <2> QED BY <2>3, <2>4, <2>5
<1>8. ASSUME NEW i \in 1..n PROVE new[i] \in V
    <2>1. CASE From(i) = {}
        BY <1>0, <1>5, <2>1
    <2>2. CASE From(i) # {}
        <3>1. From(i) \subseteq 0..m - 1
            BY <1>6
        <3>2. Max(From(i)) \in From(i)
            <4>1. m - 1 \in Nat /\ From(i) \in SUBSET (0..m - 1)
                BY <3>1
            <4> HIDE DEF From
            <4> QED BY <2>2, <4>1, LargestIn
        <3>3. Max(From(i)) + 1 \in 1..m
            BY <3>1, <3>2
        <3>4. source.flat[Max(From(i)) + 1] \in V
            BY <1>0, <3>3
        <3> HIDE DEF From
        <3> QED BY <1>5, <2>2, <3>4
    <2> QED BY <2>1, <2>2
<1>9. new \in [1..n -> V]
    BY <1>5, <1>8
<1> HIDE DEF From
<1>10. ASSUME NEW q \in Grid(s.length)
       PROVE  new[linear_index(PointOf(s, q), fortran_strides(shape)) + 1] = At(source, q)
    <2>1. PICK k \in 0..m - 1 : k = linear_index(q, fortran_strides(s.length)) /\ delinearize(k, s.length) = q
        BY <1>1, <1>2, GridCounts
    <2>2. PICK p \in Grid(shape) : p = PointOf(s, q)
        BY SliceLies
    <2>3. PICK j \in 0..n - 1 : j = linear_index(p, fortran_strides(shape))
        BY <1>2, GridCounts
    <2>4. From(j + 1) = {k}
        <3>1. (j + 1) - 1 = j
            OBVIOUS
        <3>2. ASSUME NEW h \in 0..m - 1, o[h] = j PROVE h = k
            <4>1. PointOf(s, delinearize(h, s.length)) = PointOf(s, q)
                BY <1>7, <2>2, <2>3, <3>2
            <4>2. delinearize(h, s.length) \in Grid(s.length)
                BY <1>1, <1>2, GridCounts
            <4>3. delinearize(h, s.length) = q
                BY <4>1, <4>2, SliceLies
            <4>4. linear_index(delinearize(h, s.length), fortran_strides(s.length)) = h
                BY <1>1, <1>2, GridCounts
            <4> QED BY <2>1, <4>3, <4>4
        <3>3. o[k] = j
            BY <1>7, <2>1, <2>2, <2>3
        <3> QED BY <1>6, <3>1, <3>2, <3>3 DEF From
    <2>5. Max({k}) = k
        BY DEF Max
    <2>6. new[j + 1] = source.flat[k + 1]
        <3>1. j + 1 \in 1..n /\ {k} # {}
            OBVIOUS
        <3>2. new[j + 1] = IF From(j + 1) = {} THEN flat[j + 1] ELSE source.flat[Max(From(j + 1)) + 1]
            BY <1>5, <3>1
        <3> QED BY <2>4, <2>5, <3>1, <3>2
    <2> QED BY <2>1, <2>2, <2>3, <2>6 DEF At
<1>11. ASSUME NEW p \in Grid(shape), \A q \in Grid(s.length) : p # PointOf(s, q)
       PROVE  new[linear_index(p, fortran_strides(shape)) + 1]
                    = flat[linear_index(p, fortran_strides(shape)) + 1]
    <2>1. PICK j \in 0..n - 1 : j = linear_index(p, fortran_strides(shape))
        BY <1>2, GridCounts
    <2>2. From(j + 1) = {}
        <3>1. ASSUME NEW h \in 0..m - 1, o[h] = j PROVE FALSE
            <4>1. PointOf(s, delinearize(h, s.length)) = p
                BY <1>7, <2>1, <3>1
            <4>2. delinearize(h, s.length) \in Grid(s.length)
                BY <1>1, <1>2, GridCounts
            <4> QED BY <1>11, <4>1, <4>2
        <3>2. (j + 1) - 1 = j
            OBVIOUS
        <3> QED BY <1>6, <3>1, <3>2 DEF From
    <2>3. new[j + 1] = flat[j + 1]
        <3>1. j + 1 \in 1..n
            OBVIOUS
        <3> QED BY <1>5, <2>2, <3>1
    <2> QED BY <2>1, <2>3
<1> QED BY <1>2, <1>9, <1>10, <1>11 DEF Values

----------------------------------------------------------------------------
(* LatticeViews: storage that is shared until it is written.               *)

Flats == [1..Size(Shape) -> PixelValues \cup 1..Size(Shape)]

\* Each storage and where it is used.
SharingTyped ==
    /\ storage \in [Storage -> Flats]
    /\ data \in Storage
    /\ array \in [Keepers -> Storage \cup {NoArray}]

\* Who uses a storage.
LEMMA UsersAre ==
    ASSUME NEW id
    PROVE  /\ Users(id) \in Nat
           /\ Users(id) = 0 <=> data # id /\ \A k \in Keepers : array[k] # id
           /\ data = id /\ Users(id) = 1 => \A k \in Keepers : array[k] # id
           /\ \A k \in Keepers : array[k] = id /\ ~(Users(id) > 1) =>
                data # id /\ \A j \in Keepers : array[j] = id => j = k
<1>1. PICK K : K = {k \in Keepers : array[k] = id}
    OBVIOUS
<1>2. IsFiniteSet(K) /\ Cardinality(K) \in Nat
    <2>1. K \subseteq Keepers
        BY <1>1
    <2>2. IsFiniteSet(Keepers)
        BY ViewAssumption
    <2> QED BY <2>1, <2>2, FS_Subset, FS_CardinalityType
<1>3. Users(id) = (IF data = id THEN 1 ELSE 0) + Cardinality(K)
    BY <1>1 DEF Users
<1>4. Cardinality(K) = 0 <=> K = {}
    BY <1>2, FS_EmptySet
<1>5. ASSUME NEW j \in K, NEW k \in K, j # k PROVE Cardinality(K) > 1
    <2>1. {j, k} \subseteq K /\ IsFiniteSet({j}) /\ Cardinality({j}) = 1
        BY FS_Singleton
    <2>2. IsFiniteSet({j} \cup {k}) /\ Cardinality({j} \cup {k}) = 2
        BY <1>5, <2>1, FS_AddElement
    <2>3. {j} \cup {k} = {j, k}
        OBVIOUS
    <2>4. Cardinality({j, k}) <= Cardinality(K)
        BY <1>2, <2>1, FS_Subset
    <2> QED BY <1>2, <2>2, <2>3, <2>4
<1>6. \A k \in Keepers : array[k] = id <=> k \in K
    BY <1>1
<1>7. PICK c \in Nat : c = Cardinality(K)
    BY <1>2
<1>8. PICK u \in Nat : u = Users(id) /\ u = (IF data = id THEN 1 ELSE 0) + c
    BY <1>3, <1>7
<1>9. c = 0 <=> \A k \in Keepers : array[k] # id
    <2>1. K = {} <=> \A k \in Keepers : array[k] # id
        BY <1>1
    <2> QED BY <1>4, <1>7, <2>1
<1>10. ASSUME NEW k \in Keepers, array[k] = id, ~(u > 1)
       PROVE  data # id /\ \A j \in Keepers : array[j] = id => j = k
    <2>1. k \in K /\ c # 0
        BY <1>6, <1>9, <1>10
    <2>2. data # id
        BY <1>8, <1>10, <2>1
    <2>3. ~(c > 1)
        BY <1>8, <1>10
    <2>4. \A j \in Keepers : array[j] = id => j = k
        BY <1>5, <1>6, <1>7, <2>1, <2>3
    <2> QED BY <2>2, <2>4
<1>11. u = 0 <=> data # id /\ \A k \in Keepers : array[k] # id
    BY <1>8, <1>9
<1>12. data = id /\ u = 1 => \A k \in Keepers : array[k] # id
    BY <1>8, <1>9
<1> QED BY <1>8, <1>10, <1>11, <1>12

\* There is always a storage that nobody uses.
LEMMA FreshIs ==
    ASSUME SharingTyped
    PROVE  Fresh \in Storage /\ data # Fresh /\ \A k \in Keepers : array[k] # Fresh
<1>1. PICK n \in Nat : n = Cardinality(Keepers)
    BY ViewAssumption, FS_CardinalityType
<1>2. Storage = 1..n + 2 /\ IsFiniteSet(Storage) /\ Cardinality(Storage) = n + 2
    <2>1. Storage = 1..n + 2
        BY <1>1 DEF Storage
    <2>2. 1 \in Int /\ n + 2 \in Int
        OBVIOUS
    <2>3. IsFiniteSet(1..n + 2) /\ Cardinality(1..n + 2) = n + 2
        BY <2>2, FS_Interval
    <2> QED BY <2>1, <2>3
<1>3. PICK R : R = {array[k] : k \in Keepers}
    OBVIOUS
<1>4. IsFiniteSet(R) /\ Cardinality(R) <= n
    <2>1. array \in Surjection(Keepers, R)
        <3>1. array \in [Keepers -> R]
            BY <1>3 DEF SharingTyped
        <3> QED BY <1>3, <3>1 DEF Surjection
    <2> QED BY <1>1, <2>1, ViewAssumption, FS_Surjection
<1>5. IsFiniteSet(R \cup {data}) /\ Cardinality(R \cup {data}) <= n + 1
    <2>1. Cardinality(R) \in Nat
        BY <1>4, FS_CardinalityType
    <2>2. CASE data \in R
        BY <1>4, <2>1, <2>2, FS_AddElement
    <2>3. CASE data \notin R
        BY <1>4, <2>1, <2>3, FS_AddElement
    <2> QED BY <2>2, <2>3
<1>6. \E id \in Storage : id \notin R \cup {data}
    <2>1. SUFFICES ASSUME Storage \subseteq R \cup {data} PROVE FALSE
        OBVIOUS
    <2>2. Cardinality(Storage) <= Cardinality(R \cup {data})
        BY <1>5, <2>1, FS_Subset
    <2>3. Cardinality(R \cup {data}) \in Nat
        BY <1>5, FS_CardinalityType
    <2> QED BY <1>2, <1>5, <2>2, <2>3
<1>7. \A id : Users(id) = 0 <=> id \notin R \cup {data}
    BY <1>3, UsersAre
<1>8. PICK F \in SUBSET Nat : F = {id \in Storage : Users(id) = 0}
    <2>1. Storage \subseteq Nat
        BY <1>2
    <2> QED BY <2>1
<1>9. F # {}
    BY <1>6, <1>7, <1>8
<1>10. PICK x \in F : \A y \in F : x <= y
    BY <1>9, LeastNat
<1>11. x \in Storage /\ Users(x) = 0 /\ \A j \in Storage : Users(j) = 0 => x <= j
    BY <1>8, <1>10
<1>12. Fresh \in Storage /\ Users(Fresh) = 0
    BY <1>11, Zenon DEF Fresh
<1> QED BY <1>12, UsersAre

\* A write reaches the lattice, and none of the arrays.
LEMMA WriteReaches ==
    ASSUME SharingTyped, NEW flat \in Flats, make_unique_and_write(flat)
    PROVE  /\ data' \in Storage /\ storage' \in [Storage -> Flats] /\ storage'[data'] = flat
           /\ \A k \in Keepers : array[k] # NoArray => storage'[array[k]] = storage[array[k]]
<1>1. CASE Users(data) = 1
    <2>1. storage' = [storage EXCEPT ![data] = flat] /\ data' = data
        BY <1>1 DEF make_unique_and_write
    <2>2. \A k \in Keepers : array[k] # data
        BY <1>1, UsersAre
    <2> QED BY <2>1, <2>2 DEF SharingTyped
<1>2. CASE Users(data) # 1
    <2>1. PICK id \in Storage : id = Fresh /\ \A k \in Keepers : array[k] # id
        BY FreshIs
    <2>2. storage' = [storage EXCEPT ![id] = flat] /\ data' = id
        BY <1>2, <2>1 DEF make_unique_and_write
    <2> QED BY <2>1, <2>2 DEF SharingTyped
<1> QED BY <1>1, <1>2

----------------------------------------------------------------------------
(* LatticeViews: the view.                                                 *)

\* The lattice shows what is expected, and so does every array.
SharingHolds ==
    /\ SharingTyped
    /\ DOMAIN expected = Grid(Shape) /\ Shows(Lattice, expected)
    /\ DOMAIN expectedArray = Keepers
    /\ \A k \in Keepers : array[k] # NoArray => storage[array[k]] = expectedArray[k]

\* The view is a part of the lattice.
ViewLies == view \in Slicer /\ validate_slicer(view, Shape)

LEMMA FullIs == Full(Shape) \in Slicer /\ validate_slicer(Full(Shape), Shape)
<1>1. PICK a \in Nat \ {0}, b \in Nat \ {0} : Shape = <<a, b>>
    BY ViewAssumption DEF Positive
<1>2. Full(Shape) \in Slicer
    BY <1>1 DEF Full, Slicer, Positive
<1>3. ASSUME NEW d \in Dim
      PROVE  Full(Shape).start[d] >= 0
             /\ Full(Shape).start[d] + (Full(Shape).length[d] - 1) * Full(Shape).stride[d] < Shape[d]
    <2>1. d = 1 \/ d = 2
        BY DEF Dim
    <2>2. CASE d = 1
        BY <1>1, <2>2 DEF Full
    <2>3. CASE d = 2
        BY <1>1, <2>3 DEF Full
    <2> QED BY <2>1, <2>2, <2>3
<1> QED BY <1>2, <1>3 DEF validate_slicer

LEMMA ParentIndex ==
    ASSUME NEW q
    PROVE  to_parent_index(q) = PointOf(view, q)
<1>1. 1 \in Dim /\ 2 \in Dim
    BY DEF Dim
<1> QED BY <1>1 DEF to_parent_index, PerAxis, PointOf

\* A slice of the view is one of the lattice, of the same elements.
LEMMA SliceOfView ==
    ASSUME ViewLies, NEW s \in Slicer, validate_slicer(s, view.length)
    PROVE  /\ to_parent_slicer(s) \in Slicer /\ to_parent_slicer(s).length = s.length
           /\ validate_slicer(to_parent_slicer(s), Shape)
           /\ \A q \in Grid(s.length) :
                PointOf(to_parent_slicer(s), q) = to_parent_index(PointOf(s, q))
<1>1. PICK x \in Int, y \in Int, l \in Nat \ {0}, m \in Nat \ {0}, d \in Nat \ {0}, e \in Nat \ {0} :
        s.start = <<x, y>> /\ s.length = <<l, m>> /\ s.stride = <<d, e>>
    <2>1. s.start \in Int \X Int /\ s.length \in Positive /\ s.stride \in Positive
        BY DEF Slicer
    <2>2. PICK x \in Int, y \in Int : s.start = <<x, y>>
        BY <2>1
    <2>3. PICK l \in Nat \ {0}, m \in Nat \ {0} : s.length = <<l, m>>
        BY <2>1 DEF Positive
    <2>4. PICK d \in Nat \ {0}, e \in Nat \ {0} : s.stride = <<d, e>>
        BY <2>1 DEF Positive
    <2> QED BY <2>2, <2>3, <2>4
<1>2. PICK u \in Int, v \in Int, g \in Nat \ {0}, h \in Nat \ {0} :
        view.start = <<u, v>> /\ view.stride = <<g, h>>
    <2>1. view.start \in Int \X Int /\ view.stride \in Positive
        BY DEF Slicer, ViewLies
    <2>2. PICK u \in Int, v \in Int : view.start = <<u, v>>
        BY <2>1
    <2>3. PICK g \in Nat \ {0}, h \in Nat \ {0} : view.stride = <<g, h>>
        BY <2>1 DEF Positive
    <2> QED BY <2>2, <2>3
<1>3. PICK t : t = to_parent_slicer(s)
    OBVIOUS
<1>4. 1 \in Dim /\ 2 \in Dim
    BY DEF Dim
<1>5. /\ t.start = <<u + x * g, v + y * h>> /\ t.length = <<l, m>>
      /\ t.stride = <<d * g, e * h>> /\ t.length = s.length
      /\ t = [start |-> <<u + x * g, v + y * h>>, length |-> <<l, m>>, stride |-> <<d * g, e * h>>]
    <2>1. t = [start |-> PerAxis([c \in Dim |-> view.start[c] + s.start[c] * view.stride[c]]),
               length |-> s.length, stride |-> PerAxis([c \in Dim |-> s.stride[c] * view.stride[c]])]
        BY <1>3, Zenon DEF to_parent_slicer
    <2>2. PerAxis([c \in Dim |-> view.start[c] + s.start[c] * view.stride[c]]) = <<u + x * g, v + y * h>>
        BY <1>1, <1>2, <1>4 DEF PerAxis
    <2>3. PerAxis([c \in Dim |-> s.stride[c] * view.stride[c]]) = <<d * g, e * h>>
        BY <1>1, <1>2, <1>4 DEF PerAxis
    <2>4. t = [start |-> <<u + x * g, v + y * h>>, length |-> <<l, m>>, stride |-> <<d * g, e * h>>]
        BY <1>1, <2>1, <2>2, <2>3
    <2>5. PICK p, q, r : p = <<u + x * g, v + y * h>> /\ q = <<l, m>> /\ r = <<d * g, e * h>>
        OBVIOUS
    <2>6. t = [start |-> p, length |-> q, stride |-> r]
        BY <2>4, <2>5
    <2>7. t.start = p /\ t.length = q /\ t.stride = r
        BY <2>6
    <2> QED BY <1>1, <2>4, <2>5, <2>7
<1>6. t \in Slicer
    <2>1. d * g \in Nat \ {0} /\ e * h \in Nat \ {0} /\ u + x * g \in Int /\ v + y * h \in Int
        OBVIOUS
    <2>2. <<u + x * g, v + y * h>> \in Int \X Int /\ <<l, m>> \in Positive /\ <<d * g, e * h>> \in Positive
        BY <2>1 DEF Positive
    <2> QED BY <1>5, <2>2 DEF Slicer
<1>7. ASSUME NEW i \in Int, NEW j \in Int
      PROVE  /\ PointOf(t, <<i, j>>) = <<(u + x * g) + i * (d * g), (v + y * h) + j * (e * h)>>
             /\ PointOf(view, PointOf(s, <<i, j>>)) = <<u + (x + i * d) * g, v + (y + j * e) * h>>
             /\ (u + x * g) + i * (d * g) = u + (x + i * d) * g
             /\ (v + y * h) + j * (e * h) = v + (y + j * e) * h
    <2>1. PointOf(t, <<i, j>>) = <<(u + x * g) + i * (d * g), (v + y * h) + j * (e * h)>>
        BY <1>5 DEF PointOf
    <2>2. PointOf(view, PointOf(s, <<i, j>>)) = <<u + (x + i * d) * g, v + (y + j * e) * h>>
        BY <1>1, <1>2 DEF PointOf
    <2>3. i * (d * g) = (i * d) * g /\ (x + i * d) * g = x * g + (i * d) * g
        OBVIOUS
    <2>4. j * (e * h) = (j * e) * h /\ (y + j * e) * h = y * h + (j * e) * h
        OBVIOUS
    <2>5. x * g \in Int /\ (i * d) * g \in Int /\ y * h \in Int /\ (j * e) * h \in Int
        OBVIOUS
    <2> QED BY <2>1, <2>2, <2>3, <2>4, <2>5
<1>8. ASSUME NEW q \in Grid(s.length) PROVE PointOf(t, q) = to_parent_index(PointOf(s, q))
    <2>1. PICK i \in Int, j \in Int : q = <<i, j>>
        BY <1>1 DEF Grid
    <2> QED BY <1>7, <2>1, ParentIndex
<1>9. ASSUME NEW i \in 0..l - 1, NEW j \in 0..m - 1
      PROVE  PointOf(t, <<i, j>>) \in Grid(Shape)
    <2>1. <<i, j>> \in Grid(s.length)
        BY <1>1 DEF Grid
    <2>2. view.length \in Positive
        BY DEF ViewLies, Slicer
    <2>3. PointOf(s, <<i, j>>) \in Grid(view.length)
        BY <2>1, <2>2, SliceLies
    <2>4. PointOf(view, PointOf(s, <<i, j>>)) \in Grid(Shape)
        BY <2>3, ViewAssumption, SliceLies DEF ViewLies
    <2> QED BY <1>8, <2>1, <2>4, ParentIndex
<1>10. validate_slicer(t, Shape)
    <2>1. PICK a \in Nat \ {0}, b \in Nat \ {0} : Shape = <<a, b>>
        BY ViewAssumption DEF Positive
    <2>2. Grid(Shape) = (0..a - 1) \X (0..b - 1)
        BY <2>1 DEF Grid
    <2>3. u + x * g >= 0 /\ v + y * h >= 0
        <3>1. PointOf(t, <<0, 0>>) = <<u + x * g, v + y * h>>
            <4>1. 0 * (d * g) = 0 /\ 0 * (e * h) = 0
                OBVIOUS
            <4>2. (u + x * g) + 0 = u + x * g /\ (v + y * h) + 0 = v + y * h
                OBVIOUS
            <4> QED BY <1>7, <4>1, <4>2
        <3>2. PointOf(t, <<0, 0>>) \in (0..a - 1) \X (0..b - 1)
            BY <1>9, <2>2
        <3>3. PICK z, w : z = u + x * g /\ w = v + y * h
            OBVIOUS
        <3>4. <<z, w>> \in (0..a - 1) \X (0..b - 1)
            BY <3>1, <3>2, <3>3
        <3> QED BY <3>3, <3>4
    <2>4. (u + x * g) + (l - 1) * (d * g) < a /\ (v + y * h) + (m - 1) * (e * h) < b
        <3>1. l - 1 \in Int /\ m - 1 \in Int /\ l - 1 \in 0..l - 1 /\ m - 1 \in 0..m - 1
            OBVIOUS
        <3>2. PICK z, w : z = (u + x * g) + (l - 1) * (d * g) /\ w = (v + y * h) + (m - 1) * (e * h)
            OBVIOUS
        <3>3. PointOf(t, <<l - 1, m - 1>>) = <<z, w>>
            BY <1>7, <3>1, <3>2
        <3>4. <<z, w>> \in (0..a - 1) \X (0..b - 1)
            BY <1>9, <2>2, <3>1, <3>3
        <3> QED BY <3>2, <3>4
    <2>5. ASSUME NEW c \in Dim
          PROVE  t.start[c] >= 0 /\ t.start[c] + (t.length[c] - 1) * t.stride[c] < Shape[c]
        <3>1. c = 1 \/ c = 2
            BY DEF Dim
        <3>2. CASE c = 1
            BY <1>5, <2>1, <2>3, <2>4, <3>2
        <3>3. CASE c = 2
            BY <1>5, <2>1, <2>3, <2>4, <3>3
        <3> QED BY <3>1, <3>2, <3>3
    <2> QED BY <2>5 DEF validate_slicer
<1> QED BY <1>3, <1>5, <1>6, <1>8, <1>10

----------------------------------------------------------------------------
(* LatticeViews: what the program does to its lattice and its arrays.      *)

LEMMA UnwrittenIs == Unwritten \in Flats
BY DEF Unwritten, Flats

\* What the lattice shows, element by element.
LEMMA ShownIs ==
    ASSUME SharingHolds
    PROVE  /\ \A p \in Grid(Shape) : At(LatticeArray(Shape, storage[data]), p) = expected[p]
           /\ \A p \in Grid(Shape) :
                storage[data][linear_index(p, fortran_strides(Shape)) + 1] = expected[p]
<1>1. Lattice = [shape |-> Shape, flat |-> storage[data]]
    BY DEF Lattice, LatticeArray
<1>2. Lattice.shape = Shape /\ Lattice.flat = storage[data]
    BY <1>1
<1>3. \A p \in Grid(Shape) : At(Lattice, p) = expected[p]
    BY <1>2 DEF SharingHolds, Shows
<1>4. Lattice = LatticeArray(Shape, storage[data])
    BY DEF Lattice
<1> QED BY <1>2, <1>3, <1>4 DEF At

\* What has to hold after a step.
LEMMA SharingGoesOn ==
    ASSUME storage' \in [Storage -> Flats], data' \in Storage,
           array' \in [Keepers -> Storage \cup {NoArray}],
           DOMAIN expected' = Grid(Shape), DOMAIN expectedArray' = Keepers,
           \A p \in Grid(Shape) :
                storage'[data'][linear_index(p, fortran_strides(Shape)) + 1] = expected'[p],
           \A k \in Keepers : array'[k] # NoArray => storage'[array'[k]] = expectedArray'[k]
    PROVE  SharingHolds'
<1>1. Lattice' = [shape |-> Shape, flat |-> storage'[data']]
    BY DEF Lattice, LatticeArray
<1>2. Lattice'.shape = Shape /\ Lattice'.flat = storage'[data']
    BY <1>1
<1>3. \A p \in Grid(Shape) : At(Lattice, p)' = expected'[p]
    BY <1>2 DEF At
<1>4. Shows(Lattice, expected)'
    BY <1>2, <1>3 DEF Shows
<1>5. SharingTyped'
    BY DEF SharingTyped
<1> QED BY <1>4, <1>5 DEF SharingHolds

LEMMA KeepArrayShares ==
    ASSUME SharingHolds, NEW k \in Keepers, KeepArray(k)
    PROVE  SharingHolds'
<1>1. SharingTyped /\ DOMAIN expected = Grid(Shape) /\ DOMAIN expectedArray = Keepers
    BY DEF SharingHolds
<1>2. PICK e : e = [i \in 1..Size(Shape) |-> expected[delinearize(i - 1, Shape)]]
    OBVIOUS
<1>3. array' = [array EXCEPT ![k] = data] /\ expectedArray' = [expectedArray EXCEPT ![k] = e]
      /\ UNCHANGED <<storage, data, expected>>
    BY <1>2 DEF KeepArray
<1>4. storage[data] = e
    <2>1. PICK f \in Flats : f = storage[data]
        BY <1>1 DEF SharingTyped
    <2>2. PICK n \in Nat \ {0} : n = Size(Shape)
        BY ViewAssumption, SizeIs
    <2>3. ASSUME NEW i \in 1..n PROVE f[i] = expected[delinearize(i - 1, Shape)]
        <3>1. i - 1 \in 0..Size(Shape) - 1 /\ (i - 1) + 1 = i
            BY <2>2
        <3>2. delinearize(i - 1, Shape) \in Grid(Shape)
              /\ linear_index(delinearize(i - 1, Shape), fortran_strides(Shape)) = i - 1
            BY <3>1, ViewAssumption, GridCounts
        <3> QED BY <2>1, <3>1, <3>2, ShownIs
    <2> QED BY <1>2, <2>1, <2>2, <2>3 DEF Flats
<1>5. array' \in [Keepers -> Storage \cup {NoArray}] /\ DOMAIN expectedArray' = Keepers
    BY <1>1, <1>3 DEF SharingTyped
<1>6. ASSUME NEW j \in Keepers, array'[j] # NoArray PROVE storage'[array'[j]] = expectedArray'[j]
    <2>1. CASE j = k
        BY <1>1, <1>3, <1>4, <2>1 DEF SharingTyped
    <2>2. CASE j # k
        BY <1>1, <1>3, <1>6, <2>2 DEF SharingTyped, SharingHolds
    <2> QED BY <2>1, <2>2
<1> QED BY <1>1, <1>3, <1>5, <1>6, ShownIs, SharingGoesOn DEF SharingTyped

LEMMA DropArrayShares ==
    ASSUME SharingHolds, NEW k \in Keepers, DropArray(k)
    PROVE  SharingHolds'
<1>1. SharingTyped /\ DOMAIN expected = Grid(Shape) /\ DOMAIN expectedArray = Keepers
    BY DEF SharingHolds
<1>2. array' = [array EXCEPT ![k] = NoArray] /\ expectedArray' = [expectedArray EXCEPT ![k] = Unwritten]
      /\ UNCHANGED <<data, expected>>
    BY DEF DropArray
<1>3. array' \in [Keepers -> Storage \cup {NoArray}] /\ DOMAIN expectedArray' = Keepers
    BY <1>1, <1>2 DEF SharingTyped
<1>4. PICK id \in Storage : id = array[k]
    BY <1>1 DEF DropArray, SharingTyped
<1>5. \/ storage' = storage
      \/ ~(Users(id) > 1) /\ storage' = [storage EXCEPT ![id] = Unwritten]
    BY <1>4 DEF DropArray
<1>6. storage' \in [Storage -> Flats]
    BY <1>1, <1>5, UnwrittenIs DEF SharingTyped
<1>7. storage'[data] = storage[data]
    <2>1. ~(Users(id) > 1) => data # id
        BY <1>4, UsersAre
    <2> QED BY <1>1, <1>5, <2>1 DEF SharingTyped
<1>8. ASSUME NEW j \in Keepers, array'[j] # NoArray PROVE storage'[array'[j]] = expectedArray'[j]
    <2>1. j # k /\ array'[j] = array[j] /\ expectedArray'[j] = expectedArray[j] /\ array[j] # NoArray
        BY <1>1, <1>2, <1>8 DEF SharingTyped
    <2>2. storage[array[j]] = expectedArray[j] /\ array[j] \in Storage
        BY <1>1, <2>1 DEF SharingHolds, SharingTyped
    <2>3. ~(Users(id) > 1) => array[j] # id
        BY <1>4, <2>1, UsersAre
    <2> QED BY <1>1, <1>5, <2>1, <2>2, <2>3 DEF SharingTyped
<1> QED BY <1>1, <1>2, <1>3, <1>6, <1>7, <1>8, ShownIs, SharingGoesOn DEF SharingTyped

LEMMA PutArrayShares ==
    ASSUME SharingHolds, NEW k \in Keepers, PutArray(k)
    PROVE  SharingHolds'
<1>1. SharingTyped /\ DOMAIN expected = Grid(Shape) /\ DOMAIN expectedArray = Keepers
    BY DEF SharingHolds
<1>2. PICK f \in Flats : f = storage[array[k]] /\ f = expectedArray[k]
    BY <1>1 DEF PutArray, SharingHolds, SharingTyped
<1>3. PICK id \in Storage :
        /\ data' = id /\ storage' = [storage EXCEPT ![id] = f]
        /\ \A j \in Keepers : array[j] # id
    <2>1. CASE Users(data) = 1 /\ array[k] # data
        <3>1. data' = data /\ storage' = [storage EXCEPT ![data] = f]
            BY <1>2, <2>1 DEF PutArray
        <3>2. \A j \in Keepers : array[j] # data
            BY <2>1, UsersAre
        <3> QED BY <1>1, <3>1, <3>2 DEF SharingTyped
    <2>2. CASE ~(Users(data) = 1 /\ array[k] # data)
        <3>1. PICK id \in Storage : id = Fresh /\ \A j \in Keepers : array[j] # id
            BY <1>1, FreshIs
        <3>2. data' = id /\ storage' = [storage EXCEPT ![id] = f]
            BY <1>2, <2>2, <3>1 DEF PutArray
        <3> QED BY <3>1, <3>2
    <2> QED BY <2>1, <2>2
<1>4. /\ expected' = [p \in Grid(Shape) |-> f[linear_index(p, fortran_strides(Shape)) + 1]]
      /\ array' = array /\ expectedArray' = expectedArray
    BY <1>2 DEF PutArray
<1>5. storage' \in [Storage -> Flats] /\ storage'[id] = f
    BY <1>1, <1>3 DEF SharingTyped
<1>6. ASSUME NEW j \in Keepers, array[j] # NoArray PROVE storage'[array[j]] = expectedArray[j]
    <2>1. storage[array[j]] = expectedArray[j] /\ array[j] \in Storage
        BY <1>1, <1>6 DEF SharingHolds, SharingTyped
    <2> QED BY <1>1, <1>3, <2>1 DEF SharingTyped
<1> QED BY <1>1, <1>3, <1>4, <1>5, <1>6, SharingGoesOn DEF SharingTyped

\* Whatever is written shows what is expected of it.
LEMMA WriteShares ==
    ASSUME SharingHolds, NEW flat \in Flats, make_unique_and_write(flat),
           DOMAIN expected' = Grid(Shape), UNCHANGED <<array, expectedArray>>,
           \A p \in Grid(Shape) : flat[linear_index(p, fortran_strides(Shape)) + 1] = expected'[p]
    PROVE  SharingHolds'
<1>1. SharingTyped /\ DOMAIN expectedArray = Keepers
    BY DEF SharingHolds
<1>2. /\ data' \in Storage /\ storage' \in [Storage -> Flats] /\ storage'[data'] = flat
      /\ \A k \in Keepers : array[k] # NoArray => storage'[array[k]] = storage[array[k]]
    BY <1>1, WriteReaches
<1>3. \A k \in Keepers : array[k] # NoArray => storage'[array[k]] = expectedArray[k]
    BY <1>2 DEF SharingHolds
<1> QED BY <1>1, <1>2, <1>3, SharingGoesOn DEF SharingTyped

LEMMA SubPutAtShares ==
    ASSUME SharingHolds, ViewLies, NEW where \in Grid(view.length), NEW value \in PixelValues,
           SubPutAt(where, value)
    PROVE  SharingHolds'
<1>1. PICK p \in Grid(Shape) : p = to_parent_index(where)
    <2>1. PointOf(view, where) \in Grid(Shape)
        BY ViewAssumption, SliceLies DEF ViewLies
    <2> QED BY <2>1, ParentIndex
<1>2. PICK n \in Nat \ {0} : n = Size(Shape)
    BY ViewAssumption, SizeIs
<1>3. PICK i \in 0..n - 1 : i = linear_index(p, fortran_strides(Shape))
    BY <1>2, ViewAssumption, GridCounts
<1>4. PICK f \in Flats : f = storage[data]
    BY DEF SharingHolds, SharingTyped
<1>5. PICK new : new = [f EXCEPT ![i + 1] = value]
    OBVIOUS
<1>6. make_unique_and_write(new) /\ expected' = [expected EXCEPT ![p] = value]
      /\ UNCHANGED <<array, expectedArray>>
    BY <1>1, <1>3, <1>4, <1>5 DEF SubPutAt
<1>7. new \in Flats
    BY <1>2, <1>4, <1>5 DEF Flats
<1>8. DOMAIN expected = Grid(Shape)
    BY DEF SharingHolds
<1>9. ASSUME NEW q \in Grid(Shape)
      PROVE  new[linear_index(q, fortran_strides(Shape)) + 1] = expected'[q]
    <2>1. PICK j \in 0..n - 1 : j = linear_index(q, fortran_strides(Shape))
        BY <1>2, ViewAssumption, GridCounts
    <2>2. f[j + 1] = expected[q]
        BY <1>4, <2>1, ShownIs
    <2>3. j = i => q = p
        <3>1. delinearize(j, Shape) = q /\ delinearize(i, Shape) = p
            BY <1>3, <2>1, ViewAssumption, GridCounts
        <3> QED BY <3>1
    <2>4. i + 1 \in 1..n /\ j + 1 \in 1..n /\ DOMAIN f = 1..n
        BY <1>2 DEF Flats
    <2>5. CASE q = p
        <3>1. j = i
            BY <1>3, <2>1, <2>5
        <3> QED BY <1>5, <1>6, <1>8, <2>1, <2>4, <2>5, <3>1
    <2>6. CASE q # p
        <3>1. j + 1 # i + 1
            BY <2>3, <2>6
        <3> QED BY <1>5, <1>6, <1>8, <2>1, <2>2, <2>4, <2>6, <3>1
    <2> QED BY <2>5, <2>6
<1> QED BY <1>6, <1>7, <1>8, <1>9, WriteShares

----------------------------------------------------------------------------
(* LatticeViews: the iterator over the view.                               *)

\* The pixels that a cursor at a position has been at.
Passed(p, position, requested) ==
    p[2] < position[2] \/ (p[2] < position[2] + requested[2] /\ p[1] < position[1])

IteratorIs ==
    /\ cursor \in [requested : Positive, position : Nat \X Nat]
    /\ cursor.position \in Grid(view.length) \/ cursor.position = view.length
    /\ visits = [p \in Grid(view.length) |->
                    IF Passed(p, cursor.position, cursor.requested) THEN 1 ELSE 0]

\* Where it starts, it has been nowhere.
LEMMA IteratorStarts ==
    ASSUME NEW requested \in Positive, view'.length \in Positive,
           cursor' = [requested |-> requested, position |-> <<0, 0>>],
           visits' = [p \in Grid(view'.length) |-> 0]
    PROVE  IteratorIs'
<1>1. PICK l \in Nat \ {0}, m \in Nat \ {0} : view'.length = <<l, m>>
    BY DEF Positive
<1>2. Grid(view'.length) = (0..l - 1) \X (0..m - 1)
    BY <1>1 DEF Grid
<1>3. PICK r \in Nat \ {0}, s \in Nat \ {0} : requested = <<r, s>>
    BY DEF Positive
<1>4. cursor'.position = <<0, 0>> /\ cursor'.requested = <<r, s>>
    BY <1>3
<1>5. ASSUME NEW p \in Grid(view'.length) PROVE ~Passed(p, <<0, 0>>, <<r, s>>)
    BY <1>2 DEF Passed
<1>6. visits' = [p \in Grid(view'.length) |->
                    IF Passed(p, cursor'.position, cursor'.requested) THEN 1 ELSE 0]
    BY <1>4, <1>5
<1>7. <<0, 0>> \in Grid(view'.length) /\ <<0, 0>> \in Nat \X Nat
    BY <1>2
<1>8. cursor' \in [requested : Positive, position : Nat \X Nat]
    BY <1>7
<1>9. cursor'.position \in Grid(view'.length)
    BY <1>4, <1>7
<1> QED BY <1>6, <1>8, <1>9 DEF IteratorIs, Passed, Grid

\* Where the cursor is, in numbers.
LEMMA CursorIs ==
    ASSUME ViewLies, IteratorIs, ~at_end
    PROVE  \E l, m, r, s \in Nat \ {0}, i, j \in Nat :
              /\ view.length = <<l, m>> /\ cursor = [requested |-> <<r, s>>, position |-> <<i, j>>]
              /\ cursor.requested = <<r, s>> /\ cursor.position = <<i, j>>
              /\ i < l /\ j < m /\ Grid(view.length) = (0..l - 1) \X (0..m - 1)
              /\ cursor_shape = <<IF r < l - i THEN r ELSE l - i, IF s < m - j THEN s ELSE m - j>>
<1>1. PICK l \in Nat \ {0}, m \in Nat \ {0} : view.length = <<l, m>>
    BY DEF ViewLies, Slicer, Positive
<1>2. PICK r \in Nat \ {0}, s \in Nat \ {0}, i \in Nat, j \in Nat :
        /\ cursor = [requested |-> <<r, s>>, position |-> <<i, j>>]
        /\ cursor.requested = <<r, s>> /\ cursor.position = <<i, j>>
    <2>1. PICK a \in Positive, b \in Nat \X Nat : cursor = [requested |-> a, position |-> b]
        BY DEF IteratorIs
    <2>2. PICK r \in Nat \ {0}, s \in Nat \ {0} : a = <<r, s>>
        BY DEF Positive
    <2>3. PICK i \in Nat, j \in Nat : b = <<i, j>>
        OBVIOUS
    <2>4. cursor.requested = a /\ cursor.position = b
        BY <2>1
    <2> QED BY <2>1, <2>2, <2>3, <2>4
<1>3. 1 \in Dim /\ 2 \in Dim
    BY DEF Dim
<1>4. i < l /\ j < m
    BY <1>1, <1>2, <1>3 DEF at_end
<1>5. Grid(view.length) = (0..l - 1) \X (0..m - 1)
    BY <1>1 DEF Grid
<1>6. cursor_shape = <<IF r < l - i THEN r ELSE l - i, IF s < m - j THEN s ELSE m - j>>
    BY <1>1, <1>2, <1>3 DEF cursor_shape, PerAxis
<1> QED BY <1>1, <1>2, <1>4, <1>5, <1>6

LEMMA IterateGoesOn ==
    ASSUME ViewLies, IteratorIs, Iterate
    PROVE  IteratorIs'
<1>1. PICK l \in Nat \ {0}, m \in Nat \ {0}, r \in Nat \ {0}, s \in Nat \ {0}, i \in Nat, j \in Nat :
        /\ view.length = <<l, m>> /\ cursor = [requested |-> <<r, s>>, position |-> <<i, j>>]
        /\ cursor.requested = <<r, s>> /\ cursor.position = <<i, j>>
        /\ i < l /\ j < m /\ Grid(view.length) = (0..l - 1) \X (0..m - 1)
        /\ cursor_shape = <<IF r < l - i THEN r ELSE l - i, IF s < m - j THEN s ELSE m - j>>
    <2>1. ~at_end
        BY DEF Iterate
    <2> QED BY <2>1, CursorIs
<1>2. PICK a \in Nat \ {0}, b \in Nat \ {0} :
        /\ cursor_shape = <<a, b>>
        /\ a = (IF r < l - i THEN r ELSE l - i) /\ b = (IF s < m - j THEN s ELSE m - j)
    <2>1. (IF r < l - i THEN r ELSE l - i) \in Nat \ {0}
          /\ (IF s < m - j THEN s ELSE m - j) \in Nat \ {0}
        BY <1>1
    <2> QED BY <1>1, <2>1
<1>3. view' = view
    BY DEF Iterate
<1>4. PICK x \in Nat, y \in Nat :
        /\ Advance = <<x, y>>
        /\ \/ i + r < l /\ x = i + r /\ y = j
           \/ ~(i + r < l) /\ j + s < m /\ x = 0 /\ y = j + s
           \/ ~(i + r < l) /\ ~(j + s < m) /\ x = l /\ y = m
    <2>1. CASE i + r < l
        <3>1. Advance = <<i + r, j>>
            BY <1>1, <2>1 DEF Advance
        <3> QED BY <2>1, <3>1
    <2>2. CASE ~(i + r < l) /\ j + s < m
        <3>1. Advance = <<0, j + s>>
            BY <1>1, <2>2 DEF Advance
        <3> QED BY <2>2, <3>1
    <2>3. CASE ~(i + r < l) /\ ~(j + s < m)
        <3>1. Advance = <<l, m>>
            BY <1>1, <2>3 DEF Advance
        <3> QED BY <2>3, <3>1
    <2> QED BY <2>1, <2>2, <2>3
<1>5. cursor' = [requested |-> <<r, s>>, position |-> <<x, y>>]
    BY <1>1, <1>4 DEF Iterate
<1>6. cursor'.requested = <<r, s>> /\ cursor'.position = <<x, y>>
    BY <1>5
<1>7. cursor' \in [requested : Positive, position : Nat \X Nat]
    BY <1>5 DEF Positive
<1>8. <<x, y>> \in Grid(view.length) \/ <<x, y>> = view.length
    BY <1>1, <1>4
<1>9. ASSUME NEW p \in Grid(view.length)
      PROVE  visits'[p] = IF Passed(p, <<x, y>>, <<r, s>>) THEN 1 ELSE 0
    <2>1. PICK g \in 0..l - 1, h \in 0..m - 1 : p = <<g, h>>
        BY <1>1
    <2>2. visits[p] = IF Passed(p, <<i, j>>, <<r, s>>) THEN 1 ELSE 0
        BY <1>1 DEF IteratorIs
    <2>3. Passed(p, <<i, j>>, <<r, s>>) <=> h < j \/ (h < j + s /\ g < i)
        BY <2>1 DEF Passed
    <2>4. Passed(p, <<x, y>>, <<r, s>>) <=> h < y \/ (h < y + s /\ g < x)
        BY <2>1 DEF Passed
    <2>5. (\A d \in Dim : p[d] - cursor.position[d] \in 0..cursor_shape[d] - 1)
          <=> g - i \in 0..a - 1 /\ h - j \in 0..b - 1
        <3>1. Dim = {1, 2}
            BY DEF Dim
        <3> QED BY <1>1, <1>2, <2>1, <3>1
    <2>6. visits'[p] = visits[p]
            + (IF \A d \in Dim : p[d] - cursor.position[d] \in 0..cursor_shape[d] - 1 THEN 1 ELSE 0)
        BY DEF Iterate
    <2>7. visits'[p] = (IF h < j \/ (h < j + s /\ g < i) THEN 1 ELSE 0)
            + (IF g - i \in 0..a - 1 /\ h - j \in 0..b - 1 THEN 1 ELSE 0)
        BY <2>2, <2>3, <2>5, <2>6
    <2>8. (IF h < j \/ (h < j + s /\ g < i) THEN 1 ELSE 0)
            + (IF g - i \in 0..a - 1 /\ h - j \in 0..b - 1 THEN 1 ELSE 0)
          = IF h < y \/ (h < y + s /\ g < x) THEN 1 ELSE 0
        <3>1. g \in Nat /\ h \in Nat /\ g < l /\ h < m
            OBVIOUS
        <3>2. g - i \in 0..a - 1 <=> i <= g /\ g < i + r
            BY <1>1, <1>2, <3>1
        <3>3. h - j \in 0..b - 1 <=> j <= h /\ h < j + s
            BY <1>1, <1>2, <3>1
        <3> QED BY <1>1, <1>4, <3>1, <3>2, <3>3
    <2> QED BY <2>4, <2>7, <2>8
<1>10. DOMAIN visits' = Grid(view.length)
       /\ visits' = [p \in Grid(view.length) |-> visits'[p]]
    BY DEF Iterate
<1>11. visits' = [p \in Grid(view'.length) |->
                    IF Passed(p, cursor'.position, cursor'.requested) THEN 1 ELSE 0]
    BY <1>3, <1>6, <1>9, <1>10
<1>12. cursor'.position \in Grid(view'.length) \/ cursor'.position = view'.length
    BY <1>3, <1>6, <1>8
<1> QED BY <1>7, <1>11, <1>12 DEF IteratorIs, Passed, Grid

\* At the end it has been everywhere.
LEMMA IteratorOnce ==
    ASSUME ViewLies, IteratorIs
    PROVE  IteratorVisitsOnce
<1>1. PICK l \in Nat \ {0}, m \in Nat \ {0} :
        view.length = <<l, m>> /\ Grid(view.length) = (0..l - 1) \X (0..m - 1)
    BY DEF ViewLies, Slicer, Positive, Grid
<1>2. DOMAIN visits = Grid(view.length)
      /\ \A p \in Grid(view.length) :
            visits[p] = IF Passed(p, cursor.position, cursor.requested) THEN 1 ELSE 0
    BY DEF IteratorIs
<1>3. \A p \in DOMAIN visits : visits[p] <= 1
    BY <1>2
<1>4. ASSUME at_end, NEW p \in DOMAIN visits PROVE visits[p] = 1
    <2>1. cursor.position = <<l, m>>
        <3>1. ~(cursor.position \in Grid(view.length))
            <4>1. SUFFICES ASSUME cursor.position \in Grid(view.length) PROVE FALSE
                OBVIOUS
            <4>2. PICK i \in 0..l - 1, j \in 0..m - 1 : cursor.position = <<i, j>>
                BY <1>1, <4>1
            <4>3. PICK d \in Dim : cursor.position[d] >= view.length[d]
                BY <1>4 DEF at_end
            <4>4. d = 1 \/ d = 2
                BY DEF Dim
            <4> QED BY <1>1, <4>2, <4>3, <4>4
        <3> QED BY <1>1, <3>1 DEF IteratorIs
    <2>2. PICK g \in 0..l - 1, h \in 0..m - 1 : p = <<g, h>>
        BY <1>1, <1>2
    <2>3. Passed(p, cursor.position, cursor.requested)
        BY <2>1, <2>2 DEF Passed
    <2> QED BY <1>2, <2>3
<1> QED BY <1>3, <1>4 DEF IteratorVisitsOnce

\* The slice of the view that the cursor is at.
CursorSlice == [start |-> cursor.position, length |-> cursor_shape, stride |-> <<1, 1>>]

LEMMA CursorSliceLies ==
    ASSUME ViewLies, IteratorIs, ~at_end
    PROVE  /\ CursorSlice \in Slicer /\ validate_slicer(CursorSlice, view.length)
           /\ CursorSlice.length = cursor_shape /\ cursor_shape \in Positive
           /\ \A q \in Grid(cursor_shape) :
                PointOf(CursorSlice, q) = PerAxis([d \in Dim |-> cursor.position[d] + q[d]])
<1>1. PICK l \in Nat \ {0}, m \in Nat \ {0}, r \in Nat \ {0}, s \in Nat \ {0}, i \in Nat, j \in Nat :
        /\ view.length = <<l, m>> /\ cursor.position = <<i, j>> /\ i < l /\ j < m
        /\ cursor_shape = <<IF r < l - i THEN r ELSE l - i, IF s < m - j THEN s ELSE m - j>>
    BY CursorIs
<1>2. PICK a \in Nat \ {0}, b \in Nat \ {0} :
        cursor_shape = <<a, b>> /\ a <= l - i /\ b <= m - j
    <2>1. PICK a : a = IF r < l - i THEN r ELSE l - i
        OBVIOUS
    <2>2. PICK b : b = IF s < m - j THEN s ELSE m - j
        OBVIOUS
    <2>3. a \in Nat \ {0} /\ a <= l - i
        BY <1>1, <2>1
    <2>4. b \in Nat \ {0} /\ b <= m - j
        BY <1>1, <2>2
    <2>5. cursor_shape = <<a, b>>
        BY <1>1, <2>1, <2>2
    <2> QED BY <2>3, <2>4, <2>5
<1>3. CursorSlice = [start |-> <<i, j>>, length |-> <<a, b>>, stride |-> <<1, 1>>]
    BY <1>1, <1>2 DEF CursorSlice
<1>4. CursorSlice.start = <<i, j>> /\ CursorSlice.length = <<a, b>> /\ CursorSlice.stride = <<1, 1>>
    BY <1>3
<1>5. CursorSlice \in Slicer /\ <<a, b>> \in Positive
    BY <1>3 DEF Slicer, Positive
<1>6. ASSUME NEW d \in Dim
      PROVE  CursorSlice.start[d] >= 0
             /\ CursorSlice.start[d] + (CursorSlice.length[d] - 1) * CursorSlice.stride[d] < view.length[d]
    <2>1. d = 1 \/ d = 2
        BY DEF Dim
    <2>2. (a - 1) * 1 = a - 1 /\ (b - 1) * 1 = b - 1
        OBVIOUS
    <2>3. CASE d = 1
        BY <1>1, <1>2, <1>4, <2>2, <2>3
    <2>4. CASE d = 2
        BY <1>1, <1>2, <1>4, <2>2, <2>4
    <2> QED BY <2>1, <2>3, <2>4
<1>7. ASSUME NEW q \in Grid(cursor_shape)
      PROVE  PointOf(CursorSlice, q) = PerAxis([d \in Dim |-> cursor.position[d] + q[d]])
    <2>1. PICK g \in 0..a - 1, h \in 0..b - 1 : q = <<g, h>>
        BY <1>2 DEF Grid
    <2>2. 1 \in Dim /\ 2 \in Dim
        BY DEF Dim
    <2>3. PerAxis([d \in Dim |-> cursor.position[d] + q[d]]) = <<i + g, j + h>>
        BY <1>1, <2>1, <2>2 DEF PerAxis
    <2>4. PointOf(CursorSlice, q) = <<i + g * 1, j + h * 1>>
        BY <1>4, <2>1 DEF PointOf
    <2>5. g * 1 = g /\ h * 1 = h
        OBVIOUS
    <2> QED BY <2>3, <2>4, <2>5
<1> QED BY <1>2, <1>4, <1>5, <1>6, <1>7 DEF validate_slicer

LEMMA WriteCursorShares ==
    ASSUME SharingHolds, ViewLies, IteratorIs, ~at_end, NEW value \in PixelValues, WriteCursor(value),
           UNCHANGED <<array, expectedArray>>
    PROVE  SharingHolds'
<1>1. PICK t \in Slicer :
        /\ t = to_parent_slicer(CursorSlice) /\ t.length = cursor_shape
        /\ validate_slicer(t, Shape)
        /\ \A q \in Grid(cursor_shape) :
              PointOf(t, q) = to_parent_index(PerAxis([d \in Dim |-> cursor.position[d] + q[d]]))
    <2>1. PICK s \in Slicer : s = CursorSlice /\ validate_slicer(s, view.length) /\ s.length = cursor_shape
        BY CursorSliceLies
    <2>2. /\ to_parent_slicer(s) \in Slicer /\ to_parent_slicer(s).length = s.length
          /\ validate_slicer(to_parent_slicer(s), Shape)
          /\ \A q \in Grid(s.length) : PointOf(to_parent_slicer(s), q) = to_parent_index(PointOf(s, q))
        BY <2>1, SliceOfView
    <2>3. \A q \in Grid(cursor_shape) :
            PointOf(CursorSlice, q) = PerAxis([d \in Dim |-> cursor.position[d] + q[d]])
        BY CursorSliceLies
    <2> QED BY <2>1, <2>2, <2>3
<1>2. PICK n \in Nat \ {0}, m \in Nat \ {0} : n = Size(Shape) /\ m = Size(cursor_shape)
    BY ViewAssumption, CursorSliceLies, SizeIs
<1>3. PICK V : V = PixelValues \cup 1..n
    OBVIOUS
<1>4. PICK f \in [1..n -> V] : f = storage[data] /\ Flats = [1..n -> V]
    BY <1>2, <1>3 DEF Flats, SharingHolds, SharingTyped
<1>5. PICK source : source = Fill(cursor_shape, value)
    OBVIOUS
<1>6. source.shape = cursor_shape /\ source.flat = [i \in 1..m |-> value]
    <2>1. source = [shape |-> cursor_shape, flat |-> [i \in 1..m |-> value]]
        BY <1>2, <1>5 DEF Fill, LatticeArray
    <2> QED BY <2>1
<1>7. source.flat \in [1..m -> V]
    BY <1>3, <1>6
<1>8. ASSUME NEW q \in Grid(cursor_shape) PROVE At(source, q) = value
    <2>1. PICK k \in 0..m - 1 : k = linear_index(q, fortran_strides(cursor_shape))
        BY <1>2, CursorSliceLies, GridCounts
    <2>2. k + 1 \in 1..m
        OBVIOUS
    <2> QED BY <1>6, <2>1, <2>2 DEF At
<1>9. PICK new : new = PutSlice(f, Shape, source, t)
    OBVIOUS
<1>10. /\ new \in [1..n -> V]
       /\ \A q \in Grid(t.length) :
            new[linear_index(PointOf(t, q), fortran_strides(Shape)) + 1] = At(source, q)
       /\ \A p \in Grid(Shape) : (\A q \in Grid(t.length) : p # PointOf(t, q)) =>
            new[linear_index(p, fortran_strides(Shape)) + 1] = f[linear_index(p, fortran_strides(Shape)) + 1]
    <2>1. Values(f, Shape, V) /\ source.shape = t.length /\ Values(source.flat, t.length, V)
        BY <1>1, <1>2, <1>4, <1>6, <1>7 DEF Values
    <2>2. Shape \in Positive /\ t \in Slicer /\ validate_slicer(t, Shape)
        BY <1>1, ViewAssumption
    <2>3. /\ Values(new, Shape, V)
          /\ \A q \in Grid(t.length) :
                new[linear_index(PointOf(t, q), fortran_strides(Shape)) + 1] = At(source, q)
          /\ \A p \in Grid(Shape) : (\A q \in Grid(t.length) : p # PointOf(t, q)) =>
                new[linear_index(p, fortran_strides(Shape)) + 1] = f[linear_index(p, fortran_strides(Shape)) + 1]
        BY <1>9, <2>1, <2>2, PutSliceIs
    <2> QED BY <1>2, <2>3 DEF Values
<1>11. make_unique_and_write(new)
    BY <1>1, <1>4, <1>5, <1>9 DEF WriteCursor, CursorSlice
<1>12. expected' = [p \in Grid(Shape) |->
          IF \E q \in Grid(cursor_shape) : p = to_parent_index(PerAxis([d \in Dim |-> cursor.position[d] + q[d]]))
          THEN value ELSE expected[p]]
    BY DEF WriteCursor
<1>13. ASSUME NEW p \in Grid(Shape)
       PROVE  new[linear_index(p, fortran_strides(Shape)) + 1] = expected'[p]
    <2>1. expected'[p] = IF \E q \in Grid(cursor_shape) : p = PointOf(t, q) THEN value ELSE expected[p]
        BY <1>1, <1>12
    <2>2. CASE \E q \in Grid(cursor_shape) : p = PointOf(t, q)
        BY <1>1, <1>8, <1>10, <2>1, <2>2
    <2>3. CASE ~(\E q \in Grid(cursor_shape) : p = PointOf(t, q))
        <3>1. f[linear_index(p, fortran_strides(Shape)) + 1] = expected[p]
            BY <1>4, ShownIs
        <3> QED BY <1>1, <1>10, <2>1, <2>3, <3>1
    <2> QED BY <2>2, <2>3
<1>14. new \in Flats /\ DOMAIN expected' = Grid(Shape)
    BY <1>4, <1>10, <1>12
<1> QED BY <1>11, <1>13, <1>14, WriteShares

----------------------------------------------------------------------------
(* LatticeViews: what the views show.                                      *)

ViewPixels == PixelValues \cup 1..Size(Shape)

\* Elements of the grid, axis by axis.
LEMMA GridIs ==
    ASSUME NEW shape \in Positive, NEW p \in Int \X Int
    PROVE  p \in Grid(shape) <=> \A d \in Dim : 0 <= p[d] /\ p[d] < shape[d]
<1>1. PICK a \in Nat \ {0}, b \in Nat \ {0} : shape = <<a, b>>
    BY DEF Positive
<1>2. PICK x \in Int, y \in Int : p = <<x, y>>
    OBVIOUS
<1>3. p \in Grid(shape) <=> x \in 0..a - 1 /\ y \in 0..b - 1
    BY <1>1, <1>2 DEF Grid
<1>4. (\A d \in Dim : 0 <= p[d] /\ p[d] < shape[d]) <=> 0 <= x /\ x < a /\ 0 <= y /\ y < b
    <2>1. Dim = {1, 2}
        BY DEF Dim
    <2> QED BY <1>1, <1>2, <2>1
<1> QED BY <1>3, <1>4

LEMMA GridInts ==
    ASSUME NEW shape \in Positive, NEW p \in Grid(shape)
    PROVE  p \in Int \X Int /\ \A d \in Dim : p[d] \in Int /\ 0 <= p[d] /\ p[d] < shape[d]
<1>1. PICK a \in Nat \ {0}, b \in Nat \ {0} : shape = <<a, b>>
    BY DEF Positive
<1>2. p \in Int \X Int
    BY <1>1 DEF Grid
<1>3. PICK x \in Int, y \in Int : p = <<x, y>>
    BY <1>2
<1>4. \A d \in Dim : p[d] \in Int
    BY <1>3 DEF Dim
<1> QED BY <1>2, <1>4, GridIs

LEMMA PointIs ==
    ASSUME NEW s \in Slicer, NEW q
    PROVE  /\ PointOf(s, q) = PerAxis([d \in Dim |-> s.start[d] + q[d] * s.stride[d]])
           /\ q \in Int \X Int => PointOf(s, q) \in Int \X Int
           /\ \A d \in Dim : PointOf(s, q)[d] = s.start[d] + q[d] * s.stride[d]
<1>1. Dim = {1, 2}
    BY DEF Dim
<1>2. PointOf(s, q) = PerAxis([d \in Dim |-> s.start[d] + q[d] * s.stride[d]])
    BY <1>1 DEF PointOf, PerAxis
<1>3. ASSUME q \in Int \X Int PROVE PointOf(s, q) \in Int \X Int
    <2>1. s.start \in Int \X Int /\ s.stride \in Positive
        BY DEF Slicer
    <2>2. PICK x \in Int, y \in Int : s.start = <<x, y>>
        BY <2>1
    <2>3. PICK d \in Nat \ {0}, e \in Nat \ {0} : s.stride = <<d, e>>
        BY <2>1 DEF Positive
    <2>4. PICK i \in Int, j \in Int : q = <<i, j>>
        BY <1>3
    <2>5. PICK u \in Int, v \in Int : u = x + i * d /\ v = y + j * e
        OBVIOUS
    <2>6. PointOf(s, q) = <<u, v>>
        BY <2>2, <2>3, <2>4, <2>5 DEF PointOf
    <2> QED BY <2>6
<1>4. ASSUME NEW d \in Dim PROVE PointOf(s, q)[d] = s.start[d] + q[d] * s.stride[d]
    <2>1. d = 1 \/ d = 2
        BY <1>1
    <2> QED BY <2>1 DEF PointOf
<1> QED BY <1>2, <1>3, <1>4

\* The lattice and the view of it.
LEMMA LatticeIs ==
    ASSUME SharingHolds
    PROVE  /\ Lattice.shape = Shape /\ Values(Lattice.flat, Shape, ViewPixels)
           /\ Lattice = LatticeArray(Shape, storage[data]) /\ Values(storage[data], Shape, ViewPixels)
           /\ \A p \in Grid(Shape) : At(Lattice, p) = expected[p]
<1>1. Lattice = LatticeArray(Shape, storage[data])
    BY DEF Lattice
<1>2. Lattice = [shape |-> Shape, flat |-> storage[data]]
    BY DEF Lattice, LatticeArray
<1>3. Values(storage[data], Shape, ViewPixels)
    BY DEF SharingHolds, SharingTyped, Flats, Values, ViewPixels
<1> QED BY <1>1, <1>2, <1>3, ShownIs

LEMMA SubGetIs ==
    ASSUME SharingHolds, ViewLies
    PROVE  /\ sub_get.shape = view.length /\ Values(sub_get.flat, view.length, ViewPixels)
           /\ \A q \in Grid(view.length) : At(sub_get, q) = expected[to_parent_index(q)]
           /\ \A q \in Grid(view.length) : to_parent_index(q) \in Grid(Shape)
<1>1. PICK f : f = storage[data] /\ Values(f, Shape, ViewPixels)
    BY LatticeIs
<1>2. PICK g : g = sub_get /\ g = GetSlice(LatticeArray(Shape, f), view)
    BY <1>1, LatticeIs DEF sub_get
<1>3. Shape \in Positive /\ view \in Slicer /\ validate_slicer(view, Shape)
    BY ViewAssumption DEF ViewLies
<1>4. /\ g.shape = view.length /\ Values(g.flat, view.length, ViewPixels)
      /\ \A q \in Grid(view.length) :
            At(g, q) = f[linear_index(PointOf(view, q), fortran_strides(Shape)) + 1]
    BY <1>1, <1>2, <1>3, GetSliceIs
<1>5. ASSUME NEW q \in Grid(view.length)
      PROVE  At(g, q) = expected[to_parent_index(q)] /\ to_parent_index(q) \in Grid(Shape)
    <2>1. PointOf(view, q) \in Grid(Shape)
        BY <1>3, SliceLies
    <2>2. f[linear_index(PointOf(view, q), fortran_strides(Shape)) + 1] = expected[PointOf(view, q)]
        BY <1>1, <2>1, ShownIs
    <2> QED BY <1>4, <2>1, <2>2, ParentIndex
<1> QED BY <1>2, <1>4, <1>5

LEMMA SubGetAtIs ==
    ASSUME SharingHolds, ViewLies, NEW p \in Grid(view.length)
    PROVE  sub_get_at(p) = expected[to_parent_index(p)]
BY SubGetIs, LatticeIs DEF sub_get_at

LEMMA SubGetSliceIs ==
    ASSUME SharingHolds, ViewLies, NEW s \in SlicesOfView
    PROVE  /\ sub_get_slice(s).shape = s.length
           /\ \A p \in Grid(s.length) :
                LET q == PerAxis([d \in Dim |-> s.start[d] + p[d] * s.stride[d]])
                IN  q \in Grid(view.length) /\ At(sub_get_slice(s), p) = expected[to_parent_index(q)]
<1>1. s \in Slicer /\ validate_slicer(s, view.length)
    BY SlicerIs DEF SlicesOfView
<1>2. view.length \in Positive /\ Shape \in Positive
    BY ViewAssumption DEF ViewLies, Slicer
<1>3. PICK t \in Slicer :
        /\ t = to_parent_slicer(s) /\ t.length = s.length /\ validate_slicer(t, Shape)
        /\ \A q \in Grid(s.length) : PointOf(t, q) = to_parent_index(PointOf(s, q))
    BY <1>1, SliceOfView
<1>4. PICK f : f = storage[data] /\ Values(f, Shape, ViewPixels)
    BY LatticeIs
<1>5. PICK g : g = sub_get_slice(s) /\ g = GetSlice(LatticeArray(Shape, f), t)
    BY <1>3, <1>4, LatticeIs DEF sub_get_slice
<1>6. /\ g.shape = t.length
      /\ \A q \in Grid(t.length) :
            At(g, q) = f[linear_index(PointOf(t, q), fortran_strides(Shape)) + 1]
    BY <1>2, <1>3, <1>4, <1>5, GetSliceIs
<1>7. ASSUME NEW p \in Grid(s.length)
      PROVE  /\ PointOf(s, p) \in Grid(view.length)
             /\ At(g, p) = expected[to_parent_index(PointOf(s, p))]
    <2>1. PointOf(s, p) \in Grid(view.length)
        BY <1>1, <1>2, SliceLies
    <2>2. to_parent_index(PointOf(s, p)) \in Grid(Shape)
        BY <2>1, SubGetIs
    <2> QED BY <1>3, <1>4, <1>6, <2>1, <2>2, ShownIs
<1>8. \A p : PerAxis([d \in Dim |-> s.start[d] + p[d] * s.stride[d]]) = PointOf(s, p)
    BY <1>1, PointIs
<1> QED BY <1>3, <1>5, <1>6, <1>7, <1>8

----------------------------------------------------------------------------
(* LatticeViews: the view, the lattice and the view one after another.     *)

\* An index moved along an axis.
LEMMA MovedIs ==
    ASSUME NEW p \in Int \X Int, NEW axis \in Dim, NEW x \in Int
    PROVE  /\ [p EXCEPT ![axis] = x] \in Int \X Int /\ [p EXCEPT ![axis] = x][axis] = x
           /\ \A d \in Dim \ {axis} : [p EXCEPT ![axis] = x][d] = p[d]
<1>1. PICK a \in Int, b \in Int : p = <<a, b>>
    OBVIOUS
<1>2. axis = 1 \/ axis = 2
    BY DEF Dim
<1>3. CASE axis = 1
    <2>1. [p EXCEPT ![axis] = x] = <<x, b>>
        BY <1>1, <1>3
    <2> QED BY <1>1, <1>3, <2>1 DEF Dim
<1>4. CASE axis = 2
    <2>1. [p EXCEPT ![axis] = x] = <<a, x>>
        BY <1>1, <1>4
    <2> QED BY <1>1, <1>4, <2>1 DEF Dim
<1> QED BY <1>2, <1>3, <1>4

LEMMA SameIndex ==
    ASSUME NEW p \in Int \X Int, NEW q \in Int \X Int, \A d \in Dim : p[d] = q[d]
    PROVE  p = q
<1>1. PICK a \in Int, b \in Int : p = <<a, b>>
    OBVIOUS
<1>2. PICK x \in Int, y \in Int : q = <<x, y>>
    OBVIOUS
<1>3. 1 \in Dim /\ 2 \in Dim
    BY DEF Dim
<1> QED BY <1>1, <1>2, <1>3

LEMMA AxisIs ==
    ASSUME NEW shape \in Positive, NEW axis \in Dim
    PROVE  shape[axis] \in Nat \ {0}
<1>1. PICK a \in Nat \ {0}, b \in Nat \ {0} : shape = <<a, b>>
    BY DEF Positive
<1> QED BY <1>1 DEF Dim

\* What the parts are.
PartShape(i) == IF i = 2 THEN Shape ELSE view.length
PartShows(i, q) == IF i = 2 THEN expected[q] ELSE expected[to_parent_index(q)]

LEMMA PartsAre ==
    ASSUME SharingHolds, ViewLies
    PROVE  /\ DOMAIN Parts = 1..3
           /\ \A i \in 1..3 : /\ Parts[i].shape = PartShape(i) /\ PartShape(i) \in Positive
                              /\ Values(Parts[i].flat, PartShape(i), ViewPixels)
                              /\ \A q \in Grid(PartShape(i)) : At(Parts[i], q) = PartShows(i, q)
<1>1. PICK g : g = sub_get
    OBVIOUS
<1>2. PICK w : w = Lattice
    OBVIOUS
<1>3. Parts = <<g, w, g>>
    BY <1>1, <1>2 DEF Parts
<1>4. DOMAIN Parts = 1..3 /\ Parts[1] = g /\ Parts[2] = w /\ Parts[3] = g
    BY <1>3
<1>5. /\ g.shape = view.length /\ Values(g.flat, view.length, ViewPixels)
      /\ \A q \in Grid(view.length) : At(g, q) = expected[to_parent_index(q)]
    BY <1>1, SubGetIs
<1>6. /\ w.shape = Shape /\ Values(w.flat, Shape, ViewPixels)
      /\ \A q \in Grid(Shape) : At(w, q) = expected[q]
    BY <1>2, LatticeIs
<1>7. view.length \in Positive /\ Shape \in Positive
    BY ViewAssumption DEF ViewLies, Slicer
<1>8. ASSUME NEW i \in 1..3
      PROVE  /\ Parts[i].shape = PartShape(i) /\ PartShape(i) \in Positive
             /\ Values(Parts[i].flat, PartShape(i), ViewPixels)
             /\ \A q \in Grid(PartShape(i)) : At(Parts[i], q) = PartShows(i, q)
    <2>1. CASE i = 2
        BY <1>4, <1>6, <1>7, <2>1 DEF PartShape, PartShows
    <2>2. CASE i = 1 \/ i = 3
        BY <1>4, <1>5, <1>7, <2>2 DEF PartShape, PartShows
    <2> QED BY <2>1, <2>2
<1> QED BY <1>4, <1>8

\* Where each part starts, and which of them a position is in.
PartStart(axis, i) ==
    IF i = 1 THEN 0 ELSE IF i = 2 THEN view.length[axis] ELSE view.length[axis] + Shape[axis]

PartAt(axis, x) ==
    IF x < view.length[axis] THEN 1 ELSE IF x < view.length[axis] + Shape[axis] THEN 2 ELSE 3

LEMMA StartsAre ==
    ASSUME SharingHolds, ViewLies, NEW axis \in Dim
    PROVE  /\ view.length[axis] \in Nat \ {0} /\ Shape[axis] \in Nat \ {0}
           /\ \A i \in 1..3 : /\ offsets(axis)[i] = PartStart(axis, i) /\ PartStart(axis, i) \in Nat
                              /\ PartShape(i)[axis] \in Nat \ {0}
<1>1. view.length[axis] \in Nat \ {0} /\ Shape[axis] \in Nat \ {0}
    BY ViewAssumption, AxisIs DEF ViewLies, Slicer
<1>2. PICK o : o = offsets(axis)
    OBVIOUS
<1>3. o = [i \in 1..3 |-> IF i = 1 THEN 0 ELSE IF i = 2 THEN view.length[axis]
                          ELSE view.length[axis] + Shape[axis]]
    <2>1. DOMAIN Parts = 1..3 /\ Parts[1].shape = view.length /\ Parts[2].shape = Shape
        <3>1. 1 \in 1..3 /\ 2 \in 1..3 /\ PartShape(1) = view.length /\ PartShape(2) = Shape
            BY DEF PartShape
        <3> QED BY <3>1, PartsAre
    <2> QED BY <1>2, <2>1 DEF offsets
<1> QED BY <1>1, <1>2, <1>3 DEF PartStart, PartShape

LEMMA LocateIs ==
    ASSUME SharingHolds, ViewLies, NEW axis \in Dim, NEW x \in Int, 0 <= x,
           x < 2 * view.length[axis] + Shape[axis]
    PROVE  LET i == PartAt(axis, x) IN
           /\ i \in 1..3 /\ locate(axis, x) = [part |-> i, pos |-> x - PartStart(axis, i)]
           /\ 0 <= x - PartStart(axis, i) /\ x - PartStart(axis, i) < PartShape(i)[axis]
           /\ \A j \in 1..3 : PartStart(axis, j) <= x /\ x < PartStart(axis, j) + PartShape(j)[axis] => j = i
<1>1. PICK n \in Nat \ {0}, z \in Nat \ {0} : n = view.length[axis] /\ z = Shape[axis]
    BY StartsAre
<1>2. PICK i \in 1..3 : i = PartAt(axis, x)
    BY DEF PartAt
<1>3. \A j \in 1..3 : PartShape(j)[axis] = IF j = 2 THEN z ELSE n
    BY <1>1 DEF PartShape
<1>4. \A j \in 1..3 : PartStart(axis, j) = IF j = 1 THEN 0 ELSE IF j = 2 THEN n ELSE n + z
    BY <1>1 DEF PartStart
<1>5. i = IF x < n THEN 1 ELSE IF x < n + z THEN 2 ELSE 3
    BY <1>1, <1>2 DEF PartAt
<1>6. x < 2 * n + z
    BY <1>1
<1>7. /\ 0 <= x - PartStart(axis, i) /\ x - PartStart(axis, i) < PartShape(i)[axis]
      /\ \A j \in 1..3 : PartStart(axis, j) <= x /\ x < PartStart(axis, j) + PartShape(j)[axis] => j = i
    BY <1>3, <1>4, <1>5, <1>6
<1>8. {j \in DOMAIN Parts : x < offsets(axis)[j] + Parts[j].shape[axis]}
        = {j \in 1..3 : x < PartStart(axis, j) + PartShape(j)[axis]}
    BY PartsAre, StartsAre
<1>9. PICK T : T = {j \in 1..3 : x < PartStart(axis, j) + PartShape(j)[axis]}
    OBVIOUS
<1>10. i \in T /\ \A j \in T : i <= j
    <2>1. \A j \in 1..3 : j \in T <=> x < PartStart(axis, j) + PartShape(j)[axis]
        BY <1>9
    <2>2. T \subseteq 1..3
        BY <1>9
    <2> QED BY <1>3, <1>4, <1>5, <1>6, <2>1, <2>2
<1>11. Min(T) = i
    <2>1. ASSUME NEW k \in T, \A j \in T : k <= j PROVE k = i
        <3>1. k \in 1..3
            BY <1>9
        <3>2. k <= i /\ i <= k
            BY <1>10, <2>1
        <3> QED BY <3>1, <3>2
    <2> QED BY <1>10, <2>1, Zenon DEF Min
<1>12. locate(axis, x) = [part |-> i, pos |-> x - PartStart(axis, i)]
    <2>1. Min({j \in DOMAIN Parts : x < offsets(axis)[j] + Parts[j].shape[axis]}) = i
        BY <1>8, <1>9, <1>11
    <2>2. offsets(axis)[i] = PartStart(axis, i)
        BY StartsAre
    <2> QED BY <2>1, <2>2 DEF locate
<1> QED BY <1>2, <1>7, <1>12

\* Where an element of the whole is in its part.
LocalOf(axis, p) == [p EXCEPT ![axis] = p[axis] - PartStart(axis, PartAt(axis, p[axis]))]

PartSlice(axis, i) ==
    [start |-> [<<0, 0>> EXCEPT ![axis] = PartStart(axis, i)], length |-> PartShape(i),
     stride |-> <<1, 1>>]

LEMMA ConcatShapeIs ==
    ASSUME SharingHolds, ViewLies, NEW axis \in Dim
    PROVE  /\ ConcatShape(axis) \in Positive
           /\ ConcatShape(axis)[axis] = 2 * view.length[axis] + Shape[axis]
           /\ \A d \in Dim \ {axis} : ConcatShape(axis)[d] = Shape[d]
<1>1. PICK n \in Nat \ {0}, x \in Nat \ {0} : n = view.length[axis] /\ x = 2 * n + Shape[axis]
    <2>1. view.length[axis] \in Nat \ {0} /\ Shape[axis] \in Nat \ {0}
        BY StartsAre
    <2>2. 2 * view.length[axis] + Shape[axis] \in Nat \ {0}
        BY <2>1
    <2> QED BY <2>1, <2>2
<1>2. PICK a \in Nat \ {0}, b \in Nat \ {0} : Shape = <<a, b>>
    BY ViewAssumption DEF Positive
<1>3. ConcatShape(axis) = [Shape EXCEPT ![axis] = x]
    BY <1>1 DEF ConcatShape
<1>4. Shape \in Int \X Int
    BY <1>2
<1>5. /\ ConcatShape(axis)[axis] = x
      /\ \A d \in Dim \ {axis} : ConcatShape(axis)[d] = Shape[d]
    BY <1>3, <1>4, MovedIs
<1>6. ConcatShape(axis) \in Positive
    <2>1. axis = 1 \/ axis = 2
        BY DEF Dim
    <2>2. CASE axis = 1
        <3>1. ConcatShape(axis) = <<x, b>>
            BY <1>2, <1>3, <2>2
        <3> QED BY <3>1 DEF Positive
    <2>3. CASE axis = 2
        <3>1. ConcatShape(axis) = <<a, x>>
            BY <1>2, <1>3, <2>3
        <3> QED BY <3>1 DEF Positive
    <2> QED BY <2>1, <2>2, <2>3
<1> QED BY <1>1, <1>5, <1>6

LEMMA PartShapeIs ==
    ASSUME SharingHolds, ViewLies, NEW axis \in Dim, CanConcat(axis), NEW i \in 1..3
    PROVE  PartShape(i) \in Positive /\ \A d \in Dim \ {axis} : PartShape(i)[d] = Shape[d]
BY PartsAre DEF PartShape, CanConcat

LEMMA PartSliceLies ==
    ASSUME SharingHolds, ViewLies, NEW axis \in Dim, CanConcat(axis), NEW i \in 1..3
    PROVE  /\ PartSlice(axis, i) \in Slicer /\ PartSlice(axis, i).length = PartShape(i)
           /\ validate_slicer(PartSlice(axis, i), ConcatShape(axis))
           /\ \A q \in Int \X Int :
                /\ PointOf(PartSlice(axis, i), q) \in Int \X Int
                /\ PointOf(PartSlice(axis, i), q)[axis] = PartStart(axis, i) + q[axis]
                /\ \A d \in Dim \ {axis} : PointOf(PartSlice(axis, i), q)[d] = q[d]
<1>1. PICK k \in Nat : k = PartStart(axis, i)
    BY StartsAre
<1>2. PICK o \in Int \X Int : o = [<<0, 0>> EXCEPT ![axis] = k] /\ o[axis] = k
                              /\ \A d \in Dim \ {axis} : o[d] = 0
    <2>1. PICK z \in Int \X Int : z = <<0, 0>> /\ \A d \in Dim : z[d] = 0
        <3>1. <<0, 0>> \in Int \X Int /\ <<0, 0>>[1] = 0 /\ <<0, 0>>[2] = 0
            OBVIOUS
        <3>2. \A d \in Dim : <<0, 0>>[d] = 0
            BY <3>1 DEF Dim
        <3> QED BY <3>1, <3>2
    <2>2. /\ [z EXCEPT ![axis] = k] \in Int \X Int /\ [z EXCEPT ![axis] = k][axis] = k
          /\ \A d \in Dim \ {axis} : [z EXCEPT ![axis] = k][d] = z[d]
        BY MovedIs
    <2> QED BY <2>1, <2>2
<1>3. PICK s : s = PartSlice(axis, i) /\ s = [start |-> o, length |-> PartShape(i), stride |-> <<1, 1>>]
    BY <1>1, <1>2 DEF PartSlice
<1>4. s \in Slicer /\ s.start = o /\ s.length = PartShape(i) /\ s.stride = <<1, 1>>
    <2>1. PartShape(i) \in Positive /\ <<1, 1>> \in Positive
        BY PartShapeIs DEF Positive
    <2> QED BY <1>3, <2>1 DEF Slicer
<1>5. \A d \in Dim : s.stride[d] = 1
    BY <1>4 DEF Dim
<1>6. ASSUME NEW d \in Dim
      PROVE  s.start[d] >= 0 /\ s.start[d] + (s.length[d] - 1) * s.stride[d] < ConcatShape(axis)[d]
    <2>1. PICK h \in Nat \ {0} : h = PartShape(i)[d]
        BY PartShapeIs, AxisIs
    <2>2. (h - 1) * 1 = h - 1
        OBVIOUS
    <2>3. CASE d = axis
        <3>1. PICK n \in Nat \ {0}, z \in Nat \ {0} : n = view.length[axis] /\ z = Shape[axis]
            BY StartsAre
        <3>2. ConcatShape(axis)[axis] = 2 * n + z
            BY <3>1, ConcatShapeIs
        <3>3. k + h <= 2 * n + z
            BY <1>1, <2>1, <2>3, <3>1 DEF PartStart, PartShape
        <3> QED BY <1>2, <1>4, <1>5, <2>1, <2>2, <2>3, <3>2, <3>3
    <2>4. CASE d # axis
        <3>1. h = Shape[d] /\ ConcatShape(axis)[d] = Shape[d]
            BY <2>1, <2>4, PartShapeIs, ConcatShapeIs
        <3>2. s.start[d] = 0 /\ s.length[d] = h /\ s.stride[d] = 1
            BY <1>2, <1>4, <1>5, <2>1, <2>4
        <3> QED BY <2>2, <3>1, <3>2
    <2> QED BY <2>3, <2>4
<1>7. ASSUME NEW q \in Int \X Int
      PROVE  /\ PointOf(s, q) \in Int \X Int /\ PointOf(s, q)[axis] = k + q[axis]
             /\ \A d \in Dim \ {axis} : PointOf(s, q)[d] = q[d]
    <2>1. \A d \in Dim : q[d] \in Int
        <3>1. PICK x \in Int, y \in Int : q = <<x, y>>
            OBVIOUS
        <3> QED BY <3>1 DEF Dim
    <2>2. PointOf(s, q) \in Int \X Int /\ \A d \in Dim : PointOf(s, q)[d] = o[d] + q[d] * 1
        BY <1>4, <1>5, PointIs
    <2>3. \A d \in Dim : q[d] * 1 = q[d] /\ 0 + q[d] = q[d]
        BY <2>1
    <2> QED BY <1>2, <2>2, <2>3
<1>8. validate_slicer(s, ConcatShape(axis))
    BY <1>6 DEF validate_slicer
<1>9. s = PartSlice(axis, i)
    BY <1>3
<1> QED BY <1>1, <1>4, <1>7, <1>8, <1>9

\* Every element of the whole is in one part, and in one place of it.
LEMMA ConcatLies ==
    ASSUME SharingHolds, ViewLies, NEW axis \in Dim, CanConcat(axis), NEW p \in Grid(ConcatShape(axis))
    PROVE  LET i == PartAt(axis, p[axis])
               q == LocalOf(axis, p)
           IN  /\ i \in 1..3 /\ q \in Grid(PartShape(i)) /\ PointOf(PartSlice(axis, i), q) = p
               /\ \A j \in 1..3 : \A r \in Grid(PartShape(j)) : p = PointOf(PartSlice(axis, j), r) => j = i
<1>1. ConcatShape(axis) \in Positive
    BY ConcatShapeIs
<1>2. p \in Int \X Int /\ \A d \in Dim : p[d] \in Int /\ 0 <= p[d] /\ p[d] < ConcatShape(axis)[d]
    BY <1>1, GridInts
<1>3. PICK x \in Int : x = p[axis] /\ 0 <= x /\ x < 2 * view.length[axis] + Shape[axis]
    BY <1>2, ConcatShapeIs
<1>4. PICK i \in 1..3 : i = PartAt(axis, x)
    BY DEF PartAt
<1>5. PICK k \in Nat : k = PartStart(axis, i)
    BY StartsAre
<1>6. /\ 0 <= x - k /\ x - k < PartShape(i)[axis]
      /\ \A j \in 1..3 : PartStart(axis, j) <= x /\ x < PartStart(axis, j) + PartShape(j)[axis] => j = i
    BY <1>3, <1>4, <1>5, LocateIs
<1>7. PICK q \in Int \X Int : /\ q = LocalOf(axis, p) /\ q[axis] = x - k
                              /\ \A d \in Dim \ {axis} : q[d] = p[d]
    <2>1. LocalOf(axis, p) = [p EXCEPT ![axis] = x - k]
        BY <1>3, <1>4, <1>5 DEF LocalOf
    <2>2. x - k \in Int
        OBVIOUS
    <2> QED BY <1>2, <2>1, <2>2, MovedIs
<1>8. q \in Grid(PartShape(i))
    <2>1. ASSUME NEW d \in Dim PROVE 0 <= q[d] /\ q[d] < PartShape(i)[d]
        <3>1. CASE d = axis
            BY <1>6, <1>7, <3>1
        <3>2. CASE d # axis
            <4>1. PartShape(i)[d] = Shape[d] /\ ConcatShape(axis)[d] = Shape[d]
                BY <3>2, PartShapeIs, ConcatShapeIs
            <4> QED BY <1>2, <1>7, <3>2, <4>1
        <3> QED BY <3>1, <3>2
    <2>2. PartShape(i) \in Positive
        BY PartShapeIs
    <2> QED BY <2>1, <2>2, GridIs
<1>9. PointOf(PartSlice(axis, i), q) = p
    <2>1. /\ PointOf(PartSlice(axis, i), q) \in Int \X Int
          /\ PointOf(PartSlice(axis, i), q)[axis] = k + q[axis]
          /\ \A d \in Dim \ {axis} : PointOf(PartSlice(axis, i), q)[d] = q[d]
        BY <1>5, PartSliceLies
    <2>2. k + (x - k) = x
        OBVIOUS
    <2>3. \A d \in Dim : PointOf(PartSlice(axis, i), q)[d] = p[d]
        BY <1>3, <1>7, <2>1, <2>2
    <2> QED BY <1>2, <2>1, <2>3, SameIndex
<1>10. ASSUME NEW j \in 1..3, NEW r \in Grid(PartShape(j)), p = PointOf(PartSlice(axis, j), r)
       PROVE  j = i
    <2>1. r \in Int \X Int /\ r[axis] \in Int /\ 0 <= r[axis] /\ r[axis] < PartShape(j)[axis]
        BY PartShapeIs, GridInts
    <2>2. x = PartStart(axis, j) + r[axis]
        BY <1>3, <1>10, <2>1, PartSliceLies
    <2>3. PartStart(axis, j) \in Nat /\ PartShape(j)[axis] \in Nat
        BY StartsAre
    <2>4. PartStart(axis, j) <= x /\ x < PartStart(axis, j) + PartShape(j)[axis]
        BY <2>1, <2>2, <2>3
    <2> QED BY <1>6, <2>4
<1> QED BY <1>3, <1>4, <1>7, <1>8, <1>9, <1>10

\* What the whole shows.
WholeShows(axis, p) == PartShows(PartAt(axis, p[axis]), LocalOf(axis, p))

LEMMA ConcatGetAtIs ==
    ASSUME SharingHolds, ViewLies, NEW axis \in Dim, CanConcat(axis), NEW p \in Grid(ConcatShape(axis))
    PROVE  concat_get_at(axis, p) = WholeShows(axis, p)
<1>1. PICK x \in Int : x = p[axis] /\ 0 <= x /\ x < 2 * view.length[axis] + Shape[axis]
    BY ConcatShapeIs, GridInts
<1>2. PICK i \in 1..3 : i = PartAt(axis, x)
    BY DEF PartAt
<1>3. PICK q \in Grid(PartShape(i)) : q = LocalOf(axis, p)
    BY <1>1, <1>2, ConcatLies
<1>4. PICK k \in Int : k = x - PartStart(axis, i)
    BY StartsAre
<1>5. PICK found : found = locate(axis, x) /\ found = [part |-> i, pos |-> k]
    BY <1>1, <1>2, <1>4, LocateIs
<1>6. found.part = i /\ found.pos = k
    BY <1>5
<1>7. [p EXCEPT ![axis] = k] = q
    BY <1>1, <1>2, <1>3, <1>4 DEF LocalOf
<1>8. concat_get_at(axis, p) = At(Parts[i], q)
    BY <1>1, <1>5, <1>6, <1>7 DEF concat_get_at
<1>9. At(Parts[i], q) = PartShows(i, q)
    BY PartsAre
<1> QED BY <1>1, <1>2, <1>3, <1>8, <1>9 DEF WholeShows

\* The whole with one part put into it.
PartIsIn(axis, i, f, g) ==
    /\ Values(g, ConcatShape(axis), ViewPixels \cup {0})
    /\ \A p \in Grid(ConcatShape(axis)) :
        g[linear_index(p, fortran_strides(ConcatShape(axis))) + 1] =
            IF PartAt(axis, p[axis]) = i THEN WholeShows(axis, p)
            ELSE f[linear_index(p, fortran_strides(ConcatShape(axis))) + 1]

LEMMA PutPart ==
    ASSUME SharingHolds, ViewLies, NEW axis \in Dim, CanConcat(axis), NEW i \in 1..3,
           NEW f, Values(f, ConcatShape(axis), ViewPixels \cup {0}),
           NEW g, g = PutSlice(f, ConcatShape(axis), Parts[i], PartSlice(axis, i))
    PROVE  PartIsIn(axis, i, f, g)
<1>1. PICK W : W = ViewPixels \cup {0}
    OBVIOUS
<1>2. PICK source : source = Parts[i] /\ source.shape = PartShape(i) /\ Values(source.flat, PartShape(i), W)
                    /\ \A q \in Grid(PartShape(i)) : At(source, q) = PartShows(i, q)
    BY <1>1, PartsAre DEF Values
<1>3. PICK s \in Slicer : s = PartSlice(axis, i) /\ s.length = PartShape(i)
                          /\ validate_slicer(s, ConcatShape(axis))
    BY PartSliceLies
<1>4. PICK shape \in Positive : shape = ConcatShape(axis)
    BY ConcatShapeIs
<1>5. Values(f, shape, W) /\ g = PutSlice(f, shape, source, s) /\ source.shape = s.length
      /\ Values(source.flat, s.length, W) /\ validate_slicer(s, shape)
    BY <1>1, <1>2, <1>3, <1>4
<1>6. /\ Values(g, shape, W)
      /\ \A q \in Grid(s.length) :
            g[linear_index(PointOf(s, q), fortran_strides(shape)) + 1] = At(source, q)
      /\ \A p \in Grid(shape) : (\A q \in Grid(s.length) : p # PointOf(s, q)) =>
            g[linear_index(p, fortran_strides(shape)) + 1] = f[linear_index(p, fortran_strides(shape)) + 1]
    BY <1>5, PutSliceIs
<1>7. ASSUME NEW p \in Grid(shape)
      PROVE  g[linear_index(p, fortran_strides(shape)) + 1] =
                IF PartAt(axis, p[axis]) = i THEN WholeShows(axis, p)
                ELSE f[linear_index(p, fortran_strides(shape)) + 1]
    <2>1. PICK j, q :
            /\ j \in 1..3 /\ q \in Grid(PartShape(j))
            /\ j = PartAt(axis, p[axis]) /\ q = LocalOf(axis, p) /\ PointOf(PartSlice(axis, j), q) = p
            /\ \A r \in Grid(PartShape(i)) : p = PointOf(PartSlice(axis, i), r) => i = j
        BY <1>4, ConcatLies
    <2>2. CASE j = i
        <3>1. PointOf(s, q) = p /\ q \in Grid(s.length)
            BY <1>3, <2>1, <2>2
        <3>2. At(source, q) = PartShows(i, q)
            BY <1>2, <2>1, <2>2
        <3>3. WholeShows(axis, p) = PartShows(i, q)
            BY <2>1, <2>2 DEF WholeShows
        <3> QED BY <1>6, <2>1, <2>2, <3>1, <3>2, <3>3
    <2>3. CASE j # i
        <3>1. \A q1 \in Grid(s.length) : p # PointOf(s, q1)
            BY <1>3, <2>1, <2>3
        <3> QED BY <1>6, <2>1, <2>3, <3>1
    <2> QED BY <2>2, <2>3
<1> QED BY <1>1, <1>4, <1>6, <1>7 DEF PartIsIn

LEMMA ConcatGetIs ==
    ASSUME SharingHolds, ViewLies, NEW axis \in Dim, CanConcat(axis)
    PROVE  /\ concat_get(axis).shape = ConcatShape(axis)
           /\ \A p \in Grid(ConcatShape(axis)) : At(concat_get(axis), p) = WholeShows(axis, p)
<1>1. PICK shape \in Positive : shape = ConcatShape(axis)
    BY ConcatShapeIs
<1>2. PICK f : f = [i \in 1..Size(shape) |-> 0]
    OBVIOUS
<1>3. ASSUME NEW i \in 1..3
      PROVE  PartSlice(axis, i) = [start |-> [<<0, 0>> EXCEPT ![axis] = offsets(axis)[i]],
                                   length |-> Parts[i].shape, stride |-> <<1, 1>>]
    <2>1. offsets(axis)[i] = PartStart(axis, i) /\ Parts[i].shape = PartShape(i)
        BY StartsAre, PartsAre
    <2> QED BY <2>1 DEF PartSlice
<1>4. PICK g : g = PutSlice(f, shape, Parts[1], PartSlice(axis, 1))
    OBVIOUS
<1>5. PICK h : h = PutSlice(g, shape, Parts[2], PartSlice(axis, 2))
    OBVIOUS
<1>6. PICK k : k = PutSlice(h, shape, Parts[3], PartSlice(axis, 3))
    OBVIOUS
<1>7. concat_get(axis) = LatticeArray(shape, k)
    <2>1. PartSlice(axis, 1) = [start |-> [<<0, 0>> EXCEPT ![axis] = offsets(axis)[1]],
                                length |-> Parts[1].shape, stride |-> <<1, 1>>]
        BY <1>3
    <2>2. PartSlice(axis, 2) = [start |-> [<<0, 0>> EXCEPT ![axis] = offsets(axis)[2]],
                                length |-> Parts[2].shape, stride |-> <<1, 1>>]
        BY <1>3
    <2>3. PartSlice(axis, 3) = [start |-> [<<0, 0>> EXCEPT ![axis] = offsets(axis)[3]],
                                length |-> Parts[3].shape, stride |-> <<1, 1>>]
        BY <1>3
    <2> QED BY <1>1, <1>2, <1>4, <1>5, <1>6, <2>1, <2>2, <2>3, Zenon DEF concat_get
<1>8. Values(f, shape, ViewPixels \cup {0})
    BY <1>2 DEF Values
<1>16. 1 \in 1..3 /\ 2 \in 1..3 /\ 3 \in 1..3
    OBVIOUS
<1>9. PartIsIn(axis, 1, f, g)
    BY <1>1, <1>4, <1>8, <1>16, PutPart
<1>10. PartIsIn(axis, 2, g, h)
    <2>1. Values(g, shape, ViewPixels \cup {0})
        BY <1>1, <1>9 DEF PartIsIn
    <2> QED BY <1>1, <1>5, <1>16, <2>1, PutPart
<1>11. PartIsIn(axis, 3, h, k)
    <2>1. Values(h, shape, ViewPixels \cup {0})
        BY <1>1, <1>10 DEF PartIsIn
    <2> QED BY <1>1, <1>6, <1>16, <2>1, PutPart
<1>12. \A p : PartAt(axis, p[axis]) = 1 \/ PartAt(axis, p[axis]) = 2 \/ PartAt(axis, p[axis]) = 3
    BY DEF PartAt
<1>13. \A p \in Grid(shape) : k[linear_index(p, fortran_strides(shape)) + 1] = WholeShows(axis, p)
    BY <1>1, <1>9, <1>10, <1>11, <1>12 DEF PartIsIn
<1>14. concat_get(axis) = [shape |-> shape, flat |-> k]
    BY <1>7 DEF LatticeArray
<1>15. concat_get(axis).shape = shape /\ concat_get(axis).flat = k
    BY <1>14
<1> QED BY <1>1, <1>13, <1>15 DEF At

\* The pixels of the view, as the program wrote them, and of the whole.
OfView == [p \in Grid(view.length) |-> expected[to_parent_index(p)]]

OfConcat(axis) ==
    [p \in Grid(ConcatShape(axis)) |->
        LET n == view.length[axis]
            q == [p EXCEPT ![axis] = @ - n]
            r == [p EXCEPT ![axis] = @ - n - Shape[axis]]
        IN  IF p[axis] < n THEN OfView[p]
            ELSE IF q[axis] < Shape[axis] THEN expected[q] ELSE OfView[r]]

LEMMA OfConcatIs ==
    ASSUME SharingHolds, ViewLies, NEW axis \in Dim, CanConcat(axis), NEW p \in Grid(ConcatShape(axis))
    PROVE  OfConcat(axis)[p] = WholeShows(axis, p)
<1>1. PICK x \in Int : x = p[axis]
    BY ConcatShapeIs, GridInts
<1>2. p \in Int \X Int
    BY ConcatShapeIs, GridInts
<1>3. PICK n \in Nat \ {0}, z \in Nat \ {0} : n = view.length[axis] /\ z = Shape[axis]
    BY StartsAre
<1>4. OfConcat(axis)[p] = IF x < n THEN OfView[p]
                          ELSE IF [p EXCEPT ![axis] = x - n][axis] < z THEN expected[[p EXCEPT ![axis] = x - n]]
                          ELSE OfView[[p EXCEPT ![axis] = x - n - z]]
    BY <1>1, <1>3 DEF OfConcat
<1>5. PICK i, q :
        i \in 1..3 /\ i = PartAt(axis, p[axis]) /\ q = LocalOf(axis, p) /\ q \in Grid(PartShape(i))
    BY ConcatLies
<1>6. WholeShows(axis, p) = PartShows(i, q)
    BY <1>5 DEF WholeShows
<1>7. q = [p EXCEPT ![axis] = x - PartStart(axis, i)]
    BY <1>1, <1>5 DEF LocalOf
<1>8. [p EXCEPT ![axis] = x - n][axis] = x - n
    BY <1>2, MovedIs
<1>9. CASE x < n
    <2>1. i = 1 /\ PartStart(axis, i) = 0
        BY <1>1, <1>3, <1>5, <1>9 DEF PartAt, PartStart
    <2>2. q = p
        <3>1. x - 0 = x
            OBVIOUS
        <3>2. q = [p EXCEPT ![axis] = x]
            BY <1>7, <2>1, <3>1
        <3>3. q \in Int \X Int /\ \A d \in Dim : q[d] = p[d]
            BY <1>1, <1>2, <3>2, MovedIs
        <3> QED BY <1>2, <3>3, SameIndex
    <2>3. q \in Grid(view.length)
        BY <1>5, <2>1 DEF PartShape
    <2>4. OfView[p] = expected[to_parent_index(p)]
        BY <2>2, <2>3 DEF OfView
    <2> QED BY <1>4, <1>6, <1>9, <2>1, <2>2, <2>4 DEF PartShows
<1>10. CASE ~(x < n) /\ x - n < z
    <2>1. i = 2 /\ PartStart(axis, i) = n
        BY <1>1, <1>3, <1>5, <1>10 DEF PartAt, PartStart
    <2>2. q = [p EXCEPT ![axis] = x - n]
        BY <1>7, <2>1
    <2> QED BY <1>4, <1>6, <1>8, <1>10, <2>1, <2>2 DEF PartShows
<1>11. CASE ~(x < n) /\ ~(x - n < z)
    <2>1. i = 3 /\ PartStart(axis, i) = n + z
        BY <1>1, <1>3, <1>5, <1>11 DEF PartAt, PartStart
    <2>2. q = [p EXCEPT ![axis] = x - n - z]
        <3>1. x - (n + z) = x - n - z
            OBVIOUS
        <3> QED BY <1>7, <2>1, <3>1
    <2>3. q \in Grid(view.length)
        BY <1>5, <2>1 DEF PartShape
    <2>4. OfView[q] = expected[to_parent_index(q)]
        BY <2>3 DEF OfView
    <2> QED BY <1>4, <1>6, <1>8, <1>11, <2>1, <2>2, <2>4 DEF PartShows
<1> QED BY <1>9, <1>10, <1>11

----------------------------------------------------------------------------
(* LatticeViews: the bins.                                                 *)

\* The bins of one axis.
LEMMA BinAxis ==
    ASSUME NEW z \in Nat \ {0}, NEW f \in Nat \ {0}
    PROVE  /\ (z + f - 1) \div f \in Nat \ {0}
           /\ \A o \in 0..((z + f - 1) \div f) - 1 : o * f \in Nat /\ o * f < z
           /\ \A x \in 0..z - 1 : x \div f \in 0..((z + f - 1) \div f) - 1
<1>1. z + f - 1 \in Nat
    OBVIOUS
<1>2. PICK r \in Nat, e \in 0..(f - 1) : r = (z + f - 1) \div f /\ z + f - 1 = r * f + e
    BY <1>1, Divided
<1>3. PICK m \in Nat : m = r * f /\ z + f - 1 = m + e
    BY <1>2, Products
<1>4. z <= m /\ m <= z + f - 1
    BY <1>3
<1>5. r # 0
    <2>1. 0 * f = 0
        OBVIOUS
    <2> QED BY <1>3, <1>4, <2>1
<1>6. ASSUME NEW o \in 0..r - 1 PROVE o * f \in Nat /\ o * f < z
    <2>1. o \in Nat /\ o < r
        OBVIOUS
    <2>2. o * f \in Nat /\ o * f + f <= m
        BY <1>3, <2>1, Products
    <2> QED BY <1>4, <2>2
<1>7. ASSUME NEW x \in 0..z - 1 PROVE x \div f \in 0..r - 1
    <2>1. x \in Nat /\ x < z
        OBVIOUS
    <2>2. PICK q \in Nat, k \in 0..(f - 1) : q = x \div f /\ x = q * f + k
        BY <2>1, Divided
    <2>3. q * f \in Nat /\ (r <= q => m <= q * f)
        BY <1>3, Products
    <2>4. q < r
        BY <1>4, <2>1, <2>2, <2>3
    <2> QED BY <2>2, <2>4
<1> QED BY <1>2, <1>5, <1>6, <1>7

LEMMA RebinShapeIs ==
    ASSUME NEW f \in Positive
    PROVE  /\ RebinShape(f) = <<(Shape[1] + f[1] - 1) \div f[1], (Shape[2] + f[2] - 1) \div f[2]>>
           /\ Grid(RebinShape(f)) = (0..((Shape[1] + f[1] - 1) \div f[1]) - 1)
                                     \X (0..((Shape[2] + f[2] - 1) \div f[2]) - 1)
<1>1. 1 \in Dim /\ 2 \in Dim
    BY DEF Dim
<1> QED BY <1>1 DEF RebinShape, PerAxis, Grid

\* The bin at a position: where it starts, how large it is, and its elements.
BinLies(f, o, a, b, w, h) ==
    /\ a = o[1] * f[1] /\ b = o[2] * f[2] /\ w <= f[1] /\ h <= f[2]
    /\ w = f[1] \/ (w = Shape[1] - a /\ w < f[1])
    /\ h = f[2] \/ (h = Shape[2] - b /\ h < f[2])
    /\ o[1] \in Nat /\ o[2] \in Nat
    /\ DOMAIN Bin(f, o) = 1..Size(<<w, h>>)
    /\ \A k \in 1..Size(<<w, h>>) :
          Bin(f, o)[k] = <<a + delinearize(k - 1, <<w, h>>)[1], b + delinearize(k - 1, <<w, h>>)[2]>>

LEMMA BinIs ==
    ASSUME NEW f \in Positive, NEW o \in Grid(RebinShape(f))
    PROVE  \E a, b \in Nat, w, h \in Nat \ {0} : BinLies(f, o, a, b, w, h)
<1>1. PICK x \in Nat \ {0}, y \in Nat \ {0} : x = Shape[1] /\ y = Shape[2]
    BY ViewAssumption DEF Positive
<1>2. PICK c \in Nat \ {0}, d \in Nat \ {0} : c = f[1] /\ d = f[2]
    BY DEF Positive
<1>3. PICK i \in 0..((x + c - 1) \div c) - 1, j \in 0..((y + d - 1) \div d) - 1 : o = <<i, j>>
    BY <1>1, <1>2, RebinShapeIs
<1>4. i * c \in Nat /\ i * c < x /\ j * d \in Nat /\ j * d < y
    BY BinAxis
<1>5. PICK a \in Nat, b \in Nat : a = i * c /\ b = j * d /\ a < x /\ b < y
    BY <1>4
<1>6. PICK w \in Nat \ {0}, h \in Nat \ {0} :
        /\ w = (IF a + c < x THEN a + c ELSE x) - a
        /\ h = (IF b + d < y THEN b + d ELSE y) - b
    <2>1. (IF a + c < x THEN a + c ELSE x) - a \in Nat \ {0}
          /\ (IF b + d < y THEN b + d ELSE y) - b \in Nat \ {0}
        BY <1>5
    <2> QED BY <2>1
<1>7. 1 \in Dim /\ 2 \in Dim
    BY DEF Dim
<1> DEFINE lo == PerAxis([e \in Dim |-> o[e] * f[e]])
           extent == PerAxis([e \in Dim |->
                        (IF lo[e] + f[e] < Shape[e] THEN lo[e] + f[e] ELSE Shape[e]) - lo[e]])
<1>8. lo[1] = a /\ lo[2] = b
    BY <1>2, <1>3, <1>5, <1>7 DEF PerAxis
<1> HIDE DEF lo
<1>9. extent = <<w, h>>
    BY <1>1, <1>2, <1>6, <1>7, <1>8 DEF PerAxis
<1> HIDE DEF extent
<1>10. Bin(f, o) = [k \in 1..Size(extent) |->
            PerAxis([e \in Dim |-> lo[e] + delinearize(k - 1, extent)[e]])]
    BY Zenon DEF Bin, lo, extent
<1>11. PICK n : n = Size(<<w, h>>)
    OBVIOUS
<1>12. PICK D : D = [k \in 1..n |-> delinearize(k - 1, <<w, h>>)]
    OBVIOUS
<1>13. Bin(f, o) = [k \in 1..n |->
            PerAxis([e \in Dim |-> lo[e] + delinearize(k - 1, <<w, h>>)[e]])]
    BY <1>9, <1>10, <1>11
<1>14. ASSUME NEW k \in 1..n
       PROVE  Bin(f, o)[k] = <<a + delinearize(k - 1, <<w, h>>)[1], b + delinearize(k - 1, <<w, h>>)[2]>>
    <2>1. PICK v : v = delinearize(k - 1, <<w, h>>)
        OBVIOUS
    <2>2. Bin(f, o)[k] = PerAxis([e \in Dim |-> lo[e] + v[e]])
        BY <1>13, <2>1
    <2>3. PerAxis([e \in Dim |-> lo[e] + v[e]]) = <<a + v[1], b + v[2]>>
        BY <1>7, <1>8 DEF PerAxis
    <2> QED BY <2>1, <2>2, <2>3
<1>15. DOMAIN Bin(f, o) = 1..n
    BY <1>13
<1>16. /\ a = o[1] * f[1] /\ b = o[2] * f[2] /\ w <= f[1] /\ h <= f[2]
       /\ w = f[1] \/ (w = Shape[1] - a /\ w < f[1])
       /\ h = f[2] \/ (h = Shape[2] - b /\ h < f[2])
       /\ o[1] \in Nat /\ o[2] \in Nat
    <2>1. o[1] = i /\ o[2] = j /\ i \in Nat /\ j \in Nat
        BY <1>3
    <2>2. w <= c /\ h <= d /\ (w = c \/ (w = x - a /\ w < c)) /\ (h = d \/ (h = y - b /\ h < d))
        <3>1. w <= c /\ (w = c \/ (w = x - a /\ w < c))
            BY <1>5, <1>6
        <3>2. h <= d /\ (h = d \/ (h = y - b /\ h < d))
            BY <1>5, <1>6
        <3> QED BY <3>1, <3>2
    <2> QED BY <1>1, <1>2, <1>5, <2>1, <2>2
<1>17. BinLies(f, o, a, b, w, h)
    BY <1>11, <1>14, <1>15, <1>16 DEF BinLies
<1> QED BY <1>17

\* Every pixel is in one bin, and once in it.
LEMMA InOneBin ==
    ASSUME NEW f \in Positive, NEW p \in Grid(Shape)
    PROVE  Cardinality({c \in Grid(RebinShape(f)) \X (1..Size(f)) :
                            c[2] \in DOMAIN Bin(f, c[1]) /\ Bin(f, c[1])[c[2]] = p}) = 1
<1>1. PICK x \in Nat \ {0}, y \in Nat \ {0} : x = Shape[1] /\ y = Shape[2]
    BY ViewAssumption DEF Positive
<1>2. PICK c \in Nat \ {0}, d \in Nat \ {0} : c = f[1] /\ d = f[2] /\ Size(f) = d * c
    BY SizeIs DEF Positive
<1>3. PICK u \in 0..x - 1, v \in 0..y - 1 : p = <<u, v>>
    BY <1>1 DEF Grid
<1>4. PICK i \in Nat, g \in 0..(c - 1) : i = u \div c /\ u = i * c + g
    <2>1. u \in Nat
        OBVIOUS
    <2> QED BY <2>1, Divided
<1>5. PICK j \in Nat, e \in 0..(d - 1) : j = v \div d /\ v = j * d + e
    <2>1. v \in Nat
        OBVIOUS
    <2> QED BY <2>1, Divided
<1>6. PICK o \in Grid(RebinShape(f)) : o = <<i, j>>
    <2>1. i \in 0..((x + c - 1) \div c) - 1 /\ j \in 0..((y + d - 1) \div d) - 1
        BY <1>4, <1>5, BinAxis
    <2> QED BY <1>1, <1>2, <2>1, RebinShapeIs
<1>7. PICK a \in Nat, b \in Nat, w \in Nat \ {0}, h \in Nat \ {0} : BinLies(f, o, a, b, w, h)
    BY BinIs
<1>16. o[1] = i /\ o[2] = j
    BY <1>6
<1>15. /\ a = i * c /\ b = j * d /\ w <= c /\ h <= d
       /\ w = c \/ (w = x - a /\ w < c)
       /\ h = d \/ (h = y - b /\ h < d)
       /\ DOMAIN Bin(f, o) = 1..Size(<<w, h>>)
       /\ \A k \in 1..Size(<<w, h>>) :
              Bin(f, o)[k] = <<a + delinearize(k - 1, <<w, h>>)[1], b + delinearize(k - 1, <<w, h>>)[2]>>
    BY <1>1, <1>2, <1>7, <1>16 DEF BinLies
<1>8. PICK extent \in Positive : extent = <<w, h>>
    BY DEF Positive
<1>9. PICK n \in Nat \ {0} : n = Size(extent) /\ n <= Size(f)
    <2>1. Size(extent) \in Nat \ {0} /\ Size(extent) = h * w
        BY <1>8, SizeIs
    <2>2. h * w <= d * w /\ d * w = w * d /\ w * d <= c * d /\ c * d = d * c
        <3>1. h <= d /\ w <= c
            BY <1>15
        <3>2. h * w <= d * w /\ w * d <= c * d
            BY <3>1, Products
        <3> QED BY <3>2
    <2>3. h * w \in Nat /\ d * w \in Nat /\ d * c \in Nat
        BY Products
    <2> QED BY <1>2, <2>1, <2>2, <2>3
<1>10. <<g, e>> \in Grid(extent)
    <2>1. u = a + g /\ v = b + e /\ u < x /\ v < y
        BY <1>4, <1>5, <1>15
    <2>2. g \in 0..w - 1 /\ e \in 0..h - 1
        BY <1>15, <2>1
    <2> QED BY <1>8, <2>2 DEF Grid
<1>11. PICK k \in 0..n - 1 : k = linear_index(<<g, e>>, fortran_strides(extent))
                             /\ delinearize(k, extent) = <<g, e>>
    BY <1>9, <1>10, GridCounts
<1>12. k + 1 \in DOMAIN Bin(f, o) /\ Bin(f, o)[k + 1] = p /\ k + 1 \in 1..Size(f)
    <2>1. k + 1 \in 1..n /\ (k + 1) - 1 = k /\ k + 1 \in 1..Size(f)
        <3>1. Size(f) \in Nat
            BY <1>2
        <3> QED BY <1>9, <3>1
    <2>2. Bin(f, o)[k + 1] = <<a + g, b + e>>
        <3>1. Bin(f, o)[k + 1] = <<a + delinearize(k, extent)[1], b + delinearize(k, extent)[2]>>
            BY <1>15, <1>8, <1>9, <2>1
        <3>2. delinearize(k, extent)[1] = g /\ delinearize(k, extent)[2] = e
            BY <1>11
        <3> QED BY <3>1, <3>2
    <2>3. a + g = u /\ b + e = v
        BY <1>4, <1>5, <1>15
    <2> QED BY <1>3, <1>15, <1>8, <1>9, <2>1, <2>2, <2>3
<1>13. ASSUME NEW q \in Grid(RebinShape(f)), NEW m, m \in DOMAIN Bin(f, q), Bin(f, q)[m] = p
       PROVE  q = o /\ m = k + 1
    <2>14. PICK a1 \in Nat, b1 \in Nat, w1 \in Nat \ {0}, h1 \in Nat \ {0} : BinLies(f, q, a1, b1, w1, h1)
        BY BinIs
    <2>1. /\ a1 = q[1] * c /\ b1 = q[2] * d /\ w1 <= c /\ h1 <= d
          /\ q[1] \in Nat /\ q[2] \in Nat
          /\ DOMAIN Bin(f, q) = 1..Size(<<w1, h1>>)
          /\ \A l \in 1..Size(<<w1, h1>>) :
                Bin(f, q)[l] = <<a1 + delinearize(l - 1, <<w1, h1>>)[1], b1 + delinearize(l - 1, <<w1, h1>>)[2]>>
        BY <1>2, <2>14 DEF BinLies
    <2>2. PICK extent1 \in Positive : extent1 = <<w1, h1>>
        BY DEF Positive
    <2>3. PICK n1 \in Nat \ {0} : n1 = Size(extent1)
        BY SizeIs
    <2>4. m \in 1..n1 /\ m - 1 \in 0..n1 - 1
        <3>1. DOMAIN Bin(f, q) = 1..n1
            BY ONLY <2>1, <2>2, <2>3
        <3>2. m \in 1..n1
            BY ONLY <1>13, <3>1
        <3> QED BY <2>3, <3>2
    <2>5. PICK g1 \in 0..w1 - 1, e1 \in 0..h1 - 1 : delinearize(m - 1, extent1) = <<g1, e1>>
        <3>1. delinearize(m - 1, extent1) \in Grid(extent1)
            BY <2>3, <2>4, GridCounts
        <3>2. Grid(extent1) = (0..w1 - 1) \X (0..h1 - 1)
            BY <2>2 DEF Grid
        <3> QED BY <3>1, <3>2
    <2>6. u = a1 + g1 /\ v = b1 + e1
        <3>1. delinearize(m - 1, extent1)[1] = g1 /\ delinearize(m - 1, extent1)[2] = e1
            BY <2>5
        <3>2. Bin(f, q)[m] = <<a1 + g1, b1 + e1>>
            BY <2>1, <2>2, <2>3, <2>4, <3>1
        <3>3. PICK s, t : s = a1 + g1 /\ t = b1 + e1
            OBVIOUS
        <3>4. <<s, t>> = <<u, v>>
            BY <1>3, <1>13, <3>2, <3>3
        <3>5. s = u /\ t = v
            BY <3>4
        <3> QED BY <3>3, <3>5
    <2>7. q[1] = i /\ g1 = g
        <3>4. PICK s \in Nat : s = q[1] /\ a1 = s * c
            BY <2>1
        <3>5. g1 \in 0..(c - 1)
            BY <2>1
        <3>1. s = q[1] /\ g1 \in 0..(c - 1) /\ u = s * c + g1
            BY <2>6, <3>4, <3>5
        <3>2. (s * c + g1) \div c = s /\ (s * c + g1) % c = g1
            BY <3>1, DividedOnce
        <3>3. (i * c + g) \div c = i /\ (i * c + g) % c = g
            BY DividedOnce
        <3> QED BY <1>4, <3>1, <3>2, <3>3
    <2>8. q[2] = j /\ e1 = e
        <3>4. PICK s \in Nat : s = q[2] /\ b1 = s * d
            BY <2>1
        <3>5. e1 \in 0..(d - 1)
            BY <2>1
        <3>1. s = q[2] /\ e1 \in 0..(d - 1) /\ v = s * d + e1
            BY <2>6, <3>4, <3>5
        <3>2. (s * d + e1) \div d = s /\ (s * d + e1) % d = e1
            BY <3>1, DividedOnce
        <3>3. (j * d + e) \div d = j /\ (j * d + e) % d = e
            BY DividedOnce
        <3> QED BY <1>5, <3>1, <3>2, <3>3
    <2>9. q = o
        <3>1. \E s, t : q = <<s, t>>
            BY RebinShapeIs
        <3> QED BY <1>6, <2>7, <2>8, <3>1
    <2>10. n1 = n /\ \A l \in 1..n : Bin(f, o)[l] = <<a + delinearize(l - 1, extent)[1], b + delinearize(l - 1, extent)[2]>>
        <3>1. 1..n1 = 1..n
            BY <1>15, <1>8, <1>9, <2>1, <2>2, <2>3, <2>9
        <3>2. n1 \in 1..n1 /\ n \in 1..n
            OBVIOUS
        <3>3. n1 = n
            BY <3>1, <3>2
        <3>4. \A l \in 1..n : Bin(f, o)[l] = <<a + delinearize(l - 1, extent)[1], b + delinearize(l - 1, extent)[2]>>
            BY <1>15, <1>8, <1>9
        <3> QED BY <3>3, <3>4
    <2>11. delinearize(m - 1, extent) = <<g, e>>
        <3>1. m \in 1..n /\ m - 1 \in 0..n - 1
            BY <2>4, <2>10
        <3>2. PICK s \in Nat, t \in Nat : delinearize(m - 1, extent) = <<s, t>>
            <4>1. delinearize(m - 1, extent) \in Grid(extent)
                BY <1>9, <3>1, GridCounts
            <4>2. Grid(extent) = (0..w - 1) \X (0..h - 1)
                BY <1>8 DEF Grid
            <4> QED BY <4>1, <4>2
        <3>3. delinearize(m - 1, extent)[1] = s /\ delinearize(m - 1, extent)[2] = t
            BY <3>2
        <3>4. Bin(f, o)[m] = <<a + s, b + t>>
            BY <2>10, <3>1, <3>3
        <3>5. PICK z, r : z = a + s /\ r = b + t
            OBVIOUS
        <3>6. <<z, r>> = <<u, v>>
            BY <1>3, <1>13, <2>9, <3>4, <3>5
        <3>7. z = u /\ r = v
            BY <3>6
        <3>8. u = a + g /\ v = b + e
            BY <1>4, <1>5, <1>15
        <3>9. s = g /\ t = e
            BY <3>5, <3>7, <3>8
        <3> QED BY <3>2, <3>9
    <2>12. m - 1 = k
        <3>1. m - 1 \in 0..n - 1
            BY <2>4, <2>10
        <3>2. linear_index(delinearize(m - 1, extent), fortran_strides(extent)) = m - 1
            BY <1>9, <3>1, GridCounts
        <3> QED BY <1>11, <2>11, <3>2
    <2>13. m = k + 1
        BY <2>4, <2>12
    <2> QED BY <2>9, <2>13
<1>14. {r \in Grid(RebinShape(f)) \X (1..Size(f)) :
            r[2] \in DOMAIN Bin(f, r[1]) /\ Bin(f, r[1])[r[2]] = p} = {<<o, k + 1>>}
    <2>1. ASSUME NEW r \in Grid(RebinShape(f)) \X (1..Size(f)),
                 r[2] \in DOMAIN Bin(f, r[1]), Bin(f, r[1])[r[2]] = p
          PROVE  r = <<o, k + 1>>
        <3>1. PICK q \in Grid(RebinShape(f)), m \in 1..Size(f) : r = <<q, m>>
            OBVIOUS
        <3>2. r[1] = q /\ r[2] = m
            BY <3>1
        <3>3. q = o /\ m = k + 1
            BY <1>13, <2>1, <3>2
        <3> QED BY <3>1, <3>3
    <2>2. PICK r \in Grid(RebinShape(f)) \X (1..Size(f)) : r = <<o, k + 1>> /\ r[1] = o /\ r[2] = k + 1
        <3>1. PICK m \in 1..Size(f) : m = k + 1
            BY <1>12
        <3>2. <<o, m>> \in Grid(RebinShape(f)) \X (1..Size(f)) /\ <<o, m>>[1] = o /\ <<o, m>>[2] = m
            OBVIOUS
        <3> QED BY <3>1, <3>2
    <2>3. r[2] \in DOMAIN Bin(f, r[1]) /\ Bin(f, r[1])[r[2]] = p
        BY <1>12, <2>2
    <2> QED BY <2>1, <2>2, <2>3
<1> QED BY <1>14, FS_Singleton

----------------------------------------------------------------------------
(* LatticeViews: every view shows what was written.                        *)

LEMMA SlicesShow ==
    ASSUME SharingHolds, ViewLies, NEW s \in SlicesOfView
    PROVE  Shows(sub_get_slice(s), [p \in Grid(s.length) |->
                OfView[PerAxis([d \in Dim |-> s.start[d] + p[d] * s.stride[d]])]])
<1>1. PICK F : F = [p \in Grid(s.length) |->
                OfView[PerAxis([d \in Dim |-> s.start[d] + p[d] * s.stride[d]])]]
    OBVIOUS
<1>2. PICK g : g = sub_get_slice(s) /\ g.shape = s.length
    BY SubGetSliceIs
<1>3. ASSUME NEW p \in Grid(s.length) PROVE At(g, p) = F[p]
    <2>1. PICK q \in Grid(view.length) :
            /\ q = PerAxis([d \in Dim |-> s.start[d] + p[d] * s.stride[d]])
            /\ At(g, p) = expected[to_parent_index(q)]
        BY <1>2, SubGetSliceIs
    <2>2. F[p] = OfView[q]
        BY <1>1, <2>1
    <2> QED BY <2>1, <2>2 DEF OfView
<1>4. Shows(g, F)
    BY <1>2, <1>3 DEF Shows
<1> QED BY <1>1, <1>2, <1>4

LEMMA ViewsShow ==
    ASSUME SharingHolds, ViewLies
    PROVE  ViewsShowTheirParent
<1>1. Shows(sub_get, OfView)
    BY SubGetIs DEF Shows, OfView
<1>2. \A p \in Grid(view.length) : sub_get_at(p) = OfView[p]
    BY SubGetAtIs DEF OfView
<1>3. \A s \in SlicesOfView :
        Shows(sub_get_slice(s), [p \in Grid(s.length) |->
            OfView[PerAxis([d \in Dim |-> s.start[d] + p[d] * s.stride[d]])]])
    BY SlicesShow
<1>4. ASSUME NEW axis \in Dim, CanConcat(axis)
      PROVE  /\ Shows(concat_get(axis), OfConcat(axis))
             /\ \A p \in Grid(ConcatShape(axis)) : concat_get_at(axis, p) = OfConcat(axis)[p]
    <2>1. \A p \in Grid(ConcatShape(axis)) : OfConcat(axis)[p] = WholeShows(axis, p)
        BY <1>4, OfConcatIs
    <2>2. \A p \in Grid(ConcatShape(axis)) : concat_get_at(axis, p) = WholeShows(axis, p)
        BY <1>4, ConcatGetAtIs
    <2>3. /\ concat_get(axis).shape = ConcatShape(axis)
          /\ \A p \in Grid(ConcatShape(axis)) : At(concat_get(axis), p) = WholeShows(axis, p)
        BY <1>4, ConcatGetIs
    <2> QED BY <2>1, <2>2, <2>3 DEF Shows
<1>5. \A f \in Factors : \A p \in Grid(Shape) :
        Cardinality({b \in Grid(RebinShape(f)) \X (1..Size(f)) :
            b[2] \in DOMAIN Bin(f, b[1]) /\ Bin(f, b[1])[b[2]] = p}) = 1
    <2>1. Factors \subseteq Positive
        BY ViewAssumption
    <2> TAKE f \in Factors
    <2>2. f \in Positive
        BY <2>1
    <2> QED BY <2>2, InOneBin
<1>6. \A axis \in Dim : CanConcat(axis) =>
        /\ Shows(concat_get(axis), OfConcat(axis))
        /\ \A p \in Grid(ConcatShape(axis)) : concat_get_at(axis, p) = OfConcat(axis)[p]
    BY <1>4
<1> QED BY <1>1, <1>2, <1>3, <1>5, <1>6, Zenon DEF ViewsShowTheirParent, OfView, OfConcat

----------------------------------------------------------------------------
(* LatticeViews: the invariant.                                            *)

ViewsHold ==
    /\ SharingHolds /\ ViewLies /\ IteratorIs
    /\ view \in Slicers \cup {Full(Shape)}
    /\ written \in 0..MaxWrites

LEMMA ViewsInit == ViewInit => ViewsHold
<1> SUFFICES ASSUME ViewInit PROVE ViewsHold
    OBVIOUS
<1>1. /\ storage = [id \in Storage |-> Unwritten] /\ data = 1
      /\ array = [k \in Keepers |-> NoArray] /\ view = Full(Shape)
      /\ cursor = [requested |-> Shape, position |-> <<0, 0>>]
      /\ expected = [p \in Grid(Shape) |-> Unwritten[linear_index(p, fortran_strides(Shape)) + 1]]
      /\ written = 0 /\ expectedArray = [k \in Keepers |-> Unwritten]
      /\ visits = [p \in Grid(Shape) |-> 0]
    BY DEF ViewInit
<1>2. data \in Storage
    <2>1. Cardinality(Keepers) \in Nat
        BY ViewAssumption, FS_CardinalityType
    <2> QED BY <1>1, <2>1 DEF Storage
<1>3. SharingTyped /\ storage[data] = Unwritten
    BY <1>1, <1>2, UnwrittenIs DEF SharingTyped
<1>4. SharingHolds
    <2>1. Lattice = [shape |-> Shape, flat |-> Unwritten]
        BY <1>3 DEF Lattice, LatticeArray
    <2>2. Lattice.shape = Shape /\ Lattice.flat = Unwritten
        BY <2>1
    <2>3. \A p \in Grid(Shape) : At(Lattice, p) = expected[p]
        BY <1>1, <2>2 DEF At
    <2>4. Shows(Lattice, expected)
        BY <2>2, <2>3 DEF Shows
    <2>5. DOMAIN expected = Grid(Shape) /\ DOMAIN expectedArray = Keepers
        BY <1>1
    <2>6. \A k \in Keepers : array[k] = NoArray
        BY <1>1
    <2> QED BY <1>3, <2>4, <2>5, <2>6 DEF SharingHolds
<1>5. ViewLies
    BY <1>1, FullIs DEF ViewLies
<1>6. IteratorIs
    <2>1. PICK a \in Nat \ {0}, b \in Nat \ {0} : Shape = <<a, b>>
        BY ViewAssumption DEF Positive
    <2>2. Grid(Shape) = (0..a - 1) \X (0..b - 1)
        BY <2>1 DEF Grid
    <2>3. view.length = Shape
        BY <1>1 DEF Full
    <2>4. cursor.requested = Shape /\ cursor.position = <<0, 0>>
        BY <1>1
    <2>5. cursor \in [requested : Positive, position : Nat \X Nat]
        BY <1>1, ViewAssumption
    <2>6. ASSUME NEW p \in Grid(Shape) PROVE ~Passed(p, <<0, 0>>, Shape)
        BY <2>1, <2>2 DEF Passed
    <2>7. visits = [p \in Grid(view.length) |->
                    IF Passed(p, cursor.position, cursor.requested) THEN 1 ELSE 0]
        BY <1>1, <2>3, <2>4, <2>6
    <2>8. cursor.position \in Grid(view.length)
        BY <2>2, <2>3, <2>4
    <2> QED BY <2>5, <2>7, <2>8 DEF IteratorIs
<1>7. written \in 0..MaxWrites
    BY <1>1, ViewAssumption
<1> QED BY <1>1, <1>4, <1>5, <1>6, <1>7 DEF ViewsHold

LEMMA IteratorStays ==
    ASSUME IteratorIs, UNCHANGED <<view, cursor, visits>>
    PROVE  IteratorIs'
BY DEF IteratorIs, Passed, Grid

LEMMA ViewStays ==
    ASSUME ViewLies, view' = view
    PROVE  ViewLies'
BY DEF ViewLies, validate_slicer

LEMMA SharingStays ==
    ASSUME SharingHolds, UNCHANGED <<storage, data, array, expected, expectedArray>>
    PROVE  SharingHolds'
<1>1. SharingTyped /\ DOMAIN expected = Grid(Shape) /\ DOMAIN expectedArray = Keepers
      /\ \A k \in Keepers : array[k] # NoArray => storage[array[k]] = expectedArray[k]
    BY DEF SharingHolds
<1> QED BY <1>1, ShownIs, SharingGoesOn DEF SharingTyped

LEMMA ViewsStep ==
    ASSUME ViewsHold, [ViewNext]_viewVars
    PROVE  ViewsHold'
<1>1. /\ SharingHolds /\ ViewLies /\ IteratorIs
      /\ view \in Slicers \cup {Full(Shape)} /\ written \in 0..MaxWrites
    BY DEF ViewsHold
<1>2. ASSUME SharingHolds', UNCHANGED <<view, cursor, visits>>, written' \in 0..MaxWrites
      PROVE  ViewsHold'
    BY <1>1, <1>2, IteratorStays, ViewStays DEF ViewsHold
<1>3. CanWrite => written' \in 0..MaxWrites
    BY <1>1, ViewAssumption DEF CanWrite
<1>4. ASSUME NEW k \in Keepers, KeepArray(k) PROVE ViewsHold'
    BY <1>1, <1>2, <1>4, KeepArrayShares DEF KeepArray
<1>5. ASSUME NEW k \in Keepers, DropArray(k) PROVE ViewsHold'
    BY <1>1, <1>2, <1>5, DropArrayShares DEF DropArray
<1>6. ASSUME NEW k \in Keepers, PutArray(k) PROVE ViewsHold'
    <2>1. UNCHANGED <<view, cursor, visits>> /\ CanWrite
        BY <1>6 DEF PutArray
    <2> QED BY <1>1, <1>2, <1>3, <1>6, <2>1, PutArrayShares
<1>7. ASSUME NEW where \in Grid(view.length), NEW value \in PixelValues, SubPutAt(where, value)
      PROVE  ViewsHold'
    <2>1. UNCHANGED <<view, cursor, visits>> /\ CanWrite
        BY <1>7 DEF SubPutAt
    <2> QED BY <1>1, <1>2, <1>3, <1>7, <2>1, SubPutAtShares
<1>8. ASSUME NEW slicer \in Slicers, NEW requested \in CursorShapes, MakeView(slicer, requested)
      PROVE  ViewsHold'
    <2>1. slicer \in Slicer /\ requested \in Positive
        BY SlicerIs, ViewAssumption
    <2>2. /\ validate_slicer(slicer, Shape) /\ view' = slicer
          /\ cursor' = [requested |-> requested, position |-> <<0, 0>>]
          /\ visits' = [p \in Grid(slicer.length) |-> 0]
          /\ UNCHANGED <<storage, data, array, expected, expectedArray, written>>
        BY <1>8 DEF MakeView
    <2>3. slicer.length \in Positive
        BY <2>1 DEF Slicer
    <2>4. IteratorIs'
        BY <2>1, <2>2, <2>3, IteratorStarts
    <2>5. ViewLies'
        BY <2>1, <2>2 DEF ViewLies, validate_slicer
    <2> QED BY <1>1, <2>2, <2>4, <2>5, SharingStays DEF ViewsHold
<1>9. ASSUME Iterate PROVE ViewsHold'
    <2>1. ~at_end /\ view' = view /\ UNCHANGED <<array, expectedArray>>
        BY <1>9 DEF Iterate
    <2>2. SharingHolds' /\ written' \in 0..MaxWrites
        <3>1. CASE \E value \in PixelValues : WriteCursor(value)
            <4>1. PICK value \in PixelValues : WriteCursor(value)
                BY <3>1
            <4>2. CanWrite
                BY <4>1 DEF WriteCursor
            <4> QED BY <1>1, <1>3, <2>1, <4>1, <4>2, WriteCursorShares
        <3>2. CASE UNCHANGED <<storage, data, expected, written>>
            BY <1>1, <2>1, <3>2, SharingStays
        <3> QED BY <1>9, <3>1, <3>2 DEF Iterate
    <2> QED BY <1>1, <1>9, <2>1, <2>2, IterateGoesOn, ViewStays DEF ViewsHold
<1>10. ASSUME ResetIterator PROVE ViewsHold'
    <2>1. /\ cursor' = [cursor EXCEPT !.position = <<0, 0>>] /\ visits' = [p \in Grid(view.length) |-> 0]
          /\ UNCHANGED <<storage, data, array, view, expected, expectedArray, written>>
        BY <1>10 DEF ResetIterator
    <2>2. PICK requested \in Positive, position \in Nat \X Nat :
            cursor = [requested |-> requested, position |-> position]
        BY <1>1 DEF IteratorIs
    <2>3. cursor' = [requested |-> requested, position |-> <<0, 0>>]
        BY <2>1, <2>2
    <2>4. view'.length \in Positive /\ visits' = [p \in Grid(view'.length) |-> 0]
        BY <1>1, <2>1 DEF ViewLies, Slicer
    <2>5. IteratorIs'
        BY <2>3, <2>4, IteratorStarts
    <2> QED BY <1>1, <2>1, <2>5, ViewStays, SharingStays DEF ViewsHold
<1>11. CASE UNCHANGED viewVars
    BY <1>1, <1>2, <1>11, SharingStays DEF viewVars
<1> QED BY <1>4, <1>5, <1>6, <1>7, <1>8, <1>9, <1>10, <1>11 DEF ViewNext

LEMMA ViewsHoldOn == ViewSpec => []ViewsHold
BY ViewsInit, ViewsStep, PTL DEF ViewSpec

LEMMA ViewsHoldTyped ==
    ASSUME ViewsHold
    PROVE  ViewTypeOK
<1>1. SharingTyped /\ DOMAIN expected = Grid(Shape) /\ DOMAIN expectedArray = Keepers
    BY DEF ViewsHold, SharingHolds
<1>2. DOMAIN visits = Grid(view.length)
    BY DEF ViewsHold, IteratorIs
<1> QED BY <1>1, <1>2 DEF ViewsHold, ViewTypeOK, SharingTyped, Flats

LEMMA ViewsHoldValues ==
    ASSUME ViewsHold
    PROVE  LatticesAreValues /\ IteratorVisitsOnce
<1>1. SharingHolds /\ ViewLies /\ IteratorIs
    BY DEF ViewsHold
<1>2. LatticesAreValues
    BY <1>1, ViewsShow DEF LatticesAreValues, SharingHolds
<1> QED BY <1>1, <1>2, IteratorOnce

\* The types of the arrays, of the view and of the iterator.
THEOREM ArraysTypesCorrect == ViewSpec => []ViewTypeOK
BY ViewsHoldOn, ViewsHoldTyped, PTL

\* Whatever storage the lattice and the arrays a program keeps share, the arrays
\* stay what they were, the lattice and every view of it show what was written
\* last, and an iterator has been everywhere once.
THEOREM LatticesAreAlwaysValues == ViewSpec => [](LatticesAreValues /\ IteratorVisitsOnce)
BY ViewsHoldOn, ViewsHoldValues, PTL

\* The same, as the run states it of a lattice that may rest.
THEOREM ViewsAreAlwaysValues == ViewSpec => []ViewsAreValues
<1>1. ViewsHold => ViewsAreValues
    BY ViewsHoldValues DEF ViewsAreValues
<1> QED BY <1>1, ViewsHoldOn, PTL

=============================================================================
