----------------------------- MODULE PagedImage -----------------------------
(***************************************************************************)
(* An image on disk: PagedImage of src/src/image.cpp 225-715, with what it *)
(* has Table do for it.  An image is a table of one row whose cell "map"   *)
(* holds the pixels; units, coordinates and the name of the default mask   *)
(* are keywords of its table.dat, and every mask is a table of its own in  *)
(* a subdirectory.  One PagedImage at a time works on the directory        *)
(* (image.hpp:231); its process may die at any moment.                     *)
(***************************************************************************)
EXTENDS Naturals, Sequences

CONSTANTS
    Point,      \* the pixels of the image
    Pixel,      \* what a pixel can be, Blank among it
    Blank,      \* the value of pixels nobody has put
    Units,      \* values of the metadata, NoUnits among them
    NoUnits,    \* an image whose table has no keywords yet
    Mask,       \* names of masks
    NoMask,     \* the name of the default mask when there is none
    MaskData,   \* what a mask can be
    Nothing     \* the mask of a new mask table: all FALSE

ASSUME ImageAssumption ==
    /\ Blank \in Pixel /\ NoUnits \in Units
    /\ NoMask \notin Mask /\ Nothing \notin MaskData

VARIABLES
    imageDat,   \* table.dat of the image with its keywords
    imageMap,   \* the file of its pixels
    maskDir,    \* the table of each mask: table.dat and the file of its data
    image,      \* the PagedImage: "closed" or open, its pixels and metadata
    pendingWrites,     \* the writes the current call has still to do
    put_pixels, \* what the program has put into this image's pixels
    flushed,    \* what the last flush that returned wrote
    attempts,   \* pixels of flushes that died since
    madeMask    \* the data of the last make_mask of each name that returned

imageVars == <<imageDat, imageMap, maskDir, image, pendingWrites,
               put_pixels, flushed, attempts, madeMask>>

Pixels == [Point -> Pixel]
Blanks == [p \in Point |-> Blank]
FileState == {"none", "torn", "ok"}
NoFile == [state |-> "none", pixels |-> Blanks]
NoDat == [state |-> "none", units |-> NoUnits, default |-> NoMask]
NoMaskDir == [dat |-> "none", map |-> "none", data |-> Nothing]
Closed == [mode |-> "closed", pixels |-> Blanks, units |-> NoUnits, default |-> NoMask]

FileWrite == [file : {"map", "dat"}]
         \cup [file : {"maskDat"}, name : Mask]
         \cup [file : {"maskMap"}, name : Mask, data : MaskData \cup {Nothing}]

ImageTypeOK ==
    /\ imageDat \in [state : FileState, units : Units, default : Mask \cup {NoMask}]
    /\ imageMap \in [state : FileState, pixels : Pixels]
    /\ maskDir \in [Mask -> [dat : FileState, map : FileState, data : MaskData \cup {Nothing}]]
    /\ image \in [mode : {"closed", "ro", "rw"}, pixels : Pixels, units : Units,
                  default : Mask \cup {NoMask}]
    /\ pendingWrites \in Seq(FileWrite)
    /\ put_pixels \in Pixels
    /\ flushed \in [pixels : Pixels, units : Units, default : Mask \cup {NoMask}]
    /\ attempts \subseteq Pixels
    /\ madeMask \in [Mask -> MaskData \cup {Nothing}]

ImageInit ==
    /\ imageDat = NoDat /\ imageMap = NoFile /\ maskDir = [m \in Mask |-> NoMaskDir]
    /\ image = Closed /\ pendingWrites = <<>> /\ put_pixels = Blanks
    /\ flushed = [pixels |-> Blanks, units |-> NoUnits, default |-> NoMask]
    /\ attempts = {} /\ madeMask = [m \in Mask |-> Nothing]

Idle(modes) == pendingWrites = <<>> /\ image.mode \in modes

----------------------------------------------------------------------------
(***************************************************************************)
(* The files, in the order a call writes them.                             *)
(***************************************************************************)
\* Table::create: table.dat without keywords, then a file of blank pixels.
CreateWrites == <<[file |-> "dat"], [file |-> "map"]>>

\* Mutant: Table::flush writes table.dat first.
FlushWritesDatFirst == <<[file |-> "dat"], [file |-> "map"]>>

\* Table::flush of a table with a TSM writer.
FlushWrites == <<[file |-> "map"], [file |-> "dat"]>>

\* make_mask: Table::create in the subdirectory, then its flush.
MaskWrites(name, mask_data) ==
    <<[file |-> "maskDat", name |-> name],
      [file |-> "maskMap", name |-> name, data |-> Nothing],
      [file |-> "maskMap", name |-> name, data |-> mask_data],
      [file |-> "maskDat", name |-> name]>>

\* One of them, which leaves the file in the state st.
WriteImageFile(wr, st) ==
    /\ imageDat' = IF wr.file # "dat" THEN imageDat
                   ELSE [state |-> st, units |-> image.units, default |-> image.default]
    /\ imageMap' = IF wr.file # "map" THEN imageMap
                   ELSE [state |-> st, pixels |-> IF st = "ok" THEN image.pixels ELSE Blanks]
    /\ maskDir' = CASE wr.file = "maskDat" -> [maskDir EXCEPT ![wr.name].dat = st]
                    [] wr.file = "maskMap" ->
                          [maskDir EXCEPT ![wr.name].map = st,
                                          ![wr.name].data = IF st = "ok" THEN wr.data ELSE Nothing]
                    [] OTHER -> maskDir

\* The next write of the current call.  With the last one the call returns;
\* a constructor puts zeros and the metadata into the new image's memory only.
NextFileWrite ==
    /\ pendingWrites # <<>>
    /\ WriteImageFile(Head(pendingWrites), "ok")
    /\ pendingWrites' = Tail(pendingWrites)
    /\ LET returns == Len(pendingWrites) = 1
           wr == Head(pendingWrites)
       IN  /\ madeMask' = IF returns /\ wr.file = "maskDat"
                          THEN [madeMask EXCEPT ![wr.name] = maskDir[wr.name].data]
                          ELSE madeMask
           /\ IF returns /\ wr.file \in {"dat", "map"}
              THEN /\ flushed' = [pixels |-> image.pixels, units |-> image.units,
                                  default |-> image.default]
                   /\ attempts' = {}
              ELSE UNCHANGED <<flushed, attempts>>
    /\ UNCHANGED <<image, put_pixels>>

\* The process dies, between calls or in a write, which it may leave half done.
ImageCrash ==
    /\ image.mode # "closed"
    /\ \/ UNCHANGED <<imageDat, imageMap, maskDir>>
       \/ pendingWrites # <<>> /\ WriteImageFile(Head(pendingWrites), "torn")
    /\ image' = Closed /\ pendingWrites' = <<>> /\ put_pixels' = Blanks
    /\ attempts' = IF pendingWrites # <<>> /\ Head(pendingWrites).file \in {"map", "dat"}
                   THEN attempts \cup {image.pixels} ELSE attempts
    /\ madeMask' = [m \in Mask |->
                       IF \E i \in DOMAIN pendingWrites : pendingWrites[i].file \in {"maskMap", "maskDat"}
                                                   /\ pendingWrites[i].name = m
                       THEN Nothing ELSE madeMask[m]]
    /\ UNCHANGED flushed

----------------------------------------------------------------------------
(***************************************************************************)
(* Creating, opening and closing.                                          *)
(***************************************************************************)
CreateImage ==
    /\ Idle({"closed"}) /\ imageDat.state = "none"
    /\ image' = [Closed EXCEPT !.mode = "rw"]
    /\ pendingWrites' = CreateWrites
    /\ put_pixels' = Blanks
    /\ UNCHANGED <<imageDat, imageMap, maskDir, flushed, attempts, madeMask>>

load_metadata == [units |-> imageDat.units, default |-> imageDat.default]

\* Table::open reads table.dat, and pixels only when they are asked for;
\* Table::open_rw reads the pixels into its writer.  When there is no file of
\* pixels it starts with blanks; one it cannot read makes it throw.
OpenImage(writable) ==
    /\ Idle({"closed"}) /\ imageDat.state = "ok"
    /\ writable => imageMap.state # "torn"
    /\ image' = [mode |-> IF writable THEN "rw" ELSE "ro", pixels |-> imageMap.pixels,
                 units |-> load_metadata.units, default |-> load_metadata.default]
    /\ put_pixels' = imageMap.pixels
    /\ UNCHANGED <<imageDat, imageMap, maskDir, pendingWrites, flushed, attempts, madeMask>>

\* Neither PagedImage nor Table has a destructor that writes.
DestroyImage ==
    /\ Idle({"ro", "rw"})
    /\ image' = Closed /\ put_pixels' = Blanks
    /\ UNCHANGED <<imageDat, imageMap, maskDir, pendingWrites, flushed, attempts, madeMask>>

----------------------------------------------------------------------------
(***************************************************************************)
(* Pixels, metadata and masks of an open image.                            *)
(***************************************************************************)
\* Mutant: the pixels are read from the file, as before read-after-write.
get_from_file == imageMap.pixels

\* The pixels are those of the TSM writer, when there is one.
get == IF image.mode = "rw" THEN image.pixels ELSE imageMap.pixels

\* put and put_slice or put_at, which replace some of what get() returns.
PutImage(some, value) ==
    /\ Idle({"rw"})
    /\ image' = [image EXCEPT !.pixels = [p \in Point |-> IF p \in some THEN value ELSE get[p]]]
    /\ put_pixels' = [p \in Point |-> IF p \in some THEN value ELSE put_pixels[p]]
    /\ UNCHANGED <<imageDat, imageMap, maskDir, pendingWrites, flushed, attempts, madeMask>>

\* set_units, and likewise the setters of the other metadata.
set_units(unit_str) ==
    /\ Idle({"ro", "rw"})
    /\ image' = [image EXCEPT !.units = unit_str]
    /\ UNCHANGED <<imageDat, imageMap, maskDir, pendingWrites, put_pixels, flushed, attempts, madeMask>>

\* The keywords of the image's table get to know the mask, but not its file.
make_mask(name, mask_data, set_default) ==
    /\ Idle({"rw"})
    /\ image' = IF set_default THEN [image EXCEPT !.default = name] ELSE image
    /\ pendingWrites' = MaskWrites(name, mask_data)
    /\ UNCHANGED <<imageDat, imageMap, maskDir, put_pixels, flushed, attempts, madeMask>>

FlushImage ==
    /\ Idle({"rw"})
    /\ pendingWrites' = FlushWrites
    /\ UNCHANGED <<imageDat, imageMap, maskDir, image, put_pixels, flushed, attempts, madeMask>>

ImageCalls ==
    \/ CreateImage \/ DestroyImage \/ FlushImage \/ NextFileWrite
    \/ \E writable \in BOOLEAN : OpenImage(writable)
    \/ \E some \in SUBSET Point \ {{}}, value \in Pixel : PutImage(some, value)
    \/ \E u \in Units : set_units(u)
    \/ \E name \in Mask, data \in MaskData, set_default \in BOOLEAN :
          make_mask(name, data, set_default)

ImageNext == ImageCalls \/ ImageCrash

ImageSpec == ImageInit /\ [][ImageNext]_imageVars

----------------------------------------------------------------------------
(***************************************************************************)
(* Properties.                                                             *)
(***************************************************************************)
\* Whatever was put piece by piece is what get() returns, before and after
\* flushes; and get_mask() finds the mask the last make_mask of that name wrote.
ImageShowsWhatWasPut ==
    /\ image.mode = "rw" => get = put_pixels
    /\ /\ image.mode # "closed" /\ pendingWrites = <<>> /\ image.default # NoMask
       /\ madeMask[image.default] # Nothing
       => maskDir[image.default] =
             [dat |-> "ok", map |-> "ok", data |-> madeMask[image.default]]

\* What a crash leaves: a table.dat that can be read holds the metadata of the
\* last flush that returned, and with it are that flush's pixels or those of a
\* later one; and the mask it names has been written whole, unless the program
\* died while it made a new one of that name.
SavedImageIsWhole ==
    image.mode = "closed" /\ imageDat.state = "ok" =>
        /\ [units |-> imageDat.units, default |-> imageDat.default]
              = [units |-> flushed.units, default |-> flushed.default]
        /\ imageMap.state = "ok" => imageMap.pixels \in {flushed.pixels} \cup attempts
        /\ attempts = {} => imageMap.state = "ok"
        /\ imageDat.default # NoMask /\ madeMask[imageDat.default] # Nothing =>
              maskDir[imageDat.default] =
                 [dat |-> "ok", map |-> "ok", data |-> madeMask[imageDat.default]]
=============================================================================
