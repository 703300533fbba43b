--------------------------- MODULE Ext2Filesystem ---------------------------
(***************************************************************************)
(* minecraft-carve/ext2filesystem.cpp: an ext2/3/4 filesystem in an image, *)
(* as libext2fs shows it.  The filesystem is opened for reading and its    *)
(* bitmaps are read once, so the only state is the image itself.           *)
(***************************************************************************)
EXTENDS Image

(***************************************************************************)
(* IdentifyExt2FS answers no when it cannot read the magic number, because *)
(* the file is too short or for any other reason.                          *)
(***************************************************************************)
IdentifyExt2FS(answer) ==
  \/ answer = image.magic
  \/ ~answer /\ "identify" \in Faulty

(***************************************************************************)
(* The constructor.                                                        *)
(***************************************************************************)
Opens == image.ext2
OpeningThrows == ~image.ext2 \/ "ext2" \in Faulty

blocksize == image.blocksize
first_data_block == image.first
fs_blocks_count == image.fs_blocks
block_is_used(b) == b \in image.used

(***************************************************************************)
(* read_block does not check the number: libext2fs reads what the file has *)
(* at its place, and fails past the end.                                   *)
(***************************************************************************)
Reads(b) == Holds(b, blocksize)
ReadingThrows(b) == ~Holds(b, blocksize) \/ "ext2" \in Faulty
=============================================================================
