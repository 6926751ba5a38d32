---------------------------- MODULE ImageReader -----------------------------
(***************************************************************************)
(* Where the reader looks for an inode and for a block of its data         *)
(* (src/src/inode.rs iloc, body_end and read; src/src/fs.rs                *)
(* read_data_block_for; src/src/chunked.rs lookup_chunk_blkaddr), on an    *)
(* image given as the sequence of writes that made it.                     *)
(*                                                                         *)
(* A write is [off, len, what]; `what` names the content, and carries the  *)
(* fields the reader parses out of it.                                     *)
(***************************************************************************)
EXTENDS ImagePlan

CONSTANT NullAddr       \* EROFS_NULL_ADDR

\* The first metadata block: SB_AREA_END rounded up.
SuperOffset == 1024
SuperEnd    == SuperOffset + 128
MetaBlkaddr == CeilDiv(SuperEnd, BlockSize)
MetaBase    == MetaBlkaddr * BlockSize

Overlap(o1, l1, o2, l2) ==
  o1 < o2 + l2 /\ o2 < o1 + l1 /\ l1 > 0 /\ l2 > 0

\* What the bytes [off, off + len) of the image still hold whole, as
\* <<content, position in it>>; <<"lost">> when they were never written as
\* one, or written over.
At(img, off, len) ==
  LET whole(k) == /\ img[k].off =< off
                  /\ off + len =< img[k].off + img[k].len
                  /\ \A j \in (k + 1)..Len(img) :
                       ~Overlap(img[j].off, img[j].len, off, len)
      holders  == {k \in DOMAIN img : whole(k)}
  IN  IF holders = {} THEN <<"lost">>
      ELSE LET k == CHOOSE j \in holders : TRUE
           IN  <<img[k].what, off - img[k].off>>

\* Inode::read asks for an extended inode's bytes wherever it looks, then
\* parses what is there.
Iloc(nid) == MetaBase + nid * CompactSize
InodeAt(img, size, nid) ==
  IF Iloc(nid) + ExtendedSize > size THEN <<"lost">>
  ELSE At(img, Iloc(nid), CompactSize)
BodyEnd(ino) ==
  Iloc(ino.nid) + (IF ino.ext THEN ExtendedSize ELSE CompactSize) + ino.xattr

\* The map entry of chunk c, counted from 0, when entries are `stride` bytes:
\* a read that does not meet one entry of the map yields no address.
NoAddr == -1
MapEntry(img, ino, c, stride) ==
  LET w == At(img, BodyEnd(ino) + c * stride, stride) IN
  IF w # <<"lost">> /\ w[1].kind = "chunkmap" /\ w[1].stride = stride
  THEN w[1].addrs[w[2] \div stride + 1] ELSE NoAddr
ChunkAddr(img, ino, c) == MapEntry(img, ino, c, IF ino.indexed THEN 8 ELSE 4)

\* The first `len` bytes of block b of the inode, as they are read.
BlockAt(img, ino, b, len) ==
  LET perChunk == 2^ino.bits
      addr     == ChunkAddr(img, ino, b \div perChunk)
  IN
  CASE ino.layout = "plain" -> At(img, (ino.rawU + b) * BlockSize, len)
    [] ino.layout = "inline" ->
         IF b = CeilDiv(ino.size, BlockSize) - 1 THEN At(img, BodyEnd(ino), len)
         ELSE At(img, (ino.rawU + b) * BlockSize, len)
    [] ino.layout = "chunked" ->
         IF addr = NullAddr THEN <<"hole">>
         ELSE IF addr = NoAddr THEN <<"lost">>
         ELSE At(img, (addr + (b % perChunk)) * BlockSize, len)
=============================================================================
