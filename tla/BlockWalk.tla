------------------------------ MODULE BlockWalk ------------------------------
(***************************************************************************)
(* The walk of `Filesystem::read_file` (src/src/fs.rs): where in the file  *)
(* a call is, the block that holds that place, and what it copies out of   *)
(* the block.                                                              *)
(***************************************************************************)
EXTENDS Integers, Sequences

CONSTANTS
  FileSize,     \* FileSize[n]: inode.size
  BlockSize

VARIABLES
  req,          \* req[r]: the arguments of r's call, [nid, off, len]
  buf,          \* the bytes of the caller's buffer written so far
  block         \* the scratch block being filled

Least(a, b) == IF a <= b THEN a ELSE b

\* Where the call is in the file, and the block that holds it.
Cursor(r) == req[r].off + Len(buf[r])
BlockStart(r) == Cursor(r) - (Cursor(r) % BlockSize)
ValidInBlock(r) == Least(FileSize[req[r].nid] - BlockStart(r), BlockSize)

\* Seeded fault: every block is copied out from its first byte.
InBlockOff_Zero(r) == 0

InBlockOff(r) == Cursor(r) % BlockSize
Take(r) == Least(ValidInBlock(r) - InBlockOff(r), req[r].len - Len(buf[r]))

\* The offset of the fill in progress.
FillAt(r) == BlockStart(r) + Len(block[r])
=============================================================================
