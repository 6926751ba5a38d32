--------------------------- MODULE DirectoryWalk ----------------------------
(***************************************************************************)
(* Directory beside ImageLayout: the same component under names of its     *)
(* own, and with a block and a dirent of its own size.                     *)
(***************************************************************************)
EXTENDS Integers, Sequences

CONSTANTS WalkBlockSize, WalkDirentSize, WalkDirs, WalkWanted, NotMade

VARIABLES walkDir, walkOp, walkLeft, walkBlock, walkEntry, walkOut, walkFound, walkResult

walkVars ==
  <<walkDir, walkOp, walkLeft, walkBlock, walkEntry, walkOut, walkFound, walkResult>>

ASSUME WalkAssumption ==
  /\ WalkBlockSize \in Nat
  /\ WalkDirentSize \in Nat \ {0}
  /\ WalkDirentSize =< WalkBlockSize

Walk == INSTANCE Directory WITH
  DirBlockSize <- WalkBlockSize, DirentSize <- WalkDirentSize,
  Dirs <- WalkDirs, Wanted <- WalkWanted,
  dir <- walkDir, op <- walkOp, remaining <- walkLeft, block <- walkBlock,
  entry <- walkEntry, out <- walkOut, found <- walkFound, result <- walkResult

\* A directory of the builder lists as it was made, each child under its name.
ListsWhatWasMade == Walk!ListsWhatWasMade

\* On any directory a lookup answers and refuses as a listing does.
LookupAgreesWithListing == Walk!LookupAgreesWithListing
=============================================================================
