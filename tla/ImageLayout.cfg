\* Blocks of 2048 bytes: the superblock has a checksum and shares its block.
\* MaxBlocks stands for u32::MAX.
CONSTANTS
  BlockSize = 2048
  DirBlockSize = 2048
  DirentSize = 12
  MaxBlocks = 24
  NullAddr = 24
  Plans <- MCPlans
  BlobSizes <- MCBlobs
  WalkBlockSize = 8
  WalkDirentSize = 2
  WalkDirs <- MCDirs
  WalkWanted <- MCWanted
  NotMade = NotMade
SPECIFICATION BothSpec
INVARIANTS
  WritesApart
  ReaderFinds
  ChecksumHolds
  FailsForCause
  ListsWhatWasMade
  LookupAgreesWithListing
CHECK_DEADLOCK FALSE
