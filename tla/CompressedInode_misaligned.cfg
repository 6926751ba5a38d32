\* Legacy index, an inode whose xattrs leave its end at 4 mod 8.
CONSTANTS
  File <- MCFile
  Source <- MCSource
  LcBlocks = 2
  LcSize = 2
  MaxDelta = 65535
  MaxBlocks = 1000000
  ZLcBits = 12
  MaxPcluster = 6144
  Place <- MCPlaceMisaligned
  FirstBlock = 7
SPECIFICATION Spec
INVARIANT LegacyIndexMet
CHECK_DEADLOCK FALSE
