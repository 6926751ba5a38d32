\* 64 KiB blocks and lclusters, a file that compresses 200 to 1: 12 MiB are 192 of them.
CONSTANTS
  File <- MCFileLong
  Source <- MCSourceLong
  LcBlocks = 1
  LcSize = 1
  MaxDelta = 65535
  MaxBlocks = 1000000
  ZLcBits = 16
  MaxPcluster = 192
  Place <- MCPlaceLong
  FirstBlock = 7
SPECIFICATION Spec
INVARIANT PclustersWithinReach
CHECK_DEADLOCK FALSE
