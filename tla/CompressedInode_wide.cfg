\* 4 KiB blocks and lclusterbits 1, compact index: lclusters of 8 KiB.
CONSTANTS
  File <- MCFileWide
  Source <- MCSourceWide
  LcBlocks = 2
  LcSize = 2
  MaxDelta = 65535
  MaxBlocks = 1000000
  ZLcBits = 13
  MaxPcluster = 3072
  Place <- MCPlaceWide
  FirstBlock = 7
SPECIFICATION Spec
INVARIANT EncoderInvertsDecoder
CHECK_DEADLOCK FALSE
