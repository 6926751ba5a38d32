\* 2 KiB blocks and 4 KiB lclusters; both index forms at every alignment of the
\* inode that the builder and the reader agree on, and the indexes of other writers.
\* MaxDelta and MaxBlocks stand for u16::MAX and u32::MAX.
CONSTANTS
  File <- MCFile
  Source <- MCSource
  LcBlocks = 2
  LcSize = 2
  MaxDelta = 20
  MaxBlocks = 30
  ZLcBits = 12
  MaxPcluster = 6144
  Place <- MCPlace
  FirstBlock = 7
SPECIFICATION IndexSpec
INVARIANTS
  PclustersTile
  EntriesLeadHome
  IndexAsPlanned
  TrailerAsPlanned
  AnswersThePlan
PROPERTY LookupsReturn
CHECK_DEADLOCK FALSE
