\* Export, ls -R and mkfs, each by itself; two exports that share no name.
CONSTANTS
  NULL = NULL
  Old = Old
  Hole = Hole
  Process = {"p", "q"}
  File <- MCFile
  Ino = {1, 2, 3, 4}
  Dest <- MCDestApart
  Partial <- MCPartial
  Removes = {"q"}
  Chunks <- MCChunks
SPECIFICATION CommandSpec
INVARIANTS
  NeverHalfWritten
  OutcomeTrue
  ListsEachOnce
  StopsAtBounds
  ReportTrue
CHECK_DEADLOCK FALSE
