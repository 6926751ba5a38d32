\* Two threads; buffers shorter than a file and its rest, and of a target with and without its NUL.
CONSTANTS
  t1 = t1
  t2 = t2
  NULL = NULL
  Thread = {t1, t2}
  Fs = {"fs1"}
  Iter = {"it1"}
  Path <- MCPath
  Leads <- MCLeads
  Inode <- MCInode
  Cut <- MCCut
  Offset = {2, 4}
  Length = {0, 2, 3}
SYMMETRY Symmetry
SPECIFICATION Spec
INVARIANTS
  OwnFailureTold
  AnswersFitBuffer
  IterationWhole
