\* What the end of an iteration leaves in the errno, against a test's words.
CONSTANTS
  t1 = t1
  t2 = t2
  NULL = NULL
  Thread = {t1}
  Fs = {"fs1"}
  Iter = {"it1"}
  Path <- MCPath
  Leads <- MCLeads
  Inode <- MCInode
  Cut <- MCCut
  Offset = {0}
  Length = {3}
SPECIFICATION Spec
INVARIANT EndIsNoFailure
