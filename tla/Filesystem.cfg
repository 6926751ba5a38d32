\* Two readers, one cache, one resize: images that are sound, an untruthful tail, what
\* does not decode, a damaged index, short and empty reads.  Every path of the tree,
\* followed and not, with three symlinks to spend.
CONSTANTS
  Reader = {r1, r2}
  Inodes = {"a", "b", "d", "u", "x"}
  Nid <- Inodes
  FileSize <- MCFileSize
  BlockSize = 4
  Extent <- MCExtent
  Index <- MCIndex
  Payload <- MCPayload
  Gone <- MCGone
  Zero = Zero
  Request <- MCRequest
  Capacity = {0, 1, 2, 3}
  ByteLimit = 12
  MaxReads = 2
  MaxResizes = 1
  Node <- MCNode
  Root = "root"
  NodeKind <- MCKind
  Entry <- MCEntry
  Target <- MCTarget
  Path <- MCPath
  MaxSymlinks = 3
  MaxCalls = 1
SPECIFICATION SceneSpec
INVARIANTS
  CacheCoherent
  CacheWithinCapacity
  BytesAccounted
  ReadCorrect
  RefusedOnlyForCause
  NeverInsideLink
PROPERTIES
  ReadsReturn
  ImplementsService
  CallsReturn
  ImplementsNameWalk
CHECK_DEADLOCK FALSE
